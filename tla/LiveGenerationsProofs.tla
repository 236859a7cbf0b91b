------------------------- MODULE LiveGenerationsProofs -------------------------
(***************************************************************************)
(* Safety of LiveGenerations for any set of plugins, any dependencies and  *)
(* any number of changes and failures.  IInv is the inductive              *)
(* strengthening.                                                          *)
(***************************************************************************)
EXTENDS LiveGenerations, TLAPS

Unstarted(g) == /\ lifecycle[g].entered = {} /\ lifecycle[g].retired = {}
                /\ ~ lifecycle[g].dirty /\ ~ lifecycle[g].cancelled
Changing == op.kind = "change" /\ op.step # "build"
Held == {"entered", "opened", "ready", "stuck"}

(* The generations composed never exceed those there are. *)
Budgeted ==
  made + 2 * left.changes + (IF op.kind = "change" /\ op.step = "build" THEN 2 ELSE 0)
    <= 2 * MaxChanges + 1

(* Which generation an operation is at. *)
Shape ==
  /\ current <= made
  /\ op.kind = "idle" => op.step = "build"
  /\ op.kind = "initialize" =>
       current = 0 /\ made = 1 /\ op.on = 1 /\ op.stage = "first" /\ op.step # "build"
  /\ op.kind = "shutdown" =>
       /\ current # 0 /\ op.on = current /\ op.stage = "rest" /\ op.step \in Stopping
       /\ lifecycle[current].cancelled
  /\ op.kind = "change" /\ op.step = "build" => Available
  /\ Changing =>
       /\ current # 0 /\ current + 2 <= made /\ lifecycle[current].cancelled
       /\ \/ op.stage \in {"old", "rest"} /\ op.on = current /\ op.step \in Stopping
          \/ op.stage = "candidate" /\ op.on = made - 1
          \/ op.stage = "recovery" /\ op.on = made

(* Instances are made by their own generation. *)
Known ==
  \A g \in Generation :
    /\ g > made => Unstarted(g) /\ Composed(g) = {}
    /\ \A p \in Plugin : lifecycle[g].entries[p] <= g
    /\ lifecycle[g].entered \subseteq Composed(g)

Registered ==
  \A p \in Plugin, g \in Generation :
    /\ unit[<<p, g>>].stage # "absent" =>
         lifecycle[g].entries[p] = g /\ p \in lifecycle[g].entered
    /\ unit[<<p, g>>].stops = IF unit[<<p, g>>].stage \in {"stopped", "stuck"} THEN 1 ELSE 0

(* What a change composes. *)
Recipes ==
  /\ op.kind = "change" => op.target \ op.changed = Composed(current) \ op.changed
  /\ Changing => \A g \in {made - 1, made}, p \in Plugin :
       IF p \in op.changed THEN lifecycle[g].entries[p] \in {0, g}
       ELSE lifecycle[g].entries[p] = lifecycle[current].entries[p]

(* How far a start or a stop is. *)
Phase ==
  /\ Changing /\ op.stage = "old" => Unstarted(made - 1)
  /\ Changing /\ op.stage \in {"old", "candidate"} => Unstarted(made)
  /\ op.step \in Starting => lifecycle[op.on].retired = {}
  /\ op.step = "open" => /\ op.todo \subseteq Composed(op.on)
                         /\ lifecycle[op.on].entered = Composed(op.on) \ op.todo
  /\ op.step \in {"launch", "ready", "route"} =>
       lifecycle[op.on].entered = Composed(op.on) /\ op.todo \subseteq Fresh(op.on)
  /\ op.step \in Stopping =>
       /\ op.selected \subseteq Composed(op.on) \ lifecycle[op.on].retired
       /\ op.todo \subseteq op.selected
       /\ op.step = "release" => op.todo \subseteq lifecycle[op.on].entered
       /\ op.stage \in {"first", "candidate", "recovery"} =>
            op.selected = Fresh(op.on) /\ lifecycle[op.on].retired = {}
  /\ Changing /\ op.stage = "old" => op.selected = op.changed \cap Composed(current)

Complete(g, retired) ==
  lifecycle[g].entered = Composed(g) /\ lifecycle[g].retired = retired
(* What is registered and retired of the served generation. *)
Serving ==
  /\ Available \/ (Changing /\ op.stage = "old") => Complete(current, {})
  /\ Changing /\ op.stage \in {"candidate", "recovery"} =>
       Complete(current, op.changed \cap Composed(current))

(* Whatever is registered and not retired is up, but for what a stop has released. *)
RegisteredRun ==
  \A g \in {current, op.on} \ {0} :
    \A p \in lifecycle[g].entered \ lifecycle[g].retired :
      \/ unit[Member(g, p)].stage \in Live
      \/ op.on = g /\ op.step = "release" /\ p \in op.selected \ op.todo
CleanStops ==
  op.step = "release" /\ ~ op.dirty =>
    \A p \in (op.selected \cap lifecycle[op.on].entered) \ op.todo :
      unit[Member(op.on, p)].stage = "stopped"

(* The generation whose instance of a plugin may hold its resources. *)
Owner(p) ==
  IF op.kind = "initialize" THEN 1
  ELSE IF Changing /\ op.stage \in {"candidate", "recovery"} /\ p \in op.changed THEN op.on
  ELSE lifecycle[current].entries[p]
Owned ==
  op.kind = "initialize" \/ Available \/ (Changing /\ op.stage # "rest") =>
    \A p \in Plugin, g \in Generation : unit[<<p, g>>].stage \in Held => g = Owner(p)

IInv ==
  /\ TypeOK
  /\ Budgeted
  /\ Shape
  /\ Known
  /\ Registered
  /\ Recipes
  /\ Phase
  /\ Serving
  /\ RegisteredRun
  /\ CleanStops
  /\ Owned
  /\ OneInstance

-----------------------------------------------------------------------------
(* What every step needs of the types. *)
LEMMA Types ==
  ASSUME TypeOK
  PROVE  /\ Generation \subseteq Nat \ {0}
         /\ \A p \in Plugin, g \in Generation :
              /\ <<p, g>> \in Instance
              /\ lifecycle[g].entries[p] \in {0} \cup Generation
         /\ \A g \in Generation :
              /\ Composed(g) \subseteq Plugin /\ Fresh(g) \subseteq Composed(g)
              /\ lifecycle[g].entered \subseteq Plugin /\ lifecycle[g].retired \subseteq Plugin
              /\ \A p \in Composed(g) :
                   Member(g, p) \in Instance /\ Member(g, p) = <<p, lifecycle[g].entries[p]>>
         /\ op.on \in {0} \cup Generation /\ current \in {0} \cup Generation
         /\ op.todo \subseteq Plugin /\ op.selected \subseteq Plugin /\ op.changed \subseteq Plugin
         /\ op.target \subseteq Plugin
<1> USE DEF TypeOK, Lifecycle, Operation
<1>1. Generation \subseteq Nat \ {0}
  BY BoundAssumption DEF Generation
<1>2. \A p \in Plugin, g \in Generation :
        <<p, g>> \in Instance /\ lifecycle[g].entries[p] \in {0} \cup Generation
  BY DEF Instance
<1>3. \A g \in Generation :
        /\ Composed(g) \subseteq Plugin /\ Fresh(g) \subseteq Composed(g)
        /\ lifecycle[g].entered \subseteq Plugin /\ lifecycle[g].retired \subseteq Plugin
  BY DEF Composed, Fresh
<1>4. \A g \in Generation : \A p \in Composed(g) :
        Member(g, p) \in Instance /\ Member(g, p) = <<p, lifecycle[g].entries[p]>>
  BY <1>2, <1>3 DEF Composed, Member, Instance
<1> QED
  BY <1>1, <1>2, <1>3, <1>4

(* A step that leaves the composition, the operation and the stages of the    *)
(* instances alone keeps the invariant.                                       *)
LEMMA QuietStep ==
  ASSUME IInv, TypeOK',
         UNCHANGED <<lifecycle, current, made, op>>,
         \A u \in Instance : unit'[u].stage = unit[u].stage /\ unit'[u].stops = unit[u].stops,
         left'.changes = left.changes
  PROVE  IInv'
<1> USE DEF IInv
<1>1. Budgeted' /\ Shape' /\ Known' /\ Recipes' /\ Phase' /\ Serving'
  BY DEF Budgeted, Shape, Known, Recipes, Phase, Serving, Available, Changing, Unstarted,
         Composed, Fresh, Complete
<1>a. \A p \in Plugin, g \in Generation : /\ unit'[<<p, g>>].stage = unit[<<p, g>>].stage
                                          /\ unit'[<<p, g>>].stops = unit[<<p, g>>].stops
  BY DEF Instance
<1>b. \A g \in Generation : \A p \in Composed(g) :
        Member(g, p)' = Member(g, p) /\ unit'[Member(g, p)].stage = unit[Member(g, p)].stage
  BY Types DEF Member
<1>2. Registered'
  <2> SUFFICES ASSUME NEW p \in Plugin, NEW g \in Generation
               PROVE  /\ unit'[<<p, g>>].stage # "absent" =>
                           lifecycle'[g].entries[p] = g /\ p \in lifecycle'[g].entered
                      /\ unit'[<<p, g>>].stops =
                           IF unit'[<<p, g>>].stage \in {"stopped", "stuck"} THEN 1 ELSE 0
    BY DEF Registered
  <2>1. unit'[<<p, g>>].stage = unit[<<p, g>>].stage /\ unit'[<<p, g>>].stops = unit[<<p, g>>].stops
    BY <1>a
  <2> QED
    BY <2>1 DEF Registered
<1>3. RegisteredRun'
  <2> SUFFICES ASSUME NEW g \in {current, op.on} \ {0},
                      NEW p \in lifecycle[g].entered \ lifecycle[g].retired
               PROVE  \/ unit'[Member(g, p)'].stage \in Live
                      \/ op.on = g /\ op.step = "release" /\ p \in op.selected \ op.todo
    BY DEF RegisteredRun
  <2>1. g \in Generation /\ p \in Composed(g)
    BY Types DEF Known
  <2> QED
    BY <1>b, <2>1 DEF RegisteredRun
<1>4. CleanStops'
  <2> SUFFICES ASSUME op.step = "release" /\ ~ op.dirty,
                      NEW p \in (op.selected \cap lifecycle[op.on].entered) \ op.todo
               PROVE  unit'[Member(op.on, p)'].stage = "stopped"
    BY DEF CleanStops
  <2>1. op.on \in Generation /\ p \in Composed(op.on)
    BY Types DEF Known, Shape, Changing, TypeOK, Operation
  <2> QED
    BY <1>b, <2>1 DEF CleanStops
<1>5. Owned' /\ OneInstance'
  BY <1>a DEF Owned, OneInstance, Owner, Available, Changing
<1> QED
  BY <1>1, <1>2, <1>3, <1>4, <1>5

(* The stage of an instance tells whether it holds resources. *)
LEMMA Stages ==
  ASSUME TypeOK, NEW u \in Instance
  PROVE  unit[u].stage \in Held <=> unit[u].stage \notin {"absent", "stopped"}
BY DEF TypeOK, Unit, Held, Live

(* An operation that starts or stops is at a generation. *)
LEMMA AtGeneration ==
  ASSUME IInv, op.step \in Starting \cup Stopping
  PROVE  op.on \in Generation /\ op.on # 0 /\ op.kind # "idle" /\ (op.kind = "change" => Changing)
<1>1. op.step # "build" /\ op.kind \in {"idle", "initialize", "change", "shutdown"}
  BY DEF IInv, TypeOK, Operation, Starting, Stopping
<1>2. op.kind # "idle" /\ (op.kind = "change" => Changing)
  BY <1>1 DEF IInv, Shape, Changing
<1>3. op.on # 0
  <2>1. CASE op.kind = "initialize"
    BY <2>1 DEF IInv, Shape
  <2>2. CASE op.kind = "shutdown"
    BY <2>2 DEF IInv, Shape
  <2>3. CASE Changing
    <3>1. made \in Nat /\ current \in Nat /\ current # 0 /\ current + 2 <= made
      BY <2>3, BoundAssumption DEF IInv, Shape, TypeOK, Generation
    <3> QED
      BY <2>3, <3>1 DEF IInv, Shape
  <2> QED
    BY <1>1, <1>2, <2>1, <2>2, <2>3
<1> QED
  BY <1>2, <1>3, Types DEF IInv

SameOperation ==
  /\ op'.kind = op.kind /\ op'.stage = op.stage /\ op'.on = op.on
  /\ op'.selected = op.selected /\ op'.changed = op.changed /\ op'.target = op.target

(* A step within a start, or within a stop, that gives no plugin resources     *)
(* it did not hold leaves these parts alone.                                   *)
LEMMA AdvanceStep ==
  ASSUME IInv, TypeOK', SameOperation,
         UNCHANGED <<lifecycle, current, made>>, left'.changes = left.changes,
         \/ op.step \in Starting /\ op'.step \in Starting
         \/ op.step \in Stopping /\ op'.step \in Stopping,
         \A p \in Plugin, g \in Generation :
           unit'[<<p, g>>].stage \in Held => unit[<<p, g>>].stage \in Held
  PROVE  Budgeted' /\ Shape' /\ Known' /\ Recipes' /\ Serving' /\ Owned' /\ OneInstance'
<1> USE DEF IInv, SameOperation
<1>1. op.step # "build" /\ op'.step # "build" /\ (op.step \in Stopping <=> op'.step \in Stopping)
  BY DEF Starting, Stopping
<1>2. Budgeted' /\ Shape' /\ Known'
  BY <1>1 DEF Budgeted, Shape, Known, Available, Changing, Unstarted, Composed
<1>3. Recipes' /\ Serving'
  BY <1>1 DEF Recipes, Serving, Available, Changing, Unstarted, Composed, Fresh, Complete
<1>4. Owned'
  BY <1>1 DEF Owned, Owner, Available, Changing
<1>5. OneInstance'
  <2> SUFFICES ASSUME NEW p \in Plugin, NEW g \in Generation, NEW h \in Generation, g # h
               PROVE  \/ unit'[<<p, g>>].stage \in {"absent", "stopped"}
                      \/ unit'[<<p, h>>].stage \in {"absent", "stopped"}
    BY DEF OneInstance
  <2>1. <<p, g>> \in Instance /\ <<p, h>> \in Instance
    BY DEF Instance
  <2>2. unit[<<p, g>>].stage \notin Held \/ unit[<<p, h>>].stage \notin Held
    BY <2>1, Stages DEF OneInstance
  <2>3. unit'[<<p, g>>].stage \notin Held \/ unit'[<<p, h>>].stage \notin Held
    BY <2>2
  <2> QED
    BY <2>1, <2>3 DEF TypeOK, Unit, Held, Live
<1> QED
  BY <1>2, <1>3, <1>4, <1>5

(* The steps of a stop and of a start that only move the operation on. *)
MovesOn ==
  UNCHANGED <<lifecycle, unit, current, made>> /\ left'.changes = left.changes /\ SameOperation

LEMMA MoveStep ==
  ASSUME IInv, TypeOK', MovesOn, Phase',
         \/ op.step \in Starting /\ op'.step \in Starting
         \/ op.step \in Stopping /\ op'.step \in {"quiesce", "drain"} /\ op.step # "release"
         \/ /\ op.step = "drain" /\ op'.step = "release"
            /\ op'.todo = op.selected \cap lifecycle[op.on].entered
  PROVE  IInv'
<1> USE DEF IInv, MovesOn, SameOperation
<1>1. Budgeted' /\ Shape' /\ Known' /\ Recipes' /\ Serving' /\ Owned' /\ OneInstance'
  <2>1. \/ op.step \in Starting /\ op'.step \in Starting
        \/ op.step \in Stopping /\ op'.step \in Stopping
    BY DEF Stopping
  <2> QED
    BY <2>1, AdvanceStep
<1>2. Registered'
  BY DEF Registered
<1>3. RegisteredRun'
  <2> SUFFICES ASSUME NEW g \in {current, op.on} \ {0},
                      NEW p \in lifecycle[g].entered \ lifecycle[g].retired
               PROVE  unit[Member(g, p)].stage \in Live
    BY DEF RegisteredRun, Member
  <2>1. op.step # "release"
    BY DEF Starting
  <2> QED
    BY <2>1 DEF RegisteredRun
<1>4. CleanStops'
  BY DEF CleanStops, Member, Starting
<1> QED
  BY <1>1, <1>2, <1>3, <1>4

LEMMA AwaitRequestsStep ==
  ASSUME IInv, AwaitRequests
  PROVE  IInv'
<1> USE DEF AwaitRequests, IInv
<1>1. TypeOK'
  BY DEF TypeOK, Operation, Stopping
<1>2. MovesOn
  BY DEF MovesOn, SameOperation, TypeOK, Operation
<1>3. Phase' /\ op.step \in Stopping /\ op'.step = "drain"
  BY DEF Phase, TypeOK, Operation, Changing, Unstarted, Composed, Fresh, Starting, Stopping
<1> QED
  BY <1>1, <1>2, <1>3, MoveStep

LEMMA DrainStep ==
  ASSUME IInv, NEW p \in Plugin, Drain(p)
  PROVE  IInv'
<1> USE DEF Drain, Last, IInv
<1>1. op.on \in Generation /\ p \in Composed(op.on)
  BY Types DEF Phase, Shape, Changing, Stopping, TypeOK, Operation
<1>2. unit[Member(op.on, p)].failed \in BOOLEAN
  BY <1>1, Types DEF TypeOK, Unit
<1>3. TypeOK'
  BY <1>2 DEF TypeOK, Operation, Stopping
<1>4. MovesOn
  BY DEF MovesOn, SameOperation, TypeOK, Operation
<1>5. Phase' /\ op.step \in Stopping /\ op'.step = "drain"
  BY DEF Phase, TypeOK, Operation, Changing, Unstarted, Composed, Fresh, Starting, Stopping
<1> QED
  BY <1>3, <1>4, <1>5, MoveStep

LEMMA BeginReleaseStep ==
  ASSUME IInv, BeginRelease
  PROVE  IInv'
<1> USE DEF BeginRelease, IInv
<1>1. op' = [op EXCEPT !.step = "release", !.todo = op.selected \cap lifecycle[op.on].entered]
  OBVIOUS
<1>2. TypeOK'
  BY Types DEF TypeOK, Operation, Stopping
<1>3. MovesOn
  BY DEF MovesOn, SameOperation, TypeOK, Operation
<1>4. Phase' /\ op'.step = "release" /\ op'.todo = op.selected \cap lifecycle[op.on].entered
  BY DEF Phase, TypeOK, Operation, Changing, Unstarted, Composed, Fresh, Starting, Stopping
<1> QED
  BY <1>2, <1>3, <1>4, MoveStep

LEMMA StartMoves ==
  ASSUME IInv, Resolve \/ Launched \/ Started \/ \E p \in Plugin : Launch(p)
  PROVE  IInv'
<1>1. op.step \in Starting /\ op.on \in Generation
  BY AtGeneration DEF Resolve, Launched, Started, Launch, MayGoOn
<1>2. Fresh(op.on) \subseteq Plugin
  BY <1>1, Types DEF IInv
<1>3. PICK step \in {"launch", "ready", "route"}, todo \in SUBSET Plugin :
        /\ NextStep(step, todo) /\ todo \subseteq Fresh(op.on)
        /\ \/ op.step = "open" /\ op.todo = {}
           \/ op.step \in {"launch", "ready"}
  <2>1. CASE Resolve
    BY <1>2, <2>1 DEF Resolve
  <2>2. CASE Launched
    BY <1>2, <2>2 DEF Launched
  <2>3. CASE Started
    BY <2>3 DEF Started
  <2>4. CASE \E p \in Plugin : Launch(p)
    <3>1. PICK p \in Plugin : Launch(p)
      BY <2>4
    <3>2. op.todo \ {p} \in SUBSET Plugin /\ op.todo \ {p} \subseteq Fresh(op.on)
      BY <1>2, <3>1 DEF Launch, IInv, Phase
    <3> QED
      BY <3>1, <3>2 DEF Launch
  <2> QED
    BY <2>1, <2>2, <2>3, <2>4
<1>4. TypeOK'
  BY <1>3 DEF NextStep, IInv, TypeOK, Operation, Starting
<1>5. MovesOn
  BY <1>3 DEF NextStep, IInv, MovesOn, SameOperation, TypeOK, Operation
<1>6. op'.step = step /\ op'.todo = todo /\ lifecycle' = lifecycle /\ op'.step \in Starting
  BY <1>3 DEF NextStep, IInv, TypeOK, Operation, Starting
<1>7. lifecycle[op.on].entered = Composed(op.on) /\ lifecycle[op.on].retired = {}
  BY <1>1, <1>3 DEF IInv, Phase
<1>8. Phase'
  BY <1>3, <1>5, <1>6, <1>7 DEF IInv, Phase, MovesOn, SameOperation, Changing, Unstarted,
     Composed, Fresh, Starting, Stopping
<1> QED
  BY <1>1, <1>4, <1>5, <1>6, <1>8, MoveStep

(* Instances that are up change at most what they are up to. *)
StaysUp ==
  \A u \in Instance :
    /\ unit'[u].stage \in Live <=> unit[u].stage \in Live
    /\ unit[u].stage \notin Live => unit'[u].stage = unit[u].stage
    /\ unit'[u].stops = unit[u].stops

LEMMA Restage ==
  ASSUME TypeOK, NEW u \in Instance, NEW stage \in Live, unit[u].stage \in Live,
         unit' = [unit EXCEPT ![u].stage = stage]
  PROVE  StaysUp /\ unit' \in [Instance -> Unit]
<1>1. unit' \in [Instance -> Unit]
  BY DEF TypeOK, Unit, Live
<1>2. StaysUp
  BY DEF StaysUp, TypeOK, Unit
<1> QED
  BY <1>1, <1>2

(* The initialisation or the ready hooks of a plugin that is up have run. *)
LEMMA UpStep ==
  ASSUME IInv, TypeOK', SameOperation, Phase',
         UNCHANGED <<lifecycle, current, made>>, left'.changes = left.changes,
         op.step \in Starting, op'.step \in Starting,
         StaysUp
  PROVE  IInv'
<1> USE DEF IInv, SameOperation
<1>2. \A u \in Instance :
        /\ unit'[u].stage \in Live <=> unit[u].stage \in Live
        /\ unit[u].stage \notin Live => unit'[u].stage = unit[u].stage
        /\ unit'[u].stops = unit[u].stops
  BY DEF StaysUp
<1>3. \A q \in Plugin, g \in Generation :
        /\ unit'[<<q, g>>].stage \in Live <=> unit[<<q, g>>].stage \in Live
        /\ unit[<<q, g>>].stage \notin Live => unit'[<<q, g>>].stage = unit[<<q, g>>].stage
        /\ unit'[<<q, g>>].stops = unit[<<q, g>>].stops
  BY <1>2 DEF Instance
<1>4. Budgeted' /\ Shape' /\ Known' /\ Recipes' /\ Serving' /\ Owned' /\ OneInstance'
  <2>1. \A q \in Plugin, g \in Generation :
          unit'[<<q, g>>].stage \in Held => unit[<<q, g>>].stage \in Held
    BY <1>3 DEF Held, Live
  <2> QED
    BY <2>1, AdvanceStep
<1>5. Registered'
  <2> SUFFICES ASSUME NEW q \in Plugin, NEW g \in Generation
               PROVE  /\ unit'[<<q, g>>].stage # "absent" =>
                           lifecycle[g].entries[q] = g /\ q \in lifecycle[g].entered
                      /\ unit'[<<q, g>>].stops =
                           IF unit'[<<q, g>>].stage \in {"stopped", "stuck"} THEN 1 ELSE 0
    BY DEF Registered
  <2>0. unit'[<<q, g>>].stops = unit[<<q, g>>].stops
    BY <1>3
  <2>1. CASE unit[<<q, g>>].stage \in Live
    <3>1. /\ unit'[<<q, g>>].stage \in Live /\ unit'[<<q, g>>].stops = unit[<<q, g>>].stops
      BY <1>3, <2>1
    <3>2. unit[<<q, g>>].stops = 0 /\ lifecycle[g].entries[q] = g /\ q \in lifecycle[g].entered
      BY <2>1 DEF Registered, Live
    <3> QED
      BY <3>1, <3>2 DEF Live
  <2>2. CASE unit[<<q, g>>].stage \notin Live
    <3>1. unit'[<<q, g>>].stage = unit[<<q, g>>].stage
      BY <1>3, <2>2
    <3> QED
      BY <2>0, <3>1 DEF Registered
  <2> QED
    BY <2>1, <2>2
<1>6. RegisteredRun'
  <2> SUFFICES ASSUME NEW g \in {current, op.on} \ {0},
                      NEW q \in lifecycle[g].entered \ lifecycle[g].retired
               PROVE  unit'[Member(g, q)].stage \in Live
    BY DEF RegisteredRun, Member
  <2>1. g \in Generation /\ q \in Composed(g) /\ Member(g, q) \in Instance
    BY Types DEF Known
  <2>2. unit[Member(g, q)].stage \in Live
    BY DEF RegisteredRun, Starting
  <2> QED
    BY <1>2, <2>1, <2>2
<1>7. CleanStops'
  BY DEF CleanStops, Starting
<1> QED
  BY <1>4, <1>5, <1>6, <1>7

LEMMA InitializedStep ==
  ASSUME IInv, NEW p \in Plugin, Initialized(p)
  PROVE  IInv'
<1> USE DEF Initialized, IInv
<1>1. op.on \in Generation
  BY AtGeneration DEF Starting
<1>2. unit[<<p, op.on>>].stage = "entered" /\ <<p, op.on>> \in Instance
  BY <1>1 DEF Opening, Instance
<1>3. TypeOK'
  <2>1. unit' \in [Instance -> Unit]
    BY <1>2, Restage DEF Live
  <2> QED
    BY <2>1 DEF TypeOK
<1>4. Phase'
  BY DEF Phase, Changing, Unstarted, Composed, Fresh, Complete
<1>5. StaysUp
  BY <1>2, Restage DEF Live
<1> QED
  BY <1>3, <1>4, <1>5, UpStep DEF SameOperation, Starting

LEMMA MakeReadyStep ==
  ASSUME IInv, NEW p \in Plugin, MakeReady(p)
  PROVE  IInv'
<1> USE DEF MakeReady, MayGoOn, IInv
<1>1. op.on \in Generation
  BY AtGeneration DEF Starting
<1>2. p \in Fresh(op.on) /\ lifecycle[op.on].entered = Composed(op.on)
  BY DEF Phase
<1>3. /\ lifecycle[op.on].retired = {} /\ <<p, op.on>> \in Instance
      /\ Member(op.on, p) = <<p, op.on>> /\ p \in Composed(op.on)
  BY <1>1, <1>2 DEF Phase, Fresh, Member, Instance
<1>4. unit[<<p, op.on>>].stage \in Live
  <2>1. op.on \in {current, op.on} \ {0} /\ p \in lifecycle[op.on].entered \ lifecycle[op.on].retired
    BY <1>1, <1>2, <1>3, Types
  <2>2. op.step # "release"
    OBVIOUS
  <2> QED
    BY <1>3, <2>1, <2>2 DEF RegisteredRun
<1>5. TypeOK'
  <2>1. unit' \in [Instance -> Unit]
    BY <1>3, <1>4, Restage DEF Live
  <2>2. op' \in Operation
    BY DEF TypeOK, Operation, Starting
  <2> QED
    BY <2>1, <2>2 DEF TypeOK
<1>6. SameOperation /\ op'.step = "ready" /\ op'.todo \subseteq op.todo
  BY DEF SameOperation, TypeOK, Operation
<1>7. Phase'
  BY <1>6 DEF Phase, SameOperation, Changing, Unstarted, Composed, Fresh, Complete, Starting,
              Stopping
<1>8. StaysUp
  BY <1>3, <1>4, Restage DEF Live
<1> QED
  BY <1>5, <1>6, <1>7, <1>8, UpStep DEF Starting

(* Where a start, or the stop of what it had entered, stands. *)
LEMMA Position ==
  ASSUME IInv,
         \/ op.step \in Starting
         \/ op.step \in Stopping /\ op.stage \in {"first", "candidate", "recovery"}
  PROVE  /\ op.on \in Generation /\ current < op.on /\ op.on <= made /\ current \in Nat
         /\ \/ op.kind = "initialize" /\ current = 0 /\ op.stage = "first"
            \/ /\ Changing /\ op.stage \in {"candidate", "recovery"} /\ op.on \in {made - 1, made}
               /\ lifecycle[current].cancelled /\ current \in Generation
         /\ op.stage = "candidate" => op.on # made
         /\ ~ Available
         /\ \A p \in Fresh(op.on) : Owner(p) = op.on
<1> USE DEF IInv
<1>1. op.on \in Generation /\ op.kind # "idle" /\ (op.kind = "change" => Changing)
  BY AtGeneration
<1>2. made \in Nat /\ current \in Nat /\ op.on \in Nat
  BY <1>1, BoundAssumption DEF TypeOK, Generation
<1>3. op.kind = "initialize" \/ Changing
  BY <1>1 DEF Shape, TypeOK, Operation, Starting, Stopping
<1>4. CASE op.kind = "initialize"
  <2>1. current = 0 /\ op.on = 1 /\ made = 1 /\ op.stage = "first" /\ ~ Changing
    BY <1>4 DEF Shape, Changing
  <2> QED
    BY <1>1, <1>4, <2>1 DEF Owner, Available
<1>5. CASE Changing
  <2>1. /\ op.stage \in {"candidate", "recovery"}
        /\ current # 0 /\ current + 2 <= made /\ lifecycle[current].cancelled
        /\ op.on = IF op.stage = "candidate" THEN made - 1 ELSE made
    BY <1>5 DEF Shape, Starting, Stopping
  <2>2. current < op.on /\ op.on <= made /\ op.on \in {made - 1, made} /\ current \in Generation
    BY <1>2, <2>1 DEF TypeOK
  <2>3. op.stage = "candidate" => op.on # made
    BY <1>2, <2>1
  <2>4. ASSUME NEW p \in Fresh(op.on)
        PROVE  Owner(p) = op.on
    <3>1. p \in Plugin /\ lifecycle[op.on].entries[p] = op.on
      BY DEF Fresh, Composed
    <3>2. lifecycle[current].entries[p] <= current
      BY <2>2, <3>1 DEF Known
    <3>2a. lifecycle[current].entries[p] \in Nat
      <4>1. lifecycle[current].entries[p] \in {0} \cup Generation
        BY <2>2, <3>1, Types
      <4> QED
        BY <4>1, BoundAssumption DEF Generation
    <3>3. p \in op.changed
      BY <1>2, <1>5, <2>2, <3>1, <3>2, <3>2a DEF Recipes
    <3>4. op.kind # "initialize"
      BY <1>5 DEF Changing
    <3> QED
      BY <1>5, <2>1, <3>3, <3>4 DEF Owner
  <2>5. ~ Available
    BY <2>1 DEF Available
  <2> QED
    BY <1>1, <1>2, <1>5, <2>1, <2>2, <2>3, <2>4, <2>5
<1> QED
  BY <1>3, <1>4, <1>5

SameComposition == \A g \in Generation : lifecycle'[g].entries = lifecycle[g].entries
SameRegistration == \A g \in Generation : lifecycle'[g].entered = lifecycle[g].entered
SameStages ==
  \A p \in Plugin, g \in Generation : /\ unit'[<<p, g>>].stage = unit[<<p, g>>].stage
                                      /\ unit'[<<p, g>>].stops = unit[<<p, g>>].stops

LEMMA Compositions ==
  ASSUME SameComposition, NEW g \in Generation
  PROVE  /\ Composed(g)' = Composed(g) /\ Fresh(g)' = Fresh(g)
         /\ \A p : Member(g, p)' = Member(g, p)
BY DEF SameComposition, Composed, Fresh, Member

(* A step that gives and takes no plugin its resources. *)
LEMMA Unheld ==
  ASSUME IInv, SameComposition, SameRegistration, SameStages
  PROVE  Registered' /\ OneInstance'
<1>1. Registered'
  <2> SUFFICES ASSUME NEW p \in Plugin, NEW g \in Generation
               PROVE  /\ unit'[<<p, g>>].stage # "absent" =>
                           lifecycle'[g].entries[p] = g /\ p \in lifecycle'[g].entered
                      /\ unit'[<<p, g>>].stops =
                           IF unit'[<<p, g>>].stage \in {"stopped", "stuck"} THEN 1 ELSE 0
    BY DEF Registered
  <2>1. /\ unit'[<<p, g>>].stage = unit[<<p, g>>].stage
        /\ unit'[<<p, g>>].stops = unit[<<p, g>>].stops
        /\ lifecycle'[g].entries = lifecycle[g].entries /\ lifecycle'[g].entered = lifecycle[g].entered
    BY DEF SameComposition, SameRegistration, SameStages
  <2> QED
    BY <2>1 DEF IInv, Registered
<1>2. OneInstance'
  BY DEF IInv, OneInstance, SameStages
<1> QED
  BY <1>1, <1>2

(* Of the instances an operation looks at, the stages are the same. *)
LEMMA StageOfMember ==
  ASSUME IInv, SameComposition, SameStages, NEW g \in Generation, NEW p \in lifecycle[g].entered
  PROVE  unit'[Member(g, p)'].stage = unit[Member(g, p)].stage
<1>1. p \in Plugin /\ p \in Composed(g)
  BY Types DEF IInv, Known
<1>2. Member(g, p)' = <<p, lifecycle[g].entries[p]>> /\ lifecycle[g].entries[p] \in Generation
  BY <1>1, Types DEF IInv, Member, SameComposition, Composed
<1> QED
  BY <1>1, <1>2 DEF SameStages, Member

(* What a step within a start changes, of the plugin it enters. *)
Entering(p) ==
  /\ SameComposition /\ SameOperation
  /\ \A g \in Generation :
       /\ lifecycle'[g].retired = lifecycle[g].retired /\ lifecycle'[g].dirty = lifecycle[g].dirty
       /\ lifecycle'[g].cancelled = lifecycle[g].cancelled
       /\ lifecycle'[g].entered = IF g = op.on THEN lifecycle[g].entered \cup {p}
                                  ELSE lifecycle[g].entered
  /\ \A q \in Plugin, g \in Generation :
       /\ unit'[<<q, g>>].stage = IF q = p /\ g = op.on /\ p \in Fresh(op.on) THEN "entered"
                                  ELSE unit[<<q, g>>].stage
       /\ unit'[<<q, g>>].stops = unit[<<q, g>>].stops
  /\ op'.step = "open" /\ op'.todo = op.todo \ {p}
  /\ current' = current /\ made' = made /\ left' = left

LEMMA EnteredUnit ==
  ASSUME TypeOK, NEW u \in Instance, unit' = [unit EXCEPT ![u].stage = "entered"]
  PROVE  /\ unit' \in [Instance -> Unit]
         /\ \A v \in Instance :
              /\ unit'[v].stage = IF v = u THEN "entered" ELSE unit[v].stage
              /\ unit'[v].stops = unit[v].stops
<1>1. unit' \in [Instance -> Unit]
  BY DEF TypeOK, Unit, Live
<1>2. \A v \in Instance :
        /\ unit'[v].stage = IF v = u THEN "entered" ELSE unit[v].stage
        /\ unit'[v].stops = unit[v].stops
  BY DEF TypeOK, Unit
<1> QED
  BY <1>1, <1>2

LEMMA LifecycleEntered ==
  ASSUME NEW y \in Lifecycle, NEW p \in Plugin
  PROVE  LET x == [y EXCEPT !.entered = @ \cup {p}]
         IN  /\ x \in Lifecycle /\ x.entries = y.entries /\ x.retired = y.retired
             /\ x.dirty = y.dirty /\ x.cancelled = y.cancelled /\ x.entered = y.entered \cup {p}
BY DEF Lifecycle

LEMMA EnteredLifecycle ==
  ASSUME TypeOK, NEW g \in Generation, NEW p \in Plugin,
         lifecycle' = [lifecycle EXCEPT ![g].entered = @ \cup {p}]
  PROVE  /\ lifecycle' \in [Generation -> Lifecycle]
         /\ \A h \in Generation :
              /\ lifecycle'[h].entries = lifecycle[h].entries
              /\ lifecycle'[h].retired = lifecycle[h].retired
              /\ lifecycle'[h].dirty = lifecycle[h].dirty
              /\ lifecycle'[h].cancelled = lifecycle[h].cancelled
              /\ lifecycle'[h].entered = IF h = g THEN lifecycle[h].entered \cup {p}
                                         ELSE lifecycle[h].entered
<1> DEFINE x == [lifecycle[g] EXCEPT !.entered = @ \cup {p}]
<1>0. /\ x \in Lifecycle /\ x.entries = lifecycle[g].entries /\ x.retired = lifecycle[g].retired
      /\ x.dirty = lifecycle[g].dirty /\ x.cancelled = lifecycle[g].cancelled
      /\ x.entered = lifecycle[g].entered \cup {p}
  <2>1. lifecycle[g] \in Lifecycle
    BY DEF TypeOK
  <2> QED
    BY <2>1, LifecycleEntered
<1>a. lifecycle' = [lifecycle EXCEPT ![g] = x]
  OBVIOUS
<1> HIDE DEF x
<1>1. lifecycle' \in [Generation -> Lifecycle]
  BY <1>0, <1>a DEF TypeOK
<1>2. \A h \in Generation :
        /\ lifecycle'[h].entries = lifecycle[h].entries
        /\ lifecycle'[h].retired = lifecycle[h].retired
        /\ lifecycle'[h].dirty = lifecycle[h].dirty
        /\ lifecycle'[h].cancelled = lifecycle[h].cancelled
        /\ lifecycle'[h].entered = IF h = g THEN lifecycle[h].entered \cup {p}
                                   ELSE lifecycle[h].entered
  <2>1. \A h \in Generation : lifecycle'[h] = IF h = g THEN x ELSE lifecycle[h]
    BY <1>a DEF TypeOK
  <2> QED
    BY <1>0, <2>1
<1> QED
  BY <1>1, <1>2

LEMMA EnterChanges ==
  ASSUME IInv, NEW p \in Plugin, Enter(p)
  PROVE  TypeOK' /\ Entering(p)
<1> DEFINE u == <<p, op.on>>
<1>1. /\ TypeOK /\ op.step = "open" /\ op.step \in Starting
      /\ lifecycle' = [lifecycle EXCEPT ![op.on].entered = @ \cup {p}]
      /\ unit' = IF p \in Fresh(op.on) THEN [unit EXCEPT ![u].stage = "entered"] ELSE unit
      /\ op' = [op EXCEPT !.todo = @ \ {p}]
      /\ UNCHANGED <<current, made, request, left>>
  BY DEF Enter, MayGoOn, IInv
<1>2. op.on \in Generation /\ u \in Instance
  BY <1>1, AtGeneration DEF Instance
<1>3. \A q \in Plugin, g \in Generation : <<q, g>> \in Instance /\ (<<q, g>> = u <=> q = p /\ g = op.on)
  BY DEF Instance
<1>4. /\ unit' \in [Instance -> Unit]
      /\ \A v \in Instance :
           /\ unit'[v].stage = IF v = u /\ p \in Fresh(op.on) THEN "entered" ELSE unit[v].stage
           /\ unit'[v].stops = unit[v].stops
  <2> HIDE DEF u
  <2>1. CASE p \in Fresh(op.on)
    <3>1. unit' = [unit EXCEPT ![u].stage = "entered"]
      BY <1>1, <2>1
    <3> QED
      BY <1>1, <1>2, <2>1, <3>1, EnteredUnit
  <2>2. CASE p \notin Fresh(op.on)
    BY <1>1, <2>2 DEF TypeOK
  <2> QED
    BY <2>1, <2>2
<1>5. /\ lifecycle' \in [Generation -> Lifecycle]
      /\ \A h \in Generation :
           /\ lifecycle'[h].entries = lifecycle[h].entries
           /\ lifecycle'[h].retired = lifecycle[h].retired
           /\ lifecycle'[h].dirty = lifecycle[h].dirty
           /\ lifecycle'[h].cancelled = lifecycle[h].cancelled
           /\ lifecycle'[h].entered = IF h = op.on THEN lifecycle[h].entered \cup {p}
                                      ELSE lifecycle[h].entered
  BY <1>1, <1>2, EnteredLifecycle
<1> HIDE DEF u
<1>6. /\ op' \in Operation /\ SameOperation /\ op'.step = "open" /\ op'.todo = op.todo \ {p}
  BY <1>1 DEF TypeOK, Operation, SameOperation
<1>7. UNCHANGED <<current, made, request, left>>
  BY <1>1
<1>8. TypeOK'
  BY <1>1, <1>4, <1>5, <1>6 DEF TypeOK
<1>9. \A q \in Plugin, g \in Generation :
       /\ unit'[<<q, g>>].stage = IF q = p /\ g = op.on /\ p \in Fresh(op.on) THEN "entered"
                                  ELSE unit[<<q, g>>].stage
       /\ unit'[<<q, g>>].stops = unit[<<q, g>>].stops
  BY <1>3, <1>4
<1> QED
  BY <1>5, <1>6, <1>7, <1>8, <1>9 DEF Entering, SameComposition

LEMMA EnterStep ==
  ASSUME IInv, NEW p \in Plugin, Enter(p)
  PROVE  IInv'
<1>1. TypeOK' /\ Entering(p)
  BY EnterChanges
<1>2. /\ op.step = "open" /\ p \in op.todo /\ op.step \in Starting /\ ~ lifecycle[op.on].cancelled
  BY DEF Enter, MayGoOn, Starting
<1>3. /\ op.on \in Generation /\ current < op.on /\ op.on <= made /\ current \in Nat
      /\ \/ op.kind = "initialize" /\ current = 0
         \/ /\ Changing /\ op.stage \in {"candidate", "recovery"} /\ op.on \in {made - 1, made}
            /\ lifecycle[current].cancelled /\ current \in Generation
      /\ op.stage = "candidate" => op.on # made
      /\ ~ Available /\ current # op.on
      /\ \A q \in Fresh(op.on) : Owner(q) = op.on
  <2>1. op.on \in Nat
    BY <1>2, Position, Types DEF IInv
  <2> QED
    BY <1>2, <2>1, Position
<1>4. /\ op.todo \subseteq Composed(op.on) /\ lifecycle[op.on].entered = Composed(op.on) \ op.todo
      /\ lifecycle[op.on].retired = {}
  BY <1>2 DEF IInv, Phase
<1>5. Generation \subseteq Nat /\ made \in Nat /\ p \in Composed(op.on) /\ op.todo \subseteq Plugin
  BY <1>2, <1>4, BoundAssumption, Types DEF IInv, TypeOK, Generation
<1>6. unit[<<p, op.on>>].stage = "absent" /\ unit[<<p, op.on>>].stops = 0
  <2>1. unit[<<p, op.on>>].stage = "absent"
    BY <1>2, <1>3, <1>4 DEF IInv, Registered
  <2> QED
    BY <1>3, <2>1 DEF IInv, Registered
<1>7. Changing' = Changing /\ ~ Available' /\ op'.step \in Starting
  BY <1>1, <1>2, <1>3 DEF Entering, SameOperation, Changing, Available, Starting
<1>8. \A g \in Generation : g # op.on => Unstarted(g)' = Unstarted(g)
  BY <1>1 DEF Entering, Unstarted
<1>9. \A g \in Generation : Composed(g)' = Composed(g) /\ Fresh(g)' = Fresh(g)
  BY <1>1, Compositions DEF Entering
<1>10. Budgeted' /\ Shape'
  BY <1>1, <1>2, <1>3, <1>7 DEF IInv, Budgeted, Shape, Entering, SameOperation, Changing
<1>11. Known'
  <2> SUFFICES ASSUME NEW g \in Generation
               PROVE  /\ g > made => Unstarted(g)' /\ Composed(g)' = {}
                      /\ \A q \in Plugin : lifecycle'[g].entries[q] <= g
                      /\ lifecycle'[g].entered \subseteq Composed(g)
    BY <1>1, <1>9 DEF Known, Entering
  <2>1. g > made => g # op.on
    BY <1>3, <1>5
  <2>2. g > made => Unstarted(g)' /\ Composed(g)' = {}
    BY <1>8, <1>9, <2>1 DEF IInv, Known
  <2>3. \A q \in Plugin : lifecycle'[g].entries[q] <= g
    BY <1>1 DEF IInv, Known, Entering, SameComposition
  <2>4. lifecycle'[g].entered \subseteq Composed(g)
    <3>1. lifecycle[g].entered \subseteq Composed(g)
      BY DEF IInv, Known
    <3>2. lifecycle'[g].entered = IF g = op.on THEN lifecycle[g].entered \cup {p}
                                  ELSE lifecycle[g].entered
      BY <1>1 DEF Entering
    <3> QED
      BY <1>5, <3>1, <3>2
  <2> QED
    BY <2>2, <2>3, <2>4
<1>12. Registered'
  <2> SUFFICES ASSUME NEW q \in Plugin, NEW g \in Generation
               PROVE  /\ unit'[<<q, g>>].stage # "absent" =>
                           lifecycle'[g].entries[q] = g /\ q \in lifecycle'[g].entered
                      /\ unit'[<<q, g>>].stops =
                           IF unit'[<<q, g>>].stage \in {"stopped", "stuck"} THEN 1 ELSE 0
    BY DEF Registered
  <2>1. CASE q = p /\ g = op.on /\ p \in Fresh(op.on)
    <3>1. unit'[<<q, g>>].stage = "entered" /\ unit'[<<q, g>>].stops = 0
      BY <1>1, <1>6, <2>1 DEF Entering
    <3>2. lifecycle'[g].entries[q] = g /\ q \in lifecycle'[g].entered
      BY <1>1, <2>1 DEF Entering, SameComposition, Fresh
    <3> QED
      BY <3>1, <3>2
  <2>2. CASE ~ (q = p /\ g = op.on /\ p \in Fresh(op.on))
    <3>1. unit'[<<q, g>>].stage = unit[<<q, g>>].stage /\ unit'[<<q, g>>].stops = unit[<<q, g>>].stops
      BY <1>1, <2>2 DEF Entering
    <3>2. lifecycle'[g].entries[q] = lifecycle[g].entries[q]
          /\ (q \in lifecycle[g].entered => q \in lifecycle'[g].entered)
      BY <1>1 DEF Entering, SameComposition
    <3> QED
      BY <3>1, <3>2 DEF IInv, Registered
  <2> QED
    BY <2>1, <2>2
<1>13. Recipes'
  <2>1. op'.kind = "change" => op'.target \ op'.changed = Composed(current)' \ op'.changed
    BY <1>1, <1>3, <1>9, <1>7 DEF IInv, Recipes, Entering, SameOperation, Changing
  <2>2. ASSUME Changing', NEW g \in {made - 1, made}, NEW q \in Plugin
        PROVE  IF q \in op.changed THEN lifecycle'[g].entries[q] \in {0, g}
               ELSE lifecycle'[g].entries[q] = lifecycle'[current].entries[q]
    <3>1. Changing /\ current \in Generation /\ made \in Generation /\ current + 2 <= made
      BY <1>3, <1>7, <2>2 DEF IInv, Shape, Changing, TypeOK
    <3>2. g \in Generation
      BY <3>1, BoundAssumption DEF Generation
    <3>3. lifecycle'[g].entries = lifecycle[g].entries
          /\ lifecycle'[current].entries = lifecycle[current].entries
      BY <1>1, <3>1, <3>2 DEF Entering, SameComposition
    <3> QED
      BY <3>1, <3>3 DEF IInv, Recipes
  <2> QED
    BY <1>1, <2>1, <2>2 DEF Recipes, Entering, SameOperation
<1>14. Phase'
  <2>1. op'.step = "open" /\ op'.todo \subseteq Composed(op.on)'
        /\ lifecycle'[op.on].entered = Composed(op.on)' \ op'.todo /\ lifecycle'[op.on].retired = {}
    <3>1. op'.on = op.on /\ lifecycle'[op.on].entries = lifecycle[op.on].entries
      BY <1>1, <1>3 DEF Entering, SameOperation, SameComposition
    <3>2. Composed(op.on)' = Composed(op.on)
      BY <3>1 DEF Composed
    <3>3. /\ lifecycle'[op.on].entered = lifecycle[op.on].entered \cup {p}
          /\ lifecycle'[op.on].retired = {} /\ op'.step = "open" /\ op'.todo = op.todo \ {p}
      BY <1>1, <1>3, <1>4 DEF Entering
    <3> QED
      BY <1>2, <1>4, <1>5, <3>2, <3>3
  <2>2. Changing' /\ op'.stage \in {"old", "candidate"} => Unstarted(made)' /\ op'.stage = "candidate"
    <3>1. SUFFICES ASSUME Changing', op'.stage \in {"old", "candidate"}
                   PROVE  Unstarted(made)' /\ op'.stage = "candidate"
      OBVIOUS
    <3>2. op.stage = "candidate" /\ Changing /\ made \in Generation
      BY <1>1, <1>3, <1>7, <3>1 DEF Entering, SameOperation, Changing, IInv, Shape, TypeOK
    <3>3. Unstarted(made) /\ made # op.on
      BY <1>3, <3>2 DEF IInv, Phase
    <3> QED
      BY <1>1, <1>8, <3>2, <3>3 DEF Entering, SameOperation
  <2> QED
    BY <1>1, <2>1, <2>2 DEF Phase, Entering, SameOperation, Starting, Stopping
<1>15. Serving'
  <2>1. Changing' /\ op'.stage \in {"candidate", "recovery"} =>
          Complete(current, op.changed \cap Composed(current))'
    <3>1. SUFFICES ASSUME Changing', op'.stage \in {"candidate", "recovery"}
                   PROVE  Complete(current, op.changed \cap Composed(current))'
      OBVIOUS
    <3>2. Changing /\ current \in Generation /\ op.stage \in {"candidate", "recovery"}
      BY <1>1, <1>3, <1>7, <3>1 DEF Entering, SameOperation, Changing
    <3>3. /\ Complete(current, op.changed \cap Composed(current))
          /\ lifecycle'[current].entered = lifecycle[current].entered
          /\ lifecycle'[current].retired = lifecycle[current].retired
          /\ Composed(current)' = Composed(current)
      BY <1>1, <1>3, <1>9, <3>2 DEF IInv, Serving, Entering
    <3> QED
      BY <1>1, <3>3 DEF Complete, Entering, SameOperation
  <2>2. ~ (Changing' /\ op'.stage = "old")
    BY <1>1, <1>3, <1>7 DEF Entering, SameOperation, Changing
  <2> QED
    BY <1>1, <1>7, <2>1, <2>2 DEF Serving, Entering, SameOperation
<1>16. \A q \in Plugin, g \in Generation :
         q # p \/ g # op.on \/ p \notin Fresh(op.on) => unit'[<<q, g>>].stage = unit[<<q, g>>].stage
  BY <1>1 DEF Entering
<1>17. RegisteredRun'
  <2>1. ASSUME NEW g \in {current, op.on} \ {0}, NEW q \in lifecycle[g].entered, q \notin lifecycle[g].retired
        PROVE  unit'[<<q, lifecycle[g].entries[q]>>].stage \in Live
    <3>1. g \in Generation /\ q \in Plugin /\ q \in Composed(g)
      BY <2>1, Types DEF IInv, Known, TypeOK
    <3>2. unit[Member(g, q)].stage \in Live
      BY <1>2, <2>1 DEF IInv, RegisteredRun
    <3>3. Member(g, q)' = Member(g, q) /\ Member(g, q) = <<q, lifecycle[g].entries[q]>>
          /\ lifecycle[g].entries[q] \in Generation
      BY <1>1, <3>1, Compositions, Types DEF IInv, Entering, Composed
    <3>4. unit[Member(g, q)].stage # "absent"
      BY <3>2 DEF Live
    <3>5. ~ (q = p /\ lifecycle[g].entries[q] = op.on)
      BY <1>6, <3>3, <3>4
    <3>6. unit'[<<q, lifecycle[g].entries[q]>>].stage = unit[<<q, lifecycle[g].entries[q]>>].stage
      BY <1>16, <3>1, <3>3, <3>5
    <3> QED
      BY <3>2, <3>3, <3>6
  <2>2. unit'[Member(op.on, p)'].stage \in Live
    <3>1. Member(op.on, p)' = <<p, lifecycle[op.on].entries[p]>> /\ p \in Plugin
      <4>1. op'.on = op.on /\ lifecycle'[op.on].entries = lifecycle[op.on].entries
        BY <1>1, <1>3 DEF Entering, SameOperation, SameComposition
      <4> QED
        BY <4>1 DEF Member
    <3>2. CASE p \in Fresh(op.on)
      <4>1. lifecycle[op.on].entries[p] = op.on
        BY <3>2 DEF Fresh
      <4> QED
        BY <1>1, <1>3, <3>1, <3>2, <4>1 DEF Entering, Live
    <3>3. CASE p \notin Fresh(op.on)
      <4>1. lifecycle[op.on].entries[p] # op.on /\ lifecycle[op.on].entries[p] # 0
            /\ lifecycle[op.on].entries[p] \in Generation
        BY <1>3, <1>5, <3>3, Types DEF IInv, Fresh, Composed
      <4>2. Changing /\ current \in Generation /\ op.on \in {made - 1, made}
            /\ op.stage \in {"candidate", "recovery"}
        <5>1. CASE op.kind = "initialize"
          <6>1. op.on = 1 /\ lifecycle[op.on].entries[p] <= 1
            BY <1>3, <5>1 DEF IInv, Shape, Known
          <6> QED
            BY <4>1, <6>1, BoundAssumption DEF Generation
        <5> QED
          BY <1>3, <5>1
      <4>3. p \notin op.changed /\ lifecycle[op.on].entries[p] = lifecycle[current].entries[p]
        BY <4>1, <4>2 DEF IInv, Recipes
      <4>4. p \in lifecycle[current].entered /\ p \notin lifecycle[current].retired
        BY <4>1, <4>2, <4>3 DEF IInv, Serving, Complete, Composed
      <4>5. unit'[<<p, lifecycle[current].entries[p]>>].stage \in Live
        <5>1. current # 0
          BY <4>2, BoundAssumption DEF Generation
        <5> QED
          BY <2>1, <4>4, <5>1
      <4> QED
        BY <3>1, <4>3, <4>5
    <3> QED
      BY <3>2, <3>3
  <2>3. op'.on = op.on /\ current' = current
    BY <1>1 DEF Entering, SameOperation
  <2>4. SUFFICES ASSUME NEW g \in {current, op.on} \ {0}, NEW q \in lifecycle'[g].entered \ lifecycle'[g].retired
                 PROVE  unit'[Member(g, q)'].stage \in Live
    BY <2>3 DEF RegisteredRun, Member
  <2>5. /\ lifecycle'[g].retired = lifecycle[g].retired
        /\ q \in lifecycle[g].entered \/ (g = op.on /\ q = p)
        /\ Member(g, q)' = <<q, lifecycle[g].entries[q]>>
    <3>1. g \in Generation
      BY Types DEF IInv
    <3>2. /\ lifecycle'[g].retired = lifecycle[g].retired
          /\ lifecycle'[g].entered = IF g = op.on THEN lifecycle[g].entered \cup {p}
                                     ELSE lifecycle[g].entered
      BY <1>1, <3>1 DEF Entering
    <3>3. Member(g, q)' = <<q, lifecycle[g].entries[q]>>
      BY <1>1, <3>1 DEF Entering, SameComposition, Member
    <3> QED
      BY <3>2, <3>3
  <2>6. CASE q \in lifecycle[g].entered
    BY <2>1, <2>5, <2>6
  <2>7. CASE g = op.on /\ q = p
    <3>1. Member(g, q)' = Member(op.on, p)'
      BY <2>3, <2>7 DEF Member
    <3> QED
      BY <2>2, <3>1
  <2> QED
    BY <2>5, <2>6, <2>7
<1>18. CleanStops'
  BY <1>1 DEF CleanStops, Entering
<1>19. Owned'
  <2>1. \A q \in Plugin : Owner(q)' = Owner(q)
    <3> SUFFICES ASSUME NEW q \in Plugin
                 PROVE  Owner(q)' = Owner(q)
      OBVIOUS
    <3>1. current \in Generation \/ op.kind = "initialize"
      BY <1>3
    <3>2. current \in Generation => lifecycle'[current].entries = lifecycle[current].entries
      BY <1>1 DEF Entering, SameComposition
    <3> QED
      BY <1>1, <1>7, <3>1, <3>2 DEF Owner, Entering, SameOperation
  <2>2. op.kind = "initialize" \/ (Changing /\ op.stage # "rest")
    BY <1>3
  <2>3. \A q \in Plugin, g \in Generation : unit'[<<q, g>>].stage \in Held => g = Owner(q)
    BY <1>3, <1>16, <2>2 DEF IInv, Owned
  <2> QED
    BY <2>1, <2>3 DEF Owned
<1>20. OneInstance'
  <2>1. op'.kind = "initialize" \/ (Changing' /\ op'.stage # "rest")
    BY <1>1, <1>3, <1>7 DEF Entering, SameOperation
  <2>2. \A q \in Plugin, g \in Generation :
          unit'[<<q, g>>].stage \notin {"absent", "stopped"} => unit'[<<q, g>>].stage \in Held
    <3> SUFFICES ASSUME NEW q \in Plugin, NEW g \in Generation
                 PROVE  unit'[<<q, g>>].stage \notin {"absent", "stopped"} => unit'[<<q, g>>].stage \in Held
      OBVIOUS
    <3>1. <<q, g>> \in Instance
      BY DEF Instance
    <3> QED
      BY <1>1, <3>1 DEF TypeOK, Unit, Held, Live
  <2>3. \A q \in Plugin, g \in Generation : unit'[<<q, g>>].stage \in Held => g = Owner(q)'
    BY <1>19, <2>1 DEF Owned
  <2> QED
    BY <2>2, <2>3 DEF OneInstance
<1> QED
  BY <1>1, <1>10, <1>11, <1>12, <1>13, <1>14, <1>15, <1>17, <1>18, <1>19, <1>20 DEF IInv

LEMMA UnitReleased ==
  ASSUME NEW x \in Unit, NEW stage \in {"stuck", "stopped"}
  PROVE  [x EXCEPT !.stage = stage, !.stops = 1] \in Unit
<1>1. [x EXCEPT !.stage = stage] \in Unit
  BY DEF Unit
<1>2. 1 \in 0..1
  OBVIOUS
<1> QED
  BY <1>1, <1>2 DEF Unit

LEMMA ReleaseStep ==
  ASSUME IInv, NEW p \in Plugin, NEW fails \in BOOLEAN, Release(p, fails)
  PROVE  IInv'
<1> DEFINE u == Member(op.on, p)
           after == IF fails THEN "stuck" ELSE "stopped"
<1>1. /\ op.step = "release" /\ op.step \in Stopping /\ p \in op.todo
      /\ op' = [op EXCEPT !.todo = @ \ {p}, !.dirty = @ \/ fails]
      /\ unit' = [unit EXCEPT ![u].stage = after, ![u].stops = @ + 1]
      /\ UNCHANGED <<lifecycle, current, made>> /\ left'.changes = left.changes
  BY DEF Release, Last, Stopping, Fault, Spend, IInv, TypeOK, Budget
<1>2. op.on \in Generation /\ op.on # 0
  BY <1>1, AtGeneration
<1>3. /\ p \in lifecycle[op.on].entered /\ p \notin lifecycle[op.on].retired
      /\ p \in op.selected /\ p \in Composed(op.on)
  BY <1>1 DEF IInv, Phase
<1>4. u \in Instance /\ u = <<p, lifecycle[op.on].entries[p]>> /\ lifecycle[op.on].entries[p] \in Generation
  BY <1>2, <1>3, Types DEF IInv, Composed
<1>5. unit[u].stage \in Live
  BY <1>1, <1>2, <1>3 DEF IInv, RegisteredRun
<1>6. unit[u].stops = 0
  BY <1>4, <1>5 DEF IInv, Registered, Live
<1>7. \A v \in Instance :
        /\ unit'[v].stage = IF v = u THEN after ELSE unit[v].stage
        /\ unit'[v].stops = IF v = u THEN 1 ELSE unit[v].stops
  <2> HIDE DEF u, after
  <2> QED
    BY <1>1, <1>4, <1>6 DEF IInv, TypeOK, Unit
<1>8. TypeOK'
  <2>1. unit' \in [Instance -> Unit]
    <3> HIDE DEF u
    <3>0. after \in {"stuck", "stopped"}
      OBVIOUS
    <3> HIDE DEF after, u
    <3>1. unit' = [unit EXCEPT ![u] = [unit[u] EXCEPT !.stage = after, !.stops = 1]]
      <4>1. unit = [v \in Instance |-> unit[v]]
        BY DEF IInv, TypeOK
      <4>2. unit[u].stops + 1 = 1
        BY <1>6
      <4> QED
        BY <1>1, <1>4, <4>1, <4>2
    <3>2. [unit[u] EXCEPT !.stage = after, !.stops = 1] \in Unit
      BY <1>4, <3>0, UnitReleased DEF IInv, TypeOK
    <3> QED
      BY <1>4, <3>1, <3>2 DEF IInv, TypeOK
  <2>2. op' \in Operation
    BY <1>1 DEF IInv, TypeOK, Operation
  <2>3. left' \in Budget
    BY DEF Release, Fault, Spend, IInv, TypeOK, Budget
  <2> QED
    BY <1>1, <2>1, <2>2, <2>3 DEF IInv, TypeOK, Release
<1>9. /\ SameOperation /\ op'.step = "release" /\ op'.todo = op.todo \ {p}
      /\ op'.dirty = (op.dirty \/ fails)
  BY <1>1 DEF SameOperation, IInv, TypeOK, Operation
<1>10. \A q \in Plugin, g \in Generation :
         /\ <<q, g>> \in Instance
         /\ <<q, g>> = u <=> q = p /\ g = lifecycle[op.on].entries[p]
  BY <1>4 DEF Instance
<1>11. Budgeted' /\ Shape' /\ Known' /\ Recipes' /\ Serving' /\ Owned' /\ OneInstance'
  <2>1. \A q \in Plugin, g \in Generation :
          unit'[<<q, g>>].stage \in Held => unit[<<q, g>>].stage \in Held
    BY <1>4, <1>5, <1>7, <1>10 DEF Held, Live
  <2>2. op'.step \in Stopping
    BY <1>9 DEF Stopping
  <2> QED
    BY <1>1, <1>8, <1>9, <2>1, <2>2, AdvanceStep
<1>12. Registered'
  <2> SUFFICES ASSUME NEW q \in Plugin, NEW g \in Generation
               PROVE  /\ unit'[<<q, g>>].stage # "absent" =>
                           lifecycle[g].entries[q] = g /\ q \in lifecycle[g].entered
                      /\ unit'[<<q, g>>].stops =
                           IF unit'[<<q, g>>].stage \in {"stopped", "stuck"} THEN 1 ELSE 0
    <3>1. lifecycle' = lifecycle
      BY <1>1
    <3> HIDE DEF u
    <3> QED
      BY <3>1 DEF Registered
  <2>1. CASE <<q, g>> = u
    <3>1. unit'[<<q, g>>].stage = after /\ unit'[<<q, g>>].stops = 1
      BY <1>4, <1>7, <2>1
    <3>2. lifecycle[g].entries[q] = g /\ q \in lifecycle[g].entered
      BY <1>5, <2>1 DEF IInv, Registered, Live
    <3> QED
      BY <3>1, <3>2
  <2>2. CASE <<q, g>> # u
    <3>1. unit'[<<q, g>>].stage = unit[<<q, g>>].stage /\ unit'[<<q, g>>].stops = unit[<<q, g>>].stops
      BY <1>7, <1>10, <2>2
    <3> QED
      BY <3>1 DEF IInv, Registered
  <2> QED
    BY <2>1, <2>2
<1>13. Phase'
  <2>1. Changing' = Changing
    BY <1>1, <1>9 DEF SameOperation, Changing
  <2> QED
    BY <1>1, <1>9, <2>1 DEF IInv, Phase, SameOperation, Unstarted, Composed, Fresh, Starting, Stopping
<1>14. \A g \in {current, op.on} \ {0} : \A q \in lifecycle[g].entered :
         /\ Member(g, q)' = Member(g, q) /\ Member(g, q) \in Instance
         /\ Member(g, q) = u => q = p
         /\ Member(g, q) = <<q, lifecycle[g].entries[q]>>
  <2> SUFFICES ASSUME NEW g \in {current, op.on} \ {0}, NEW q \in lifecycle[g].entered
               PROVE  /\ Member(g, q)' = Member(g, q) /\ Member(g, q) \in Instance
                      /\ Member(g, q) = u => q = p
                      /\ Member(g, q) = <<q, lifecycle[g].entries[q]>>
    OBVIOUS
  <2>1. g \in Generation /\ q \in Composed(g)
    BY Types DEF IInv, Known
  <2>2. Member(g, q) \in Instance /\ Member(g, q) = <<q, lifecycle[g].entries[q]>>
    BY <2>1, Types DEF IInv
  <2>3. Member(g, q)' = Member(g, q)
    BY <1>1 DEF Member
  <2> QED
    BY <1>4, <2>2, <2>3
<1>15. RegisteredRun'
  <2>1. op'.on = op.on /\ current' = current /\ lifecycle' = lifecycle /\ op'.selected = op.selected
    BY <1>1, <1>9 DEF SameOperation
  <2> SUFFICES ASSUME NEW g \in {current, op.on} \ {0},
                      NEW q \in lifecycle[g].entered \ lifecycle[g].retired
               PROVE  \/ unit'[Member(g, q)'].stage \in Live
                      \/ op.on = g /\ q \in op.selected \ (op.todo \ {p})
    <3> HIDE DEF u
    <3> QED
      BY <1>9, <2>1 DEF RegisteredRun
  <2>2. CASE Member(g, q) # u
    <3>1. unit'[Member(g, q)'].stage = unit[Member(g, q)].stage
      BY <1>7, <1>14, <2>2
    <3>2. \/ unit[Member(g, q)].stage \in Live
          \/ op.on = g /\ op.step = "release" /\ q \in op.selected \ op.todo
      BY DEF IInv, RegisteredRun
    <3> QED
      BY <3>1, <3>2
  <2>3. CASE Member(g, q) = u /\ g = op.on
    BY <1>3, <1>14, <2>3
  <2>4. CASE Member(g, q) = u /\ g # op.on
    <3>1. g = current /\ q = p /\ lifecycle[current].entries[p] = lifecycle[op.on].entries[p]
          /\ current # 0 /\ current # op.on /\ current \in Generation
      BY <1>4, <1>14, <2>4, Types DEF IInv
    <3>2. op.stage \in {"first", "candidate", "recovery"}
      BY <1>1, <1>2, <3>1, AtGeneration DEF IInv, Shape, TypeOK, Operation
    <3>3. p \in Fresh(op.on) /\ current < op.on
      BY <1>1, <1>3, <3>2, Position DEF IInv, Phase
    <3>4. lifecycle[current].entries[p] = op.on /\ lifecycle[current].entries[p] <= current
      BY <3>1, <3>3 DEF Fresh, IInv, Known, Composed
    <3>5. current \in Nat /\ op.on \in Nat
      BY <1>2, <3>1, BoundAssumption DEF Generation
    <3> QED
      BY <3>3, <3>4, <3>5
  <2> QED
    BY <2>2, <2>3, <2>4
<1>16. CleanStops'
  <2>1. op'.on = op.on /\ lifecycle' = lifecycle /\ op'.selected = op.selected
    BY <1>1, <1>9 DEF SameOperation
  <2> SUFFICES ASSUME ~ op.dirty, ~ fails,
                      NEW q \in (op.selected \cap lifecycle[op.on].entered) \ (op.todo \ {p})
               PROVE  unit'[Member(op.on, q)'].stage = "stopped"
    <3> HIDE DEF u
    <3> QED
      BY <1>9, <2>1 DEF CleanStops
  <2>2. Member(op.on, q)' = Member(op.on, q) /\ Member(op.on, q) \in Instance
    <3>1. Member(op.on, q) \in Instance
      BY <1>2, <1>14
    <3> QED
      BY <2>1, <3>1 DEF Member
  <2>3. CASE q = p
    BY <1>4, <1>7, <2>2, <2>3
  <2>4. CASE q # p
    <3>1. Member(op.on, q) # u
      BY <1>2, <1>14, <2>4
    <3>2. unit[Member(op.on, q)].stage = "stopped"
      BY <1>1, <2>4 DEF IInv, CleanStops
    <3> QED
      BY <1>7, <2>2, <3>1, <3>2
  <2> QED
    BY <2>3, <2>4
<1> QED
  BY <1>8, <1>11, <1>12, <1>13, <1>15, <1>16 DEF IInv

(* What is cancelled keeps its stage. *)
LEMMA CancelledKeeps ==
  ASSUME TypeOK, NEW S, unit' = [u \in Instance |-> IF u \in S THEN [unit[u] EXCEPT !.cancelled = TRUE]
                                                   ELSE unit[u]]
  PROVE  unit' \in [Instance -> Unit] /\ SameStages
<1>0. \A x \in Unit : [x EXCEPT !.cancelled = TRUE] \in Unit
  BY DEF Unit
<1>1. unit' \in [Instance -> Unit]
  BY <1>0 DEF TypeOK
<1>2. \A u \in Instance : unit'[u].stage = unit[u].stage /\ unit'[u].stops = unit[u].stops
  BY DEF TypeOK, Unit
<1> QED
  BY <1>1, <1>2 DEF SameStages, Instance

LEMMA CancelledUnits ==
  ASSUME TypeOK, NEW g, NEW selected, unit' = Cancelled(g, selected)
  PROVE  unit' \in [Instance -> Unit] /\ SameStages
<1> DEFINE S == {u \in Instance : u[1] \in selected /\ u = Member(g, u[1])}
<1>1. unit' = [u \in Instance |-> IF u \in S THEN [unit[u] EXCEPT !.cancelled = TRUE] ELSE unit[u]]
  BY DEF Cancelled
<1> HIDE DEF S
<1> QED
  BY <1>1, CancelledKeeps

CancelsOnly(h) ==
  \A g \in Generation :
    /\ lifecycle'[g].entries = lifecycle[g].entries /\ lifecycle'[g].entered = lifecycle[g].entered
    /\ lifecycle'[g].retired = lifecycle[g].retired /\ lifecycle'[g].dirty = lifecycle[g].dirty
    /\ g # h => lifecycle'[g].cancelled = lifecycle[g].cancelled

LEMMA CancelledLifecycle ==
  ASSUME TypeOK, NEW h \in Generation, lifecycle' = [lifecycle EXCEPT ![h].cancelled = TRUE]
  PROVE  /\ lifecycle' \in [Generation -> Lifecycle] /\ lifecycle'[h].cancelled
         /\ CancelsOnly(h) /\ SameComposition /\ SameRegistration
<1>1. lifecycle' \in [Generation -> Lifecycle]
  BY DEF TypeOK, Lifecycle
<1>2. CancelsOnly(h) /\ lifecycle'[h].cancelled
  BY DEF TypeOK, Lifecycle, CancelsOnly
<1> QED
  BY <1>1, <1>2 DEF CancelsOnly, SameComposition, SameRegistration

(* A start is cancelled; its compensation may begin with that. *)
LEMMA CancelStep ==
  ASSUME IInv, TypeOK', op.step \in Starting,
         CancelsOnly(op.on), SameComposition, SameRegistration, SameStages,
         current' = current, made' = made, left'.changes = left.changes,
         op'.kind = op.kind, op'.stage = op.stage, op'.on = op.on, op'.changed = op.changed,
         op'.target = op.target,
         \/ op' = op
         \/ op'.step = "quiesce" /\ op'.selected = Fresh(op.on) /\ op'.todo = Fresh(op.on)
  PROVE  IInv'
<1>1. /\ op.on \in Generation /\ current < op.on /\ op.on <= made /\ current \in Nat
      /\ \/ op.kind = "initialize" /\ current = 0 /\ op.stage = "first"
         \/ /\ Changing /\ op.stage \in {"candidate", "recovery"} /\ op.on \in {made - 1, made}
            /\ lifecycle[current].cancelled /\ current \in Generation
      /\ op.stage = "candidate" => op.on # made
      /\ ~ Available /\ current # op.on /\ op.on # 0
      /\ \A q \in Fresh(op.on) : Owner(q) = op.on
  <2>1. op.on \in Nat
    BY Position, Types DEF IInv
  <2> QED
    BY <2>1, Position
<1>2. made \in Generation /\ made \in Nat /\ Generation \subseteq Nat
  BY BoundAssumption DEF IInv, TypeOK, Generation
<1>3. /\ op'.step \in Starting \cup {"quiesce"} /\ op'.step # "build" /\ op.step # "build"
      /\ op'.step \in Starting => op' = op
      /\ Changing' = Changing
  BY DEF Starting, Changing
<1>4. current \in Generation => lifecycle'[current].cancelled = lifecycle[current].cancelled
  BY <1>1 DEF CancelsOnly
<1>5. ~ Available'
  BY <1>1, <1>4 DEF Available
<1>6. \A g \in Generation : Composed(g)' = Composed(g) /\ Fresh(g)' = Fresh(g)
  BY Compositions
<1>7. \A g \in Generation : g # op.on => Unstarted(g)' = Unstarted(g)
  BY DEF CancelsOnly, Unstarted
<1>8. Budgeted' /\ Shape'
  BY <1>1, <1>3, <1>4 DEF IInv, Budgeted, Shape, Changing, Starting, Stopping
<1>9. Known'
  <2> SUFFICES ASSUME NEW g \in Generation
               PROVE  /\ g > made => Unstarted(g)' /\ Composed(g)' = {}
                      /\ \A q \in Plugin : lifecycle'[g].entries[q] <= g
                      /\ lifecycle'[g].entered \subseteq Composed(g)'
    BY DEF Known
  <2>1. g > made => g # op.on
    BY <1>1, <1>2
  <2> QED
    BY <1>6, <1>7, <2>1 DEF IInv, Known, CancelsOnly
<1>10. Registered' /\ OneInstance'
  BY Unheld
<1>11. Recipes'
  <2>1. op'.kind = "change" => op'.target \ op'.changed = Composed(current)' \ op'.changed
    BY <1>1, <1>6 DEF IInv, Recipes, Changing
  <2>2. ASSUME Changing', NEW g \in {made - 1, made}, NEW q \in Plugin
        PROVE  IF q \in op.changed THEN lifecycle'[g].entries[q] \in {0, g}
               ELSE lifecycle'[g].entries[q] = lifecycle'[current].entries[q]
    <3>1. Changing /\ current \in Generation /\ current + 2 <= made
      BY <1>1, <1>3, <2>2 DEF IInv, Shape, Changing
    <3>2. g \in Generation
      BY <1>2, <3>1, BoundAssumption DEF Generation
    <3>3. lifecycle'[g].entries = lifecycle[g].entries
          /\ lifecycle'[current].entries = lifecycle[current].entries
      BY <3>1, <3>2 DEF SameComposition
    <3> QED
      BY <3>1, <3>3 DEF IInv, Recipes
  <2> QED
    BY <2>1, <2>2 DEF Recipes
<1>12. Phase'
  <2>1. /\ Composed(op.on)' = Composed(op.on) /\ Fresh(op.on)' = Fresh(op.on)
        /\ lifecycle'[op.on].entered = lifecycle[op.on].entered
        /\ lifecycle'[op.on].retired = lifecycle[op.on].retired
        /\ lifecycle[op.on].retired = {} /\ Fresh(op.on) \subseteq Composed(op.on)
    <3>1. lifecycle'[op.on].entries = lifecycle[op.on].entries
      BY <1>1 DEF SameComposition
    <3>2. Composed(op.on)' = Composed(op.on) /\ Fresh(op.on)' = Fresh(op.on)
      BY <3>1 DEF Composed, Fresh
    <3> QED
      BY <1>1, <3>2 DEF CancelsOnly, IInv, Phase, Fresh
  <2>2. Changing' /\ op'.stage \in {"old", "candidate"} => Unstarted(made)' /\ op'.stage = "candidate"
    <3>1. SUFFICES ASSUME Changing', op'.stage \in {"old", "candidate"}
                   PROVE  Unstarted(made)' /\ op'.stage = "candidate"
      OBVIOUS
    <3>2. op.stage = "candidate" /\ Changing
      BY <1>1, <1>3, <3>1 DEF Changing
    <3>3. Unstarted(made) /\ made # op.on
      BY <1>1, <3>2 DEF IInv, Phase
    <3> QED
      BY <1>2, <1>7, <3>2, <3>3
  <2>3. CASE op' = op
    BY <1>1, <1>3, <2>1, <2>2, <2>3 DEF IInv, Phase, Starting, Stopping
  <2>4. CASE op'.step = "quiesce" /\ op'.selected = Fresh(op.on) /\ op'.todo = Fresh(op.on)
    BY <1>1, <1>3, <2>1, <2>2, <2>4 DEF Phase, Starting, Stopping, Changing
  <2> QED
    BY <2>3, <2>4
<1>13. Serving'
  <2>1. SUFFICES ASSUME Changing', op.stage \in {"candidate", "recovery"}
                 PROVE  Complete(current, op.changed \cap Composed(current))'
    BY <1>1, <1>3, <1>5 DEF Serving, Changing
  <2>2. Changing /\ current \in Generation
    BY <1>1, <1>3, <2>1 DEF Changing
  <2>3. /\ Complete(current, op.changed \cap Composed(current))
        /\ lifecycle'[current].entered = lifecycle[current].entered
        /\ lifecycle'[current].retired = lifecycle[current].retired
        /\ Composed(current)' = Composed(current)
    BY <1>6, <2>1, <2>2 DEF IInv, Serving, CancelsOnly
  <2> QED
    BY <2>3 DEF Complete
<1>14. RegisteredRun'
  <2> SUFFICES ASSUME NEW g \in {current, op.on} \ {0},
                      NEW p \in lifecycle'[g].entered \ lifecycle'[g].retired
               PROVE  unit'[Member(g, p)'].stage \in Live
    BY DEF RegisteredRun, Member
  <2>1. g \in Generation
    BY Types DEF IInv
  <2>2. p \in lifecycle[g].entered \ lifecycle[g].retired
    BY <2>1 DEF CancelsOnly
  <2>3. unit[Member(g, p)].stage \in Live
    BY <2>2 DEF IInv, RegisteredRun, Starting
  <2> QED
    BY <2>1, <2>2, <2>3, StageOfMember
<1>15. CleanStops'
  BY <1>3 DEF CleanStops, Starting
<1>16. Owned'
  <2>1. \A q \in Plugin : Owner(q)' = Owner(q)
    <3> SUFFICES ASSUME NEW q \in Plugin
                 PROVE  Owner(q)' = Owner(q)
      OBVIOUS
    <3>1. current \in Generation => lifecycle'[current].entries = lifecycle[current].entries
      BY DEF SameComposition
    <3> QED
      BY <1>1, <1>3, <3>1 DEF Owner
  <2>2. \A q \in Plugin, g \in Generation : unit'[<<q, g>>].stage \in Held => g = Owner(q)
    BY <1>1 DEF IInv, Owned, SameStages
  <2> QED
    BY <2>1, <2>2 DEF Owned
<1> QED
  BY <1>8, <1>9, <1>10, <1>11, <1>12, <1>13, <1>14, <1>15, <1>16 DEF IInv

LEMMA AbandonStep ==
  ASSUME IInv, Abandon
  PROVE  IInv'
<1>1. /\ op.step \in Starting /\ op' = op /\ lifecycle' = [lifecycle EXCEPT ![op.on].cancelled = TRUE]
      /\ unit' = Cancelled(op.on, Fresh(op.on))
      /\ UNCHANGED <<current, made, request, left>>
  BY DEF Abandon, MayGoOn
<1>2. op.on \in Generation
  BY <1>1, AtGeneration
<1>3. unit' \in [Instance -> Unit] /\ SameStages
  BY <1>1, CancelledUnits DEF IInv
<1>4. /\ lifecycle' \in [Generation -> Lifecycle] /\ CancelsOnly(op.on)
      /\ SameComposition /\ SameRegistration
  BY <1>1, <1>2, CancelledLifecycle DEF IInv
<1>5. TypeOK'
  BY <1>1, <1>3, <1>4 DEF IInv, TypeOK
<1> QED
  BY <1>1, <1>3, <1>4, <1>5, CancelStep

LEMMA CompensateStep ==
  ASSUME IInv, op.step \in Starting, Compensate, UNCHANGED <<current, made, request>>,
         left' \in Budget, left'.changes = left.changes
  PROVE  IInv'
<1>1. op.on \in Generation
  BY AtGeneration
<1>2. /\ Remaining(op.on, Fresh(op.on)) = Fresh(op.on) /\ Fresh(op.on) \subseteq Plugin
  BY <1>1, Types DEF Remaining, IInv, Phase, Fresh
<1>3. /\ lifecycle' = [lifecycle EXCEPT ![op.on].cancelled = TRUE]
      /\ unit' = Cancelled(op.on, Fresh(op.on))
      /\ op' = StopOf(op.on, Fresh(op.on), op.stage, lifecycle[op.on].dirty)
  BY <1>2 DEF Compensate, BeginStop
<1>4. unit' \in [Instance -> Unit] /\ SameStages
  BY <1>3, CancelledUnits DEF IInv
<1>5. /\ lifecycle' \in [Generation -> Lifecycle] /\ CancelsOnly(op.on)
      /\ SameComposition /\ SameRegistration
  BY <1>1, <1>3, CancelledLifecycle DEF IInv
<1>6. /\ op'.kind = op.kind /\ op'.stage = op.stage /\ op'.on = op.on /\ op'.changed = op.changed
      /\ op'.target = op.target /\ op'.step = "quiesce" /\ op'.selected = Fresh(op.on)
      /\ op'.todo = Fresh(op.on)
  BY <1>3 DEF StopOf, IInv, TypeOK, Operation
<1>7. op' \in Operation
  BY <1>1, <1>2, <1>3 DEF StopOf, IInv, TypeOK, Operation, Lifecycle, Stopping
<1>8. TypeOK'
  BY <1>4, <1>5, <1>7 DEF IInv, TypeOK
<1> QED
  BY <1>4, <1>5, <1>6, <1>8, CancelStep

LEMMA StartFailsStep ==
  ASSUME IInv, StartFails
  PROVE  IInv'
<1>1. /\ op.step \in Starting /\ Compensate /\ UNCHANGED <<current, made, request>>
      /\ left' \in Budget /\ left'.changes = left.changes
  BY DEF StartFails, Spend, IInv, TypeOK, Budget
<1> QED
  BY <1>1, CompensateStep

LEMMA InterruptedStep ==
  ASSUME IInv, Interrupted
  PROVE  IInv'
<1>1. /\ op.step \in Starting /\ Compensate /\ UNCHANGED <<current, made, request>>
      /\ left' \in Budget /\ left'.changes = left.changes
  BY DEF Interrupted, IInv, TypeOK
<1> QED
  BY <1>1, CompensateStep

(* An operation is asked for or given up before anything is stopped. *)
LEMMA IdleStep ==
  ASSUME IInv, TypeOK', Budgeted', Shape', Recipes',
         UNCHANGED <<lifecycle, unit, current, made>>,
         op.step = "build", op'.step = "build", op'.on = 0
  PROVE  IInv'
<1>1. ~ Changing /\ ~ Changing' /\ Available' = Available
      /\ op.kind # "initialize" /\ op'.kind # "initialize"
  BY DEF Changing, Available, IInv, Shape
<1>2. Known' /\ Registered' /\ OneInstance'
  BY DEF IInv, Known, Registered, OneInstance, Unstarted, Composed
<1>3. Phase' /\ Serving' /\ CleanStops'
  BY <1>1 DEF IInv, Phase, Serving, CleanStops, Complete, Composed, Starting, Stopping
<1>4. RegisteredRun'
  BY DEF IInv, RegisteredRun, Member
<1>5. Owned'
  <2>1. \A p \in Plugin : Owner(p)' = Owner(p)
    BY <1>1 DEF Owner
  <2> QED
    BY <1>1, <2>1 DEF IInv, Owned
<1> QED
  BY <1>2, <1>3, <1>4, <1>5 DEF IInv

LEMMA RefuseStep ==
  ASSUME IInv, Refuse
  PROVE  IInv'
<1> USE DEF IInv, Refuse
<1>1. TypeOK'
  BY DEF TypeOK, Operation, NoOperation
<1>2. Budgeted'
  <2>1. made \in Nat /\ left.changes \in Nat
    BY BoundAssumption DEF TypeOK, Generation, Budget
  <2> QED
    BY <2>1, BoundAssumption DEF Budgeted, NoOperation
<1>3. Shape' /\ Recipes'
  BY DEF Shape, Recipes, NoOperation, Changing, Available
<1> QED
  BY <1>1, <1>2, <1>3, IdleStep DEF NoOperation

LEMMA AffectedContains ==
  ASSUME NEW changed, NEW plugins, changed \subseteq plugins
  PROVE  changed \subseteq Affected(changed, plugins) /\ Affected(changed, plugins) \subseteq plugins
BY DEF Affected

LEMMA BeginChangeStep ==
  ASSUME IInv, NEW target \in Selections, NEW replaced \in SUBSET Plugin,
         BeginChange(target, replaced)
  PROVE  IInv'
<1> DEFINE changed == Affected(Differing(target, replaced), Composed(current) \cup target)
<1>1. /\ op.kind = "idle" /\ Available /\ Spend("changes") /\ replaced \subseteq Composed(current) \cap target
      /\ op' = [NoOperation EXCEPT !.kind = "change", !.target = target, !.changed = changed]
      /\ UNCHANGED <<lifecycle, unit, current, made, request>>
  BY DEF BeginChange
<1>2. current \in Generation /\ target \subseteq Plugin /\ Composed(current) \subseteq Plugin
  BY <1>1, Types, SelectionAssumption DEF IInv, TypeOK, Available
<1>3. Differing(target, replaced) \subseteq Composed(current) \cup target
  BY <1>1 DEF Differing
<1>4. Differing(target, replaced) \subseteq changed /\ changed \subseteq Plugin
  BY <1>2, <1>3, AffectedContains
<1>5. target \ changed = Composed(current) \ changed
  BY <1>4 DEF Differing
<1> HIDE DEF changed
<1>6. /\ op'.kind = "change" /\ op'.step = "build" /\ op'.on = 0 /\ op'.target = target
      /\ op'.changed = changed /\ op' \in Operation
  BY <1>1, <1>2, <1>4 DEF NoOperation, Operation
<1>7. left' \in Budget /\ left'.changes = left.changes - 1 /\ left.changes \in Nat
  BY <1>1 DEF Spend, IInv, TypeOK, Budget
<1>8. TypeOK'
  BY <1>1, <1>6, <1>7 DEF IInv, TypeOK
<1>9. op.step = "build"
  BY <1>1 DEF IInv, Shape
<1>10. Budgeted'
  <2>1. made \in Nat /\ MaxChanges \in Nat
    BY BoundAssumption DEF IInv, TypeOK, Generation
  <2> QED
    BY <1>1, <1>6, <1>7, <2>1 DEF IInv, Budgeted
<1>11. Shape' /\ Recipes'
  BY <1>1, <1>5, <1>6 DEF IInv, Shape, Recipes, Changing, Available, Composed
<1> QED
  BY <1>1, <1>6, <1>8, <1>9, <1>10, <1>11, IdleStep

LEMMA ShutdownStep ==
  ASSUME IInv, Shutdown
  PROVE  IInv'
<1> DEFINE rest == Remaining(current, Plugin)
<1>1. /\ op.kind = "idle" /\ current # 0 /\ op.step = "build"
      /\ op' = [StopOf(current, rest, "rest", lifecycle[current].dirty) EXCEPT !.kind = "shutdown"]
      /\ lifecycle' = [lifecycle EXCEPT ![current].cancelled = TRUE]
      /\ unit' = Cancelled(current, rest) /\ UNCHANGED <<current, made, request, left>>
  BY DEF Shutdown, IInv, Shape
<1>2. current \in Generation /\ made \in Nat /\ current \in Nat /\ Generation \subseteq Nat
  BY <1>1, BoundAssumption DEF IInv, TypeOK, Generation
<1>3. rest \subseteq Composed(current) \ lifecycle[current].retired /\ rest \subseteq Plugin
  BY <1>2, Types DEF IInv, Remaining
<1> HIDE DEF rest
<1>4. unit' \in [Instance -> Unit] /\ SameStages
  BY <1>1, CancelledUnits DEF IInv
<1>5. /\ lifecycle' \in [Generation -> Lifecycle] /\ lifecycle'[current].cancelled
      /\ CancelsOnly(current) /\ SameComposition /\ SameRegistration
  BY <1>1, <1>2, CancelledLifecycle DEF IInv
<1>6. /\ op'.kind = "shutdown" /\ op'.stage = "rest" /\ op'.step = "quiesce" /\ op'.on = current
      /\ op'.selected = rest /\ op'.todo = rest /\ op' \in Operation
  BY <1>1, <1>2, <1>3 DEF StopOf, IInv, TypeOK, Operation, Lifecycle, Stopping
<1>7. TypeOK'
  BY <1>1, <1>4, <1>5, <1>6 DEF IInv, TypeOK
<1>8. ~ Changing /\ ~ Changing' /\ ~ Available'
  BY <1>1, <1>5, <1>6 DEF Changing, Available
<1>9. \A g \in Generation : Composed(g)' = Composed(g) /\ Fresh(g)' = Fresh(g)
  BY <1>5, Compositions
<1>10. Budgeted' /\ Shape'
  BY <1>1, <1>5, <1>6, <1>8 DEF IInv, Budgeted, Shape, Stopping
<1>11. Known'
  <2> SUFFICES ASSUME NEW g \in Generation
               PROVE  /\ g > made => Unstarted(g)' /\ Composed(g)' = {}
                      /\ \A q \in Plugin : lifecycle'[g].entries[q] <= g
                      /\ lifecycle'[g].entered \subseteq Composed(g)'
    BY <1>1 DEF Known
  <2>1. g > made => g # current
    BY <1>2 DEF IInv, Shape
  <2> QED
    BY <1>5, <1>9, <2>1 DEF IInv, Known, CancelsOnly, Unstarted
<1>12. Registered' /\ OneInstance'
  BY <1>4, <1>5, Unheld
<1>13. Recipes' /\ Serving' /\ Owned'
  BY <1>6, <1>8 DEF Recipes, Serving, Owned
<1>14. Phase'
  <2>1. /\ Composed(current)' = Composed(current)
        /\ lifecycle'[current].retired = lifecycle[current].retired
    BY <1>1, <1>2, <1>5, <1>9 DEF CancelsOnly
  <2> QED
    BY <1>3, <1>6, <1>8, <2>1, <1>1 DEF Phase, Starting, Stopping, Composed
<1>15. RegisteredRun'
  <2> SUFFICES ASSUME NEW p \in lifecycle'[current].entered \ lifecycle'[current].retired
               PROVE  unit'[Member(current, p)'].stage \in Live
    BY <1>1, <1>6 DEF RegisteredRun, Member
  <2>1. p \in lifecycle[current].entered \ lifecycle[current].retired
    BY <1>2, <1>5 DEF CancelsOnly
  <2>2. unit[Member(current, p)].stage \in Live
    BY <1>1, <2>1 DEF IInv, RegisteredRun
  <2>3. Member(current, p)' = Member(current, p)
    BY <1>1, <1>2, <1>5 DEF Member, SameComposition
  <2>4. p \in Plugin /\ lifecycle[current].entries[p] \in Generation
    BY <1>2, <2>1, Types DEF IInv, Known, Composed
  <2> QED
    BY <1>2, <1>4, <2>2, <2>3, <2>4 DEF SameStages, Member
<1>16. CleanStops'
  BY <1>6 DEF CleanStops
<1> QED
  BY <1>7, <1>10, <1>11, <1>12, <1>13, <1>14, <1>15, <1>16 DEF IInv

LEMMA PublishStep ==
  ASSUME IInv, Publish
  PROVE  IInv'
<1>1. /\ op.step = "route" /\ op.step \in Starting /\ ~ lifecycle[op.on].cancelled
      /\ current' = op.on /\ op' = NoOperation /\ UNCHANGED <<lifecycle, unit, made, request, left>>
  BY DEF Publish, MayGoOn, Starting
<1>2. /\ op.on \in Generation /\ op.on <= made /\ op.on # 0
      /\ \/ op.kind = "initialize"
         \/ /\ Changing /\ op.stage \in {"candidate", "recovery"} /\ op.on \in {made - 1, made}
            /\ current \in Generation
  BY <1>1, Position, AtGeneration
<1>3. /\ op'.kind = "idle" /\ op'.step = "build" /\ op'.on = 0 /\ op' \in Operation
      /\ ~ Changing'
  BY <1>1 DEF NoOperation, Operation, Changing
<1>4. TypeOK'
  BY <1>1, <1>2, <1>3 DEF IInv, TypeOK
<1>5. Budgeted' /\ Shape' /\ Recipes'
  BY <1>1, <1>2, <1>3 DEF IInv, Budgeted, Shape, Recipes
<1>6. Known' /\ Registered' /\ OneInstance'
  BY <1>1 DEF IInv, Known, Registered, OneInstance, Unstarted, Composed
<1>7. Phase' /\ CleanStops'
  BY <1>3 DEF Phase, CleanStops, Starting, Stopping
<1>8. Serving'
  <2>1. lifecycle[op.on].entered = Composed(op.on) /\ lifecycle[op.on].retired = {}
    BY <1>1 DEF IInv, Phase
  <2> QED
    BY <1>1, <1>3, <2>1 DEF Serving, Complete, Composed
<1>9. RegisteredRun'
  <2> SUFFICES ASSUME NEW p \in lifecycle[op.on].entered \ lifecycle[op.on].retired
               PROVE  unit[Member(op.on, p)].stage \in Live
    BY <1>1, <1>3 DEF RegisteredRun, Member
  <2> QED
    BY <1>1, <1>2 DEF IInv, RegisteredRun
<1>10. Owned'
  <2> SUFFICES ASSUME NEW p \in Plugin, NEW g \in Generation, unit[<<p, g>>].stage \in Held
               PROVE  g = lifecycle[op.on].entries[p]
    BY <1>1, <1>3 DEF Owned, Owner
  <2>1. g = Owner(p)
    BY <1>2, <1>1 DEF IInv, Owned
  <2>2. lifecycle[g].entries[p] = g
    BY DEF IInv, Registered, Held, Live
  <2>3. CASE op.kind = "initialize"
    BY <2>1, <2>2, <2>3 DEF Owner, IInv, Shape
  <2>4. CASE op.kind # "initialize" /\ p \in op.changed
    BY <1>2, <2>1, <2>2, <2>4 DEF Owner
  <2>5. CASE op.kind # "initialize" /\ p \notin op.changed
    <3>1. g = lifecycle[current].entries[p]
      BY <2>1, <2>5 DEF Owner
    <3> QED
      BY <1>2, <2>5, <3>1 DEF IInv, Recipes
  <2> QED
    BY <2>3, <2>4, <2>5
<1> QED
  BY <1>4, <1>5, <1>6, <1>7, <1>8, <1>9, <1>10 DEF IInv

LEMMA ComposeType ==
  ASSUME TypeOK, NEW g \in Generation, NEW old \in Generation, NEW plugins, NEW changed
  PROVE  /\ Compose(g, plugins, changed, old) \in Lifecycle
         /\ Compose(g, plugins, changed, old).entries =
              [p \in Plugin |-> IF p \notin plugins THEN 0
                                ELSE IF p \notin changed THEN lifecycle[old].entries[p] ELSE g]
         /\ Compose(g, plugins, changed, old).entered = {}
         /\ Compose(g, plugins, changed, old).retired = {}
         /\ ~ Compose(g, plugins, changed, old).cancelled
         /\ ~ Compose(g, plugins, changed, old).dirty
<1> DEFINE entries == [p \in Plugin |-> IF p \notin plugins THEN 0
                                ELSE IF p \notin changed THEN lifecycle[old].entries[p] ELSE g]
<1>1. entries \in [Plugin -> {0} \cup Generation]
  BY Types
<1>2. Compose(g, plugins, changed, old) =
        [entries |-> entries, cancelled |-> FALSE, entered |-> {}, retired |-> {}, dirty |-> FALSE]
  <2>1. Compose(g, plugins, changed, old) = [NoLifecycle EXCEPT !.entries = entries]
    BY DEF Compose
  <2> HIDE DEF entries
  <2> QED
    BY <2>1 DEF NoLifecycle
<1> HIDE DEF entries
<1>3. Compose(g, plugins, changed, old) \in Lifecycle
  BY <1>1, <1>2 DEF Lifecycle
<1>4. /\ Compose(g, plugins, changed, old).entries = entries
      /\ Compose(g, plugins, changed, old).entered = {}
      /\ Compose(g, plugins, changed, old).retired = {}
      /\ ~ Compose(g, plugins, changed, old).cancelled
      /\ ~ Compose(g, plugins, changed, old).dirty
  BY <1>2
<1> QED
  BY <1>3, <1>4 DEF entries

LEMMA CommitStep ==
  ASSUME IInv, Commit
  PROVE  IInv'
<1> DEFINE candidate == Compose(made + 1, op.target, op.changed, current)
           recovery == Compose(made + 2, Composed(current), op.changed, current)
<1>1. /\ op.kind = "change" /\ op.step = "build" /\ Available /\ ~ Changing /\ current # 0
      /\ current \in Generation /\ current <= made
      /\ Complete(current, {})
  BY DEF Commit, IInv, Shape, Changing, Available, TypeOK, Serving
<1>2. /\ made \in Nat /\ current \in Nat /\ Generation \subseteq Nat /\ made + 1 \in Generation
      /\ made + 2 \in Generation /\ left.changes \in Nat
  <2>1. made \in Nat /\ current \in Nat /\ MaxChanges \in Nat /\ left.changes \in Nat
    BY BoundAssumption, <1>1 DEF IInv, TypeOK, Generation, Budget
  <2>2. made + 2 * left.changes + 2 <= 2 * MaxChanges + 1
    BY <1>1 DEF IInv, Budgeted
  <2> QED
    BY <2>1, <2>2 DEF Generation
<1>3. Remaining(current, op.changed) = op.changed \cap Composed(current)
  BY <1>1 DEF Remaining, Complete
<1>4. /\ op' = StopOf(current, op.changed \cap Composed(current), "old", lifecycle[current].dirty)
      /\ lifecycle' = [lifecycle EXCEPT ![made + 1] = candidate, ![made + 2] = recovery,
                                        ![current].cancelled = TRUE]
      /\ unit' = Cancelled(current, op.changed \cap Composed(current))
      /\ made' = made + 2 /\ UNCHANGED <<current, request, left>>
  BY <1>3 DEF Commit
<1>4a. made' = made + 2 /\ current' = current
  BY <1>4
<1>5. unit' \in [Instance -> Unit] /\ SameStages
  BY <1>4, CancelledUnits DEF IInv
<1>6. /\ op'.kind = "change" /\ op'.stage = "old" /\ op'.step = "quiesce" /\ op'.on = current
      /\ op'.selected = op.changed \cap Composed(current) /\ op'.todo = op'.selected
      /\ op'.changed = op.changed /\ op'.target = op.target /\ op' \in Operation
  <2>1. Composed(current) \subseteq Plugin
    BY DEF Composed
  <2> QED
    BY <1>1, <1>4, <2>1 DEF StopOf, IInv, TypeOK, Operation, Lifecycle, Stopping
<1>7. candidate \in Lifecycle /\ recovery \in Lifecycle
  BY <1>1, <1>2, ComposeType DEF IInv
<1>8. /\ candidate.entered = {} /\ candidate.retired = {} /\ ~ candidate.cancelled /\ ~ candidate.dirty
      /\ recovery.entered = {} /\ recovery.retired = {} /\ ~ recovery.cancelled /\ ~ recovery.dirty
      /\ \A p \in Plugin :
           /\ candidate.entries[p] = IF p \notin op.target THEN 0
                ELSE IF p \notin op.changed THEN lifecycle[current].entries[p] ELSE made + 1
           /\ recovery.entries[p] = IF p \notin Composed(current) THEN 0
                ELSE IF p \notin op.changed THEN lifecycle[current].entries[p] ELSE made + 2
  <2>1. /\ candidate.entered = {} /\ candidate.retired = {} /\ ~ candidate.cancelled
        /\ ~ candidate.dirty
        /\ candidate.entries = [p \in Plugin |-> IF p \notin op.target THEN 0
             ELSE IF p \notin op.changed THEN lifecycle[current].entries[p] ELSE made + 1]
    BY <1>1, <1>2, ComposeType DEF IInv
  <2>2. /\ recovery.entered = {} /\ recovery.retired = {} /\ ~ recovery.cancelled
        /\ ~ recovery.dirty
        /\ recovery.entries = [p \in Plugin |-> IF p \notin Composed(current) THEN 0
             ELSE IF p \notin op.changed THEN lifecycle[current].entries[p] ELSE made + 2]
    BY <1>1, <1>2, ComposeType DEF IInv
  <2> HIDE DEF candidate, recovery
  <2> QED
    BY <2>1, <2>2
<1> HIDE DEF candidate, recovery
<1>9. /\ lifecycle' \in [Generation -> Lifecycle]
      /\ lifecycle'[made + 1] = candidate /\ lifecycle'[made + 2] = recovery
      /\ lifecycle'[current] = [lifecycle[current] EXCEPT !.cancelled = TRUE]
      /\ \A g \in Generation \ {made + 1, made + 2, current} : lifecycle'[g] = lifecycle[g]
  <2>1. current # made + 1 /\ current # made + 2 /\ made + 1 # made + 2
    BY <1>1, <1>2
  <2>2. [lifecycle[current] EXCEPT !.cancelled = TRUE] \in Lifecycle
    <3>1. \A x \in Lifecycle : [x EXCEPT !.cancelled = TRUE] \in Lifecycle
      BY DEF Lifecycle
    <3> QED
      BY <1>1, <3>1 DEF IInv, TypeOK
  <2>3. lifecycle' = [lifecycle EXCEPT ![made + 1] = candidate, ![made + 2] = recovery,
                       ![current] = [lifecycle[current] EXCEPT !.cancelled = TRUE]]
    BY <1>1, <1>2, <1>4, <2>1 DEF IInv, TypeOK
  <2> QED
    BY <1>1, <1>2, <1>7, <2>1, <2>2, <2>3 DEF IInv, TypeOK
<1>10. /\ lifecycle'[current].entries = lifecycle[current].entries
       /\ lifecycle'[current].entered = lifecycle[current].entered
       /\ lifecycle'[current].retired = lifecycle[current].retired
       /\ lifecycle'[current].cancelled /\ Composed(current)' = Composed(current)
  <2>1. /\ lifecycle'[current].entries = lifecycle[current].entries
        /\ lifecycle'[current].entered = lifecycle[current].entered
        /\ lifecycle'[current].retired = lifecycle[current].retired
        /\ lifecycle'[current].cancelled
    BY <1>1, <1>9 DEF IInv, TypeOK, Lifecycle
  <2> QED
    BY <1>4, <2>1 DEF Composed
<1>11. TypeOK'
  BY <1>2, <1>4, <1>5, <1>6, <1>9 DEF IInv, TypeOK
<1>12. Changing' /\ ~ Available'
  BY <1>4, <1>6, <1>10 DEF Changing, Available
<1>13. Budgeted' /\ Shape'
  BY <1>1, <1>2, <1>4, <1>6, <1>10, <1>12 DEF IInv, Budgeted, Shape, Stopping
<1>14. Known'
  <2> SUFFICES ASSUME NEW g \in Generation
               PROVE  /\ g > made + 2 => Unstarted(g)' /\ Composed(g)' = {}
                      /\ \A p \in Plugin : lifecycle'[g].entries[p] <= g
                      /\ lifecycle'[g].entered \subseteq Composed(g)'
    BY <1>4 DEF Known
  <2>0. g \in Nat /\ \A p \in Plugin : lifecycle[current].entries[p] <= current
                                      /\ lifecycle[current].entries[p] \in Nat
    <3>1. ASSUME NEW p \in Plugin
          PROVE  lifecycle[current].entries[p] <= current /\ lifecycle[current].entries[p] \in Nat
      <4>1. lifecycle[current].entries[p] \in {0} \cup Generation
        BY <1>1, Types DEF IInv
      <4>2. Known /\ current \in Generation
        BY <1>1 DEF IInv
      <4>3. lifecycle[current].entries[p] <= current
        BY <4>2 DEF Known
      <4>4. lifecycle[current].entries[p] \in Nat
        BY <4>1, BoundAssumption DEF Generation
      <4> QED
        BY <4>3, <4>4
    <3> QED
      BY <1>2, <3>1
  <2>1. CASE g = made + 1
    BY <1>1, <1>2, <1>8, <1>9, <2>0, <2>1
  <2>2. CASE g = made + 2
    BY <1>1, <1>2, <1>8, <1>9, <2>0, <2>2
  <2>3. CASE g = current
    BY <1>1, <1>2, <1>10, <2>0, <2>3 DEF IInv, Known, Composed
  <2>4. CASE g \notin {made + 1, made + 2, current}
    <3>1. lifecycle'[g] = lifecycle[g]
      BY <1>9, <2>4
    <3>2. Composed(g)' = Composed(g) /\ Unstarted(g)' = Unstarted(g)
      BY <3>1 DEF Composed, Unstarted
    <3>3. g > made + 2 => g > made
      BY <1>2, <2>0
    <3> QED
      BY <3>1, <3>2, <3>3 DEF IInv, Known
  <2> QED
    BY <2>1, <2>2, <2>3, <2>4
<1>15. \A g \in Generation : lifecycle[g].entered # {} =>
         /\ lifecycle'[g].entries = lifecycle[g].entries
         /\ lifecycle'[g].entered = lifecycle[g].entered
         /\ lifecycle'[g].retired = lifecycle[g].retired
  <2> SUFFICES ASSUME NEW g \in Generation, lifecycle[g].entered # {}
               PROVE  /\ lifecycle'[g].entries = lifecycle[g].entries
                      /\ lifecycle'[g].entered = lifecycle[g].entered
                      /\ lifecycle'[g].retired = lifecycle[g].retired
    OBVIOUS
  <2>1. ~ (g > made)
    BY DEF IInv, Known, Unstarted
  <2>2. g # made + 1 /\ g # made + 2
    BY <1>2, <2>1
  <2>3. CASE g = current
    BY <1>10, <2>3
  <2>4. CASE g # current
    BY <1>9, <2>2, <2>4
  <2> QED
    BY <2>3, <2>4
<1>16. Registered'
  <2> SUFFICES ASSUME NEW p \in Plugin, NEW g \in Generation
               PROVE  /\ unit'[<<p, g>>].stage # "absent" =>
                           lifecycle'[g].entries[p] = g /\ p \in lifecycle'[g].entered
                      /\ unit'[<<p, g>>].stops =
                           IF unit'[<<p, g>>].stage \in {"stopped", "stuck"} THEN 1 ELSE 0
    BY DEF Registered
  <2>1. unit'[<<p, g>>].stage = unit[<<p, g>>].stage /\ unit'[<<p, g>>].stops = unit[<<p, g>>].stops
    BY <1>5 DEF SameStages
  <2>2. unit[<<p, g>>].stage # "absent" =>
          lifecycle'[g].entries[p] = g /\ p \in lifecycle'[g].entered
    BY <1>15 DEF IInv, Registered
  <2> QED
    BY <2>1, <2>2 DEF IInv, Registered
<1>17. OneInstance'
  BY <1>5 DEF IInv, OneInstance, SameStages
<1>18. Recipes'
  <2>1. op'.target \ op'.changed = Composed(current)' \ op'.changed
    BY <1>1, <1>6, <1>10 DEF IInv, Recipes
  <2>2. ASSUME NEW g \in {made' - 1, made'}, NEW p \in Plugin
        PROVE  IF p \in op'.changed THEN lifecycle'[g].entries[p] \in {0, g}
               ELSE lifecycle'[g].entries[p] = lifecycle'[current'].entries[p]
    <3>1. made' - 1 = made + 1 /\ made' = made + 2 /\ op'.changed = op.changed /\ current' = current
      BY <1>2, <1>4a, <1>6
    <3>2. p \notin op.changed => (p \in op.target <=> lifecycle[current].entries[p] # 0)
      BY <1>1 DEF IInv, Recipes, Composed
    <3>3. CASE g = made + 1
      <4>1. lifecycle'[g].entries[p] = IF p \notin op.target THEN 0
              ELSE IF p \notin op.changed THEN lifecycle[current].entries[p] ELSE g
        BY <1>8, <1>9, <3>3
      <4>2. lifecycle'[current'].entries[p] = lifecycle[current].entries[p]
        BY <1>10, <3>1
      <4> QED
        BY <3>1, <3>2, <4>1, <4>2
    <3>4. CASE g = made + 2
      <4>1. lifecycle'[g].entries[p] = IF p \notin Composed(current) THEN 0
              ELSE IF p \notin op.changed THEN lifecycle[current].entries[p] ELSE g
        BY <1>8, <1>9, <3>4
      <4>2. lifecycle'[current'].entries[p] = lifecycle[current].entries[p]
        BY <1>10, <3>1
      <4>3. p \notin Composed(current) => lifecycle[current].entries[p] = 0
        BY DEF Composed
      <4> QED
        BY <3>1, <4>1, <4>2, <4>3
    <3> QED
      BY <3>1, <3>3, <3>4
  <2> QED
    BY <2>1, <2>2 DEF Recipes
<1>19. Phase'
  <2>1. Unstarted(made - 1)' /\ Unstarted(made)'
    <3>1. made' - 1 = made + 1
      BY <1>2, <1>4a
    <3>2. lifecycle'[made' - 1] = candidate /\ lifecycle'[made'] = recovery
      BY <1>4a, <1>9, <3>1
    <3> QED
      BY <1>8, <3>2 DEF Unstarted
  <2>2. op'.selected \subseteq Composed(current)' \ lifecycle'[current].retired
        /\ op'.selected = op'.changed \cap Composed(current)'
    BY <1>1, <1>6, <1>10 DEF Complete
  <2>3. Composed(op.on)' = Composed(current)'
    BY <1>4a, <1>6 DEF Composed
  <2> QED
    BY <1>4a, <1>6, <1>12, <2>1, <2>2, <2>3 DEF Phase, Starting, Stopping
<1>20. Serving'
  <2>1. Complete(current, {})'
    BY <1>1, <1>4a, <1>10 DEF Complete
  <2> QED
    BY <1>6, <1>12, <2>1 DEF Serving
<1>21. RegisteredRun'
  <2> SUFFICES ASSUME NEW p \in lifecycle[current].entered \ lifecycle[current].retired
               PROVE  unit'[<<p, lifecycle[current].entries[p]>>].stage \in Live
    BY <1>4a, <1>6, <1>10 DEF RegisteredRun, Member
  <2>1. unit[Member(current, p)].stage \in Live
    BY <1>1 DEF IInv, RegisteredRun
  <2>2. p \in Plugin /\ lifecycle[current].entries[p] \in Generation
    BY <1>1, Types DEF IInv, Known, Composed
  <2> QED
    BY <1>5, <2>1, <2>2 DEF SameStages, Member
<1>22. CleanStops'
  BY <1>6 DEF CleanStops
<1>23. Owned'
  <2>1. \A p \in Plugin : Owner(p)' = Owner(p) /\ Owner(p) = lifecycle[current].entries[p]
    BY <1>1, <1>4a, <1>6, <1>10 DEF Owner
  <2> QED
    BY <1>1, <1>5, <2>1 DEF IInv, Owned, SameStages
<1> QED
  BY <1>11, <1>13, <1>14, <1>16, <1>17, <1>18, <1>19, <1>20, <1>21, <1>22, <1>23 DEF IInv

(* What a stop that is over leaves behind, whatever follows. *)
StopOver ==
  /\ \A g \in Generation :
       /\ lifecycle'[g].cancelled = lifecycle[g].cancelled
       /\ g # op.on => Unstarted(g)' = Unstarted(g) /\ lifecycle'[g].retired = lifecycle[g].retired
  /\ lifecycle'[op.on].retired = lifecycle[op.on].retired \cup op.selected
  /\ SameComposition /\ SameRegistration /\ SameStages

LEMMA LifecycleRetired ==
  ASSUME NEW x \in Lifecycle, NEW retired \in SUBSET Plugin, NEW dirty \in BOOLEAN
  PROVE  [x EXCEPT !.retired = retired, !.dirty = dirty] \in Lifecycle
<1>1. [x EXCEPT !.retired = retired] \in Lifecycle
  BY DEF Lifecycle
<1> QED
  BY <1>1 DEF Lifecycle

LEMMA RetiredLifecycle ==
  ASSUME TypeOK, op.on \in Generation, lifecycle' = Retired, SameStages
  PROVE  lifecycle' \in [Generation -> Lifecycle] /\ StopOver
<1>1. op.selected \subseteq Plugin /\ op.dirty \in BOOLEAN
  BY DEF TypeOK, Operation
<1>2. lifecycle' \in [Generation -> Lifecycle]
  <2>1. lifecycle[op.on].retired \cup op.selected \subseteq Plugin
    BY <1>1 DEF TypeOK, Lifecycle
  <2>2. [lifecycle[op.on] EXCEPT !.retired = lifecycle[op.on].retired \cup op.selected,
                                 !.dirty = op.dirty] \in Lifecycle
    BY <1>1, <2>1, LifecycleRetired DEF TypeOK
  <2>3. lifecycle' = [lifecycle EXCEPT ![op.on] =
           [lifecycle[op.on] EXCEPT !.retired = lifecycle[op.on].retired \cup op.selected,
                                    !.dirty = op.dirty]]
    <3>1. lifecycle = [g \in Generation |-> lifecycle[g]]
      BY DEF TypeOK
    <3> QED
      BY <3>1 DEF Retired
  <2> QED
    BY <2>2, <2>3 DEF TypeOK
<1>3. /\ \A g \in Generation :
           /\ lifecycle'[g].cancelled = lifecycle[g].cancelled
           /\ lifecycle'[g].entries = lifecycle[g].entries
           /\ lifecycle'[g].entered = lifecycle[g].entered
           /\ g # op.on => lifecycle'[g] = lifecycle[g]
      /\ lifecycle'[op.on].retired = lifecycle[op.on].retired \cup op.selected
  BY DEF Retired, TypeOK, Lifecycle
<1>4. \A g \in Generation : g # op.on => Unstarted(g)' = Unstarted(g)
  BY <1>3 DEF Unstarted
<1> QED
  BY <1>2, <1>3, <1>4 DEF StopOver, SameComposition, SameRegistration

LEMMA StopOverKeeps ==
  ASSUME IInv, op.step = "release", op.todo = {}, op.on \in Generation, op.on <= made, StopOver,
         made' = made
  PROVE  /\ Known' /\ Registered' /\ OneInstance'
         /\ \A g \in {current, op.on} \ {0} :
              \A p \in lifecycle'[g].entered \ lifecycle'[g].retired :
                unit'[<<p, lifecycle'[g].entries[p]>>].stage \in Live
<1>1. Registered' /\ OneInstance'
  BY Unheld DEF StopOver
<1>2. \A g \in Generation : Composed(g)' = Composed(g) /\ Fresh(g)' = Fresh(g)
  BY Compositions DEF StopOver
<1>3. Known'
  <2> SUFFICES ASSUME NEW g \in Generation
               PROVE  /\ g > made => Unstarted(g)' /\ Composed(g)' = {}
                      /\ \A q \in Plugin : lifecycle'[g].entries[q] <= g
                      /\ lifecycle'[g].entered \subseteq Composed(g)'
    BY DEF Known
  <2>1. g > made => g # op.on
    BY BoundAssumption DEF IInv, TypeOK, Generation
  <2> QED
    BY <1>2, <2>1 DEF IInv, Known, StopOver, SameComposition, SameRegistration
<1>4. ASSUME NEW g \in {current, op.on} \ {0}, NEW p \in lifecycle'[g].entered \ lifecycle'[g].retired
      PROVE  unit'[<<p, lifecycle'[g].entries[p]>>].stage \in Live
  <2>1. g \in Generation /\ p \in lifecycle[g].entered /\ p \notin lifecycle[g].retired
        /\ (g = op.on => p \notin op.selected)
        /\ lifecycle'[g].entries = lifecycle[g].entries
    BY Types DEF IInv, StopOver, SameComposition, SameRegistration
  <2>2. unit[Member(g, p)].stage \in Live
    BY <2>1 DEF IInv, RegisteredRun
  <2>3. p \in Plugin /\ lifecycle[g].entries[p] \in Generation
    BY <2>1, Types DEF IInv, Known, Composed
  <2> QED
    BY <2>1, <2>2, <2>3 DEF StopOver, SameStages, Member
<1> QED
  BY <1>1, <1>3, <1>4

(* The generation that follows a clean stop begins to start. *)
LEMMA NextStart ==
  ASSUME IInv, op.step = "release", op.todo = {}, Changing, ~ op.dirty,
         op.stage \in {"old", "candidate"}, UNCHANGED <<current, made, request, left>>,
         IF op.stage = "old" THEN BeginStart(made - 1, "candidate") ELSE BeginStart(made, "recovery")
  PROVE  IInv'
<1> DEFINE next == IF op.stage = "old" THEN made - 1 ELSE made
           stage == IF op.stage = "old" THEN "candidate" ELSE "recovery"
<1>1. /\ op' = [op EXCEPT !.stage = stage, !.step = "open", !.on = next, !.todo = Composed(next)]
      /\ lifecycle' = Retired /\ unit' = unit
  BY DEF BeginStart
<1>2. /\ current \in Generation /\ current \in Nat /\ made \in Nat /\ current + 2 <= made
      /\ current # 0 /\ lifecycle[current].cancelled /\ Generation \subseteq Nat
      /\ made \in Generation
  BY BoundAssumption DEF IInv, Shape, TypeOK, Generation
<1>3. /\ op.on \in Generation /\ op.on <= made
      /\ op.on = IF op.stage = "old" THEN current ELSE made - 1
  <2>1. op.on = IF op.stage = "old" THEN current ELSE made - 1
    BY DEF IInv, Shape
  <2> QED
    BY <1>2, <2>1, BoundAssumption DEF Generation
<1>4. next \in Generation /\ next \in {made - 1, made} /\ next # op.on /\ next # current
      /\ next # 0 /\ (op.stage = "old" => next # made)
  BY <1>2, <1>3, BoundAssumption DEF Generation
<1>5. SameStages
  BY <1>1 DEF SameStages
<1>6. lifecycle' \in [Generation -> Lifecycle] /\ StopOver
  BY <1>1, <1>3, <1>5, RetiredLifecycle DEF IInv
<1>7. \A g \in Generation : Composed(g)' = Composed(g) /\ Fresh(g)' = Fresh(g)
  BY <1>6, Compositions DEF StopOver
<1> HIDE DEF next, stage
<1>8. stage \in {"candidate", "recovery"} /\ (stage = "candidate" <=> op.stage = "old")
      /\ next = IF stage = "candidate" THEN made - 1 ELSE made
  BY DEF next, stage
<1>9. Composed(next) \subseteq Plugin
  BY DEF Composed
<1>10. /\ op'.kind = "change" /\ op'.stage = stage /\ op'.step = "open" /\ op'.on = next
       /\ op'.todo = Composed(next) /\ op'.changed = op.changed /\ op'.target = op.target
       /\ op' \in Operation
  BY <1>1, <1>4, <1>8, <1>9 DEF IInv, TypeOK, Operation, Starting, Changing
<1>11. TypeOK'
  BY <1>1, <1>6, <1>10 DEF IInv, TypeOK
<1>12. Changing' /\ ~ Available' /\ lifecycle'[current].cancelled
  BY <1>2, <1>6, <1>10 DEF Changing, Available, StopOver
<1>13. Budgeted' /\ Shape'
  BY <1>2, <1>8, <1>10, <1>12 DEF IInv, Budgeted, Shape, Changing
<1>14. Known' /\ Registered' /\ OneInstance'
  BY <1>3, <1>6, StopOverKeeps
<1>15. Recipes'
  <2>1. made - 1 \in Generation
    BY <1>2, BoundAssumption DEF Generation
  <2>2. \A g \in {made - 1, made, current} : lifecycle'[g].entries = lifecycle[g].entries
    BY <1>2, <1>6, <2>1 DEF StopOver, SameComposition
  <2>3. Composed(current)' = Composed(current)
    BY <1>2, <1>7
  <2>4. op'.target \ op'.changed = Composed(current)' \ op'.changed
    BY <1>10, <2>3 DEF IInv, Recipes, Changing
  <2>5. ASSUME NEW g \in {made - 1, made}, NEW p \in Plugin
        PROVE  IF p \in op'.changed THEN lifecycle'[g].entries[p] \in {0, g}
               ELSE lifecycle'[g].entries[p] = lifecycle'[current].entries[p]
    BY <1>10, <2>2 DEF IInv, Recipes
  <2> QED
    BY <2>4, <2>5 DEF Recipes
<1>16. Unstarted(next) /\ (stage = "candidate" => Unstarted(made))
  BY <1>8 DEF IInv, Phase
<1>17. /\ lifecycle'[next].entered = {} /\ lifecycle'[next].retired = {}
       /\ stage = "candidate" => Unstarted(made)' /\ made # op.on
  <2>1. lifecycle'[next].entered = {} /\ lifecycle'[next].retired = {}
    BY <1>4, <1>6, <1>16 DEF StopOver, SameRegistration, Unstarted
  <2>2. stage = "candidate" => made # op.on
    BY <1>2, <1>3, <1>8
  <2> QED
    BY <1>2, <1>6, <1>16, <2>1, <2>2 DEF StopOver
<1>18. Phase'
  <2>1. Composed(op.on)' = op'.todo
    <3>1. lifecycle'[next].entries = lifecycle[next].entries
      BY <1>4, <1>6 DEF StopOver, SameComposition
    <3> QED
      BY <1>10, <3>1 DEF Composed
  <2>2. lifecycle'[op'.on].entered = {} /\ lifecycle'[op'.on].retired = {}
    BY <1>10, <1>17
  <2>3. Changing' /\ op'.stage \in {"old", "candidate"} => Unstarted(made)' /\ op'.stage # "old"
    BY <1>8, <1>10, <1>17
  <2> QED
    BY <1>10, <2>1, <2>2, <2>3 DEF Phase, Stopping, Starting
<1>19. Serving'
  <2>1. Complete(current, IF op.stage = "old" THEN {} ELSE op.changed \cap Composed(current))
    BY DEF IInv, Serving
  <2>2. op.stage = "old" => op.on = current /\ op.selected = op.changed \cap Composed(current)
    BY <1>3 DEF IInv, Phase
  <2>3. lifecycle'[current].entered = Composed(current)
        /\ lifecycle'[current].retired = op.changed \cap Composed(current)
    <3>1. CASE op.stage = "old"
      BY <1>2, <1>6, <2>1, <2>2, <3>1 DEF Complete, StopOver, SameRegistration
    <3>2. CASE op.stage # "old"
      <4>1. op.on # current
        BY <1>2, <1>3, <3>2
      <4> QED
        BY <1>2, <1>6, <2>1, <3>2, <4>1 DEF Complete, StopOver, SameRegistration
    <3> QED
      BY <3>1, <3>2
  <2>4. Composed(current)' = Composed(current)
    BY <1>2, <1>7
  <2> QED
    BY <1>8, <1>10, <1>12, <2>3, <2>4 DEF Serving, Complete
<1>20. RegisteredRun'
  <2> SUFFICES ASSUME NEW g \in {current, next} \ {0},
                      NEW p \in lifecycle'[g].entered \ lifecycle'[g].retired
               PROVE  unit'[<<p, lifecycle'[g].entries[p]>>].stage \in Live
    BY <1>10 DEF RegisteredRun, Member
  <2>1. g = current
    BY <1>17
  <2> QED
    BY <1>3, <1>6, <2>1, StopOverKeeps
<1>21. CleanStops'
  BY <1>10 DEF CleanStops
<1>22. Owned'
  <2> SUFFICES ASSUME NEW p \in Plugin, NEW g \in Generation, unit[<<p, g>>].stage \in Held
               PROVE  g = IF p \in op.changed THEN next ELSE lifecycle[current].entries[p]
    <3>1. lifecycle'[current].entries = lifecycle[current].entries
      BY <1>2, <1>6 DEF StopOver, SameComposition
    <3> QED
      BY <1>1, <1>8, <1>10, <1>12, <3>1 DEF Owned, Owner
  <2>1. g = Owner(p)
    BY DEF IInv, Owned
  <2>2. lifecycle[g].entries[p] = g /\ p \in lifecycle[g].entered
    BY DEF IInv, Registered, Held, Live
  <2>3. CASE p \notin op.changed
    BY <2>1, <2>3 DEF Owner, Changing
  <2>4. CASE p \in op.changed
    <3>1. g = lifecycle[op.on].entries[p]
      BY <1>3, <2>1, <2>2, <2>4 DEF Owner, Changing
    <3>2. p \in Composed(op.on) /\ g # 0
      BY <1>2, <3>1, BoundAssumption DEF Composed, Generation
    <3>3. p \in op.selected /\ p \in lifecycle[op.on].entered
      <4>1. CASE op.stage = "old"
        BY <1>3, <2>4, <3>2, <4>1 DEF IInv, Phase, Serving, Complete
      <4>2. CASE op.stage = "candidate"
        <5>1. g = op.on
          BY <2>1, <2>4, <4>2 DEF Owner, Changing
        <5>2. p \in Fresh(op.on)
          BY <3>1, <3>2, <5>1 DEF Fresh
        <5> QED
          BY <2>2, <4>2, <5>1, <5>2 DEF IInv, Phase, Stopping
      <4> QED
        BY <4>1, <4>2
    <3>4. unit[Member(op.on, p)].stage = "stopped"
      BY <3>3 DEF IInv, CleanStops
    <3> QED
      BY <3>1, <3>4 DEF Member, Held, Live
  <2> QED
    BY <2>3, <2>4
<1> QED
  BY <1>11, <1>13, <1>14, <1>15, <1>18, <1>19, <1>20, <1>21, <1>22 DEF IInv

(* The operation is over and the host is down. *)
LEMMA EndStep ==
  ASSUME IInv, op.step = "release", op.todo = {}, op.stage \in {"first", "rest"}, EndOperation,
         UNCHANGED <<current, made, request, left>>
  PROVE  IInv'
<1>1. op' = NoOperation /\ lifecycle' = Retired /\ unit' = unit
  BY DEF EndOperation
<1>2. op.on \in Generation /\ op.on <= made /\ (current # 0 => op.on = current)
  <2>1. op.on \in Generation /\ op.kind # "idle" /\ (op.kind = "change" => Changing)
    BY AtGeneration DEF Stopping
  <2>2. made \in Nat
    BY BoundAssumption DEF IInv, TypeOK, Generation
  <2>3. op.kind \in {"initialize", "change", "shutdown"}
    BY <2>1 DEF IInv, TypeOK, Operation
  <2>4. CASE op.kind = "initialize"
    BY <2>1, <2>2, <2>4 DEF IInv, Shape
  <2>5. CASE op.kind # "initialize"
    BY <2>1, <2>3, <2>5 DEF IInv, Shape
  <2> QED
    BY <2>4, <2>5
<1>3. current # 0 => lifecycle[current].cancelled /\ current \in Generation
  <2>1. op.kind \in {"initialize", "change", "shutdown"} /\ (op.kind = "change" => Changing)
    BY AtGeneration DEF IInv, TypeOK, Operation, Stopping
  <2> QED
    BY <2>1, <1>2 DEF IInv, Shape
<1>4. SameStages
  BY <1>1 DEF SameStages
<1>5. lifecycle' \in [Generation -> Lifecycle] /\ StopOver
  BY <1>1, <1>2, <1>4, RetiredLifecycle DEF IInv
<1>6. /\ op'.kind = "idle" /\ op'.step = "build" /\ op'.on = 0 /\ op' \in Operation
      /\ ~ Changing'
  BY <1>1 DEF NoOperation, Operation, Changing
<1>7. ~ Available'
  BY <1>3, <1>5 DEF Available, StopOver
<1>8. TypeOK'
  BY <1>1, <1>5, <1>6 DEF IInv, TypeOK
<1>9. Budgeted' /\ Shape' /\ Recipes'
  BY <1>6 DEF IInv, Budgeted, Shape, Recipes
<1>10. Known' /\ Registered' /\ OneInstance'
  BY <1>2, <1>5, StopOverKeeps
<1>11. Phase' /\ Serving' /\ CleanStops' /\ Owned'
  BY <1>6, <1>7 DEF Phase, Serving, CleanStops, Owned, Starting, Stopping
<1>12. RegisteredRun'
  <2> SUFFICES ASSUME NEW g \in {current} \ {0},
                      NEW p \in lifecycle'[g].entered \ lifecycle'[g].retired
               PROVE  unit'[<<p, lifecycle'[g].entries[p]>>].stage \in Live
    BY <1>6 DEF RegisteredRun, Member
  <2> QED
    BY <1>2, <1>5, StopOverKeeps
<1> QED
  BY <1>8, <1>9, <1>10, <1>11, <1>12 DEF IInv

(* The rest of the served generation is stopped too. *)
LEMMA GoDownStep ==
  ASSUME IInv, op.step = "release", op.todo = {}, Changing,
         op.stage \in {"old", "candidate", "recovery"}, GoDown,
         UNCHANGED <<current, made, request, left>>
  PROVE  IInv'
<1> DEFINE all == Composed(current) \ Retired[current].retired
<1>1. /\ op' = StopOf(current, all, "rest", Retired[current].dirty)
      /\ lifecycle' = Retired /\ unit' = Cancelled(current, all)
  BY DEF GoDown
<1>2. /\ current \in Generation /\ current \in Nat /\ made \in Nat /\ current + 2 <= made
      /\ current # 0 /\ lifecycle[current].cancelled
  BY BoundAssumption DEF IInv, Shape, TypeOK, Generation
<1>3. op.on \in Generation /\ op.on <= made
  <2>1. op.on \in {current, made - 1, made}
    BY DEF IInv, Shape
  <2> QED
    BY <1>2, <2>1, BoundAssumption DEF Generation, IInv, TypeOK
<1>4. unit' \in [Instance -> Unit] /\ SameStages
  BY <1>1, CancelledUnits DEF IInv
<1>5. lifecycle' \in [Generation -> Lifecycle] /\ StopOver
  BY <1>1, <1>3, <1>4, RetiredLifecycle DEF IInv
<1>6. /\ all = Composed(current) \ lifecycle'[current].retired /\ all \subseteq Plugin
      /\ Retired[current].dirty \in BOOLEAN
  BY <1>1, <1>2, <1>5 DEF Composed, Lifecycle
<1> HIDE DEF all
<1>7. /\ op'.kind = "change" /\ op'.stage = "rest" /\ op'.step = "quiesce" /\ op'.on = current
      /\ op'.selected = all /\ op'.todo = all /\ op'.changed = op.changed /\ op'.target = op.target
      /\ op' \in Operation
  BY <1>1, <1>2, <1>6 DEF StopOf, IInv, TypeOK, Operation, Stopping, Changing
<1>8. TypeOK'
  BY <1>4, <1>5, <1>7 DEF IInv, TypeOK
<1>9. Changing' /\ ~ Available' /\ lifecycle'[current].cancelled
  BY <1>2, <1>5, <1>7 DEF Changing, Available, StopOver
<1>10. Budgeted' /\ Shape'
  BY <1>2, <1>7, <1>9 DEF IInv, Budgeted, Shape, Stopping, Changing
<1>11. Known' /\ Registered' /\ OneInstance'
  BY <1>3, <1>5, StopOverKeeps
<1>12. Composed(current)' = Composed(current)
  BY <1>2, <1>5 DEF StopOver, SameComposition, Composed
<1>13. Recipes'
  <2>1. made - 1 \in Generation /\ made \in Generation
    BY <1>2, BoundAssumption DEF Generation, IInv, TypeOK
  <2>2. \A g \in {made - 1, made, current} : lifecycle'[g].entries = lifecycle[g].entries
    BY <1>2, <1>5, <2>1 DEF StopOver, SameComposition
  <2>3. op'.target \ op'.changed = Composed(current)' \ op'.changed
    BY <1>7, <1>12 DEF IInv, Recipes, Changing
  <2>4. ASSUME NEW g \in {made - 1, made}, NEW p \in Plugin
        PROVE  IF p \in op'.changed THEN lifecycle'[g].entries[p] \in {0, g}
               ELSE lifecycle'[g].entries[p] = lifecycle'[current].entries[p]
    BY <1>7, <2>2 DEF IInv, Recipes
  <2> QED
    BY <2>3, <2>4 DEF Recipes
<1>14. Phase'
  <2>1. Composed(op.on)' = Composed(current)'
    BY <1>7 DEF Composed
  <2> QED
    BY <1>6, <1>7, <1>12, <2>1 DEF Phase, Starting, Stopping
<1>15. Serving' /\ CleanStops' /\ Owned'
  BY <1>7, <1>9 DEF Serving, CleanStops, Owned
<1>16. RegisteredRun'
  <2> SUFFICES ASSUME NEW g \in {current} \ {0},
                      NEW p \in lifecycle'[g].entered \ lifecycle'[g].retired
               PROVE  unit'[<<p, lifecycle'[g].entries[p]>>].stage \in Live
    BY <1>7 DEF RegisteredRun, Member
  <2> QED
    BY <1>3, <1>5, StopOverKeeps
<1> QED
  BY <1>8, <1>10, <1>11, <1>13, <1>14, <1>15, <1>16 DEF IInv

LEMMA ReleasedStep ==
  ASSUME IInv, Released
  PROVE  IInv'
<1>1. /\ op.step = "release" /\ op.todo = {} /\ UNCHANGED <<current, made, request, left>>
  BY DEF Released
<1>2. op.kind \in {"initialize", "change", "shutdown"} /\ (op.kind = "change" => Changing)
  BY <1>1, AtGeneration DEF IInv, TypeOK, Operation, Stopping
<1>3. op.stage \in {"old", "candidate", "recovery"} => Changing
  BY <1>2 DEF IInv, Shape
<1>4. CASE Replaceable \/ Recoverable
  <2>1. IF op.stage = "old" THEN BeginStart(made - 1, "candidate") ELSE BeginStart(made, "recovery")
    BY <1>4 DEF Released, Replaceable, Recoverable
  <2>2. op.stage \in {"old", "candidate"} /\ ~ op.dirty
    BY <1>4 DEF Replaceable, Recoverable
  <2> QED
    BY <1>1, <1>3, <2>1, <2>2, NextStart
<1>5. CASE op.stage \in {"first", "rest"}
  BY <1>1, <1>5, EndStep DEF Released, Replaceable, Recoverable
<1>6. CASE ~ Replaceable /\ ~ Recoverable /\ op.stage \notin {"first", "rest"}
  <2>1. op.stage \in {"old", "candidate", "recovery"}
    BY <1>6 DEF IInv, TypeOK, Operation
  <2> QED
    BY <1>1, <1>3, <1>6, <2>1, GoDownStep DEF Released
<1> QED
  BY <1>4, <1>5, <1>6

(* Requests and the work of the plugins. *)
LEMMA RequestsStep ==
  ASSUME IInv, NEW r \in Request, RequestStep(r) \/ \E p \in Plugin : Dispatch(r, p)
  PROVE  IInv'
<1>1. CASE RequestStep(r)
  <2>1. TypeOK'
    BY <1>1 DEF RequestStep, Admit, EndStream, Respond, IInv, TypeOK
  <2>2. UNCHANGED <<lifecycle, unit, current, made, op, left>>
    BY <1>1 DEF RequestStep, Admit, EndStream, Respond
  <2> QED
    BY <2>1, <2>2, QuietStep
<1>2. CASE \E p \in Plugin : Dispatch(r, p)
  <2>1. PICK p \in Plugin : Dispatch(r, p)
    BY <1>2
  <2>2. TypeOK'
    BY <2>1 DEF Dispatch, Spend, IInv, TypeOK, Budget
  <2>3. UNCHANGED <<lifecycle, unit, current, made, op>> /\ left'.changes = left.changes
    BY <2>1 DEF Dispatch, Spend, IInv, TypeOK, Budget
  <2> QED
    BY <2>2, <2>3, QuietStep
<1> QED
  BY <1>1, <1>2

LEMMA UnitWorked ==
  ASSUME NEW x \in Unit, NEW failed \in BOOLEAN
  PROVE  [x EXCEPT !.busy = FALSE, !.failed = failed] \in Unit
<1>1. [x EXCEPT !.busy = FALSE] \in Unit
  BY DEF Unit
<1> QED
  BY <1>1 DEF Unit

LEMMA WorkStep ==
  ASSUME IInv, Work
  PROVE  IInv'
<1>1. PICK u \in Instance : BeginWork(u) \/ \E fails \in BOOLEAN : EndWork(u, fails)
  BY DEF Work
<1>2. CASE BeginWork(u)
  <2>1. TypeOK'
    <3>1. unit' \in [Instance -> Unit]
      <4>1. \A x \in Unit : [x EXCEPT !.busy = TRUE] \in Unit
        BY DEF Unit
      <4> QED
        BY <1>2, <4>1 DEF BeginWork, IInv, TypeOK
    <3>2. left' \in Budget
      BY <1>2 DEF BeginWork, Spend, IInv, TypeOK, Budget
    <3> QED
      BY <1>2, <3>1, <3>2 DEF BeginWork, IInv, TypeOK
  <2>2. /\ UNCHANGED <<lifecycle, current, made, op>> /\ left'.changes = left.changes
        /\ \A v \in Instance : unit'[v].stage = unit[v].stage /\ unit'[v].stops = unit[v].stops
    BY <1>2 DEF BeginWork, Spend, IInv, TypeOK, Budget, Unit
  <2> QED
    BY <2>1, <2>2, QuietStep
<1>3. CASE \E fails \in BOOLEAN : EndWork(u, fails)
  <2>1. PICK fails \in BOOLEAN : EndWork(u, fails)
    BY <1>3
  <2>2. left' \in Budget /\ left'.changes = left.changes
    BY <2>1 DEF EndWork, Fault, Spend, IInv, TypeOK, Budget
  <2>3. unit' = [unit EXCEPT ![u].busy = FALSE, ![u].failed = unit[u].failed \/ fails]
    BY <2>1 DEF EndWork
  <2>4. unit' \in [Instance -> Unit]
    <3>1. unit[u].failed \/ fails \in BOOLEAN
      OBVIOUS
    <3>2. [unit[u] EXCEPT !.busy = FALSE, !.failed = unit[u].failed \/ fails] \in Unit
      BY <3>1, UnitWorked DEF IInv, TypeOK
    <3>3. unit' = [unit EXCEPT ![u] = [unit[u] EXCEPT !.busy = FALSE,
                                                      !.failed = unit[u].failed \/ fails]]
      <4>1. unit = [v \in Instance |-> unit[v]]
        BY DEF IInv, TypeOK
      <4> QED
        BY <2>3, <4>1
    <3> QED
      BY <3>2, <3>3 DEF IInv, TypeOK
  <2>5. TypeOK' /\ UNCHANGED <<lifecycle, current, made, op>>
    BY <2>1, <2>2, <2>4 DEF EndWork, IInv, TypeOK
  <2>6. \A v \in Instance : unit'[v].stage = unit[v].stage /\ unit'[v].stops = unit[v].stops
    BY <2>3 DEF IInv, TypeOK, Unit
  <2> QED
    BY <2>2, <2>5, <2>6, QuietStep
<1> QED
  BY <1>1, <1>2, <1>3

LEMMA InitStep ==
  ASSUME Init
  PROVE  IInv
<1>1. PICK plugins \in Selections :
        /\ lifecycle = [g \in Generation |-> IF g = 1
             THEN [NoLifecycle EXCEPT !.entries = [p \in Plugin |-> IF p \in plugins THEN 1 ELSE 0]]
             ELSE NoLifecycle]
        /\ op = [NoOperation EXCEPT !.kind = "initialize", !.step = "open", !.on = 1,
                                    !.todo = plugins]
  BY DEF Init
<1>2. plugins \subseteq Plugin /\ 1 \in Generation /\ left \in Budget /\ left.changes <= MaxChanges
      /\ MaxChanges \in Nat /\ left.changes \in Nat
  BY <1>1, SelectionAssumption, BoundAssumption DEF Init, Generation, Budget
<1>3. /\ op.kind = "initialize" /\ op.step = "open" /\ op.on = 1 /\ op.todo = plugins
      /\ op.stage = "first" /\ op.selected = {} /\ op \in Operation
  BY <1>1, <1>2 DEF NoOperation, Operation, Starting
<1>4. /\ lifecycle \in [Generation -> Lifecycle]
      /\ \A g \in Generation : Unstarted(g)
      /\ \A g \in Generation, p \in Plugin :
           lifecycle[g].entries[p] = IF g = 1 /\ p \in plugins THEN 1 ELSE 0
  <2> DEFINE first == [p \in Plugin |-> IF p \in plugins THEN 1 ELSE 0]
             none == [p \in Plugin |-> 0]
  <2>1. /\ first \in [Plugin -> {0} \cup Generation] /\ none \in [Plugin -> {0} \cup Generation]
        /\ \A p \in Plugin : first[p] = (IF p \in plugins THEN 1 ELSE 0) /\ none[p] = 0
    BY <1>2
  <2>a. \A g \in Generation :
          lifecycle[g] = IF g = 1 THEN [NoLifecycle EXCEPT !.entries = first] ELSE NoLifecycle
    BY <1>1
  <2>b. NoLifecycle = [entries |-> none, cancelled |-> FALSE, entered |-> {}, retired |-> {},
                       dirty |-> FALSE]
    BY DEF NoLifecycle
  <2> HIDE DEF first, none
  <2>c. [NoLifecycle EXCEPT !.entries = first] =
          [entries |-> first, cancelled |-> FALSE, entered |-> {}, retired |-> {}, dirty |-> FALSE]
    BY <2>b
  <2>3. lifecycle = [g \in Generation |-> lifecycle[g]]
    BY <1>1
  <2>4. ASSUME NEW g \in Generation
        PROVE  /\ lifecycle[g] \in Lifecycle /\ Unstarted(g)
               /\ lifecycle[g].entries = IF g = 1 THEN first ELSE none
    <3>1. CASE g = 1
      <4>1. lifecycle[g] = [entries |-> first, cancelled |-> FALSE, entered |-> {}, retired |-> {},
                            dirty |-> FALSE]
        BY <2>a, <2>c, <3>1
      <4> QED
        BY <2>1, <3>1, <4>1 DEF Lifecycle, Unstarted
    <3>2. CASE g # 1
      <4>1. lifecycle[g] = [entries |-> none, cancelled |-> FALSE, entered |-> {}, retired |-> {},
                            dirty |-> FALSE]
        BY <2>a, <2>b, <3>2
      <4> QED
        BY <2>1, <3>2, <4>1 DEF Lifecycle, Unstarted
    <3> QED
      BY <3>1, <3>2
  <2> QED
    BY <2>1, <2>3, <2>4
<1>5. \A u \in Instance : unit[u].stage = "absent" /\ unit[u].stops = 0
  BY DEF Init, NoUnit
<1>6. unit \in [Instance -> Unit]
  BY DEF Init, NoUnit, Unit
<1>7. TypeOK
  <2>1. request \in [Request -> [step : {"none", "queued", "handling", "streaming"},
                                generation : {0} \cup Generation, plugin : Plugin]]
    <3>1. (CHOOSE p \in Plugin : TRUE) \in Plugin
      BY DependsAssumption
    <3> QED
      BY <3>1 DEF Init
  <2> QED
    BY <1>2, <1>3, <1>4, <1>6, <2>1 DEF Init, TypeOK
<1>8. Composed(1) = plugins /\ \A g \in Generation \ {1} : Composed(g) = {}
  BY <1>2, <1>4 DEF Composed
<1>9. Budgeted /\ Shape /\ ~ Changing /\ ~ Available
  BY <1>2, <1>3 DEF Init, Budgeted, Shape, Changing, Available
<1>10. Known /\ Registered
  <2>1. \A g \in Generation : g > made => g # 1
    BY BoundAssumption DEF Init, Generation
  <2>2. \A g \in Generation, p \in Plugin : lifecycle[g].entries[p] <= g
    BY <1>4, BoundAssumption DEF Generation
  <2>3. Known
    BY <1>4, <1>8, <2>1, <2>2 DEF Known, Unstarted
  <2> QED
    BY <1>5, <2>3 DEF Registered, Instance
<1>11. Recipes /\ Serving /\ CleanStops
  BY <1>3, <1>9 DEF Recipes, Serving, CleanStops
<1>12. Phase
  BY <1>2, <1>3, <1>4, <1>8, <1>9 DEF Phase, Unstarted, Starting, Stopping
<1>13. RegisteredRun
  BY <1>2, <1>3, <1>4 DEF Init, RegisteredRun, Unstarted
<1>14. Owned /\ OneInstance
  BY <1>5 DEF Owned, OneInstance, Instance, Held, Live
<1> QED
  BY <1>7, <1>9, <1>10, <1>11, <1>12, <1>13, <1>14 DEF IInv

LEMMA InductiveStep ==
  ASSUME IInv, [Next]_vars
  PROVE  IInv'
<1>1. CASE UNCHANGED vars
  <2>1. TypeOK'
    BY <1>1 DEF IInv, TypeOK, vars
  <2> QED
    BY <1>1, <2>1, QuietStep DEF vars
<1>2. CASE StopStep
  BY <1>2, AwaitRequestsStep, BeginReleaseStep, ReleasedStep, DrainStep, ReleaseStep DEF StopStep
<1>3. CASE StartStep
  BY <1>3, StartMoves, PublishStep, StartFailsStep, InterruptedStep, EnterStep, InitializedStep,
     MakeReadyStep DEF StartStep
<1>4. CASE Call
  BY <1>4, RefuseStep, CommitStep, ShutdownStep, AbandonStep, BeginChangeStep DEF Call
<1>5. CASE Work
  BY <1>5, WorkStep
<1>6. CASE \E r \in Request : RequestStep(r) \/ \E p \in Plugin : Dispatch(r, p)
  BY <1>6, RequestsStep
<1> QED
  BY <1>1, <1>2, <1>3, <1>4, <1>5, <1>6 DEF Next

LEMMA Invariance == Spec => []IInv
<1>1. Init => IInv
  BY InitStep
<1>2. IInv /\ [Next]_vars => IInv'
  BY InductiveStep
<1> QED
  BY <1>1, <1>2, PTL DEF Spec

(* For any plugins, dependencies, changes, failures and requests every variable *)
(* keeps its type: in particular every instance's stop hooks run at most once.  *)
THEOREM TypeCorrect == Spec => []TypeOK
<1>1. IInv => TypeOK
  BY DEF IInv
<1> QED
  BY <1>1, Invariance, PTL

(* No two instances of a plugin may ever hold its resources at once, whatever  *)
(* the dependencies, however many changes follow one another and fail (live.rs *)
(* stops the affected part before the candidate is entered, and the candidate  *)
(* before the old composition is entered again).                               *)
THEOREM OneInstanceAtATime == Spec => []OneInstance
<1>1. IInv => OneInstance
  BY DEF IInv
<1> QED
  BY <1>1, Invariance, PTL
=============================================================================
