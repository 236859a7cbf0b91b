------------------------ MODULE ComponentInstallProofs ------------------------
(***************************************************************************)
(* What holds of ComponentInstall for any hosts, requests, versions, kinds *)
(* of failure and settings.                                                *)
(*                                                                         *)
(* The properties that relate the three stores hold where one host manages *)
(* the plugin (OneManager, or Alone(h) in the property itself): with two,  *)
(* install_contended shows how they come apart.  The invariant says        *)
(*   - Schema: what an action or a request is about to load fits the       *)
(*     applied migrations.  They are never taken back, so this survives    *)
(*     whatever else runs in between;                                      *)
(*   - Jobs, Asks: what the step of an action or a request says about what *)
(*     it has read;                                                        *)
(*   - Agree: at each step of the managing host's action, unless it has    *)
(*     left trouble behind, which version the catalog selects, which one   *)
(*     is active, which one the routes are bound to and which one a        *)
(*     compensation would go back to.                                      *)
(***************************************************************************)
EXTENDS ComponentInstall, TLAPS

(* The schema has the migrations of a version. *)
Covers(d) == IsPrefix(Migrations[d], applied)

(* What is loaded next fits the schema, on every path that activates. *)
Schema ==
  /\ revision # None => Covers(revision)
  /\ \A h \in Host :
       /\ pc[h] = "activate" => Covers(job[h].target)
       /\ pc[h] = "reactivate" => Covers(job[h].previous)

(* What the step of an action says about what it works with. *)
JobSane(h) ==
  /\ pc[h] = "idle" <=> job[h].kind = "none"
  /\ pc[h] \in {"expect", "resources", "activate"} => job[h].kind \in Kind \ Removal
  /\ pc[h] = "withdraw" => job[h].kind \in Removal /\ job[h].previous # None
  /\ job[h].kind \in Kind \ Removal => job[h].target \in Digest
  /\ job[h].kind \notin Kind \ Removal => job[h].target = None
  /\ pc[h] \in {"restore", "rebind", "reactivate"} => job[h].previous \in Digest
  /\ /\ pc[h] \in {"previous", "resources", "activate", "withdraw", "commit"}
     /\ job[h].seen = "current"
     => installed # None
  /\ job[h].kind \in Removal => job[h].seen \in {"current", "stale"}
  /\ job[h].kind = "boot" => pc[h] \in {"restore", "rebind", "reactivate"}
  /\ up[h] = "booting" <=> job[h].kind = "boot"
  /\ up[h] = "down" => pc[h] = "idle"
Jobs == \A h \in Host : JobSane(h)

(* A request is authorised for a version, and runs while it is active. *)
AskSane(r) ==
  /\ req[r] # "idle" => ask[r].digest \in Digest /\ up[HostOf[r]] = "up"
  /\ req[r] \in {"resources", "reload"} => ask[r].stored \in Digest
  /\ req[r] = "run" => revision = ask[r].digest
Asks == \A r \in Request : AskSane(r)

(* Where the stores stand at each step of the action of the only manager. *)
Standing(m) ==
  /\ pc[m] \in {"idle", "expect", "previous", "resources", "activate", "withdraw"}
       => revision = Selected
  /\ pc[m] \in {"resources", "activate", "withdraw", "commit", "recover", "restore", "rebind",
                "reactivate"} => job[m].previous = Selected
  /\ pc[m] \in {"commit", "bind"} => revision = job[m].target
  /\ pc[m] = "bind" => Selected = job[m].target
  /\ pc[m] \in {"recover", "restore", "rebind", "reactivate"}
       => revision \in {Selected, job[m].target}
  /\ job[m].kind = "boot" => revision = Selected
  /\ up[m] = "up" /\ pc[m] # "bind" => bound[m] = Selected

(* What holds of it even if it has left trouble behind. *)
Manager(m) ==
  /\ up[m] # "up" => slot[m] = None /\ bound[m] = None
  /\ job[m].kind = "boot" => job[m].previous = Selected
  /\ pc[m] = "reactivate" => Follows(job[m].previous)
  /\ ~trouble[m] => Standing(m)

Agree ==
  \A m \in Host : Alone(m) =>
    /\ \A g \in Host \ {m} : pc[g] = "idle" /\ up[g] = "up" /\ ~trouble[g]
    /\ Manager(m)

IInv == TypeOK /\ Schema /\ Jobs /\ Asks /\ Agree

-----------------------------------------------------------------------------
(* What the assumptions say of the setting. *)
LEMMA DigestFacts ==
  ASSUME TypeOK
  PROVE  /\ None \notin Digest /\ HostOf \in [Request -> Host] /\ DOMAIN Migrations = Digest
         /\ \A d \in Digest : Migrations[d] \in Seq(STRING) /\ Migrations[d] \in Range(Migrations)
         /\ applied \in Seq(STRING)
         /\ setting.faults \in Nat
<1>1. /\ HostOf \in [Request -> Host] /\ DOMAIN Migrations = Digest /\ setting.faults \in Nat
      /\ \A d \in Digest : Migrations[d] \in Seq(STRING)
  BY SettingsAssumption DEF TypeOK, HostOf, Migrations
<1>2. \A d \in Digest : Migrations[d] \in Range(Migrations)
  BY <1>1 DEF Range
<1>3. applied \in Seq(STRING)
  <2>1. Range(Migrations) \subseteq Seq(STRING)
    BY <1>1 DEF Range
  <2>2. <<>> \in Seq(STRING)
    OBVIOUS
  <2> QED  BY <2>1, <2>2 DEF TypeOK
<1> QED  BY <1>1, <1>2, <1>3, NoneAssumption

(* Prefixes of lists of migrations are ordered. *)
LEMMA PrefixReflexive ==
  ASSUME NEW s \in Seq(STRING)
  PROVE  IsPrefix(s, s)
  BY DEF IsPrefix

LEMMA PrefixTransitive ==
  ASSUME NEW s \in Seq(STRING), NEW t \in Seq(STRING), NEW u \in Seq(STRING),
         IsPrefix(s, t), IsPrefix(t, u)
  PROVE  IsPrefix(s, u)
<1>1. Len(s) <= Len(u) /\ \A i \in 1 .. Len(s) : s[i] = t[i] /\ t[i] = u[i]
  <2>1. Len(s) <= Len(t) /\ Len(t) <= Len(u) /\ Len(s) \in Nat /\ Len(t) \in Nat /\ Len(u) \in Nat
    BY DEF IsPrefix
  <2>2. ASSUME NEW i \in 1 .. Len(s)
        PROVE  s[i] = t[i] /\ t[i] = u[i]
    <3>1. SubSeq(s, 1, Len(s))[i] = s[i] /\ SubSeq(t, 1, Len(s))[i] = t[i]
      BY <2>1
    <3>2. SubSeq(t, 1, Len(t))[i] = t[i] /\ SubSeq(u, 1, Len(t))[i] = u[i]
      BY <2>1
    <3> QED  BY <3>1, <3>2 DEF IsPrefix
  <2> QED  BY <2>1, <2>2
<1>2. SubSeq(s, 1, Len(s)) = SubSeq(u, 1, Len(s))
  BY <1>1
<1> QED  BY <1>1, <1>2 DEF IsPrefix

(* There is an older version or none. *)
LEMMA OlderType ==
  ASSUME NEW d \in Digest
  PROVE  Older(d) \in Revision
<1>1. \E i \in DOMAIN Versions : Versions[i] = d
  BY DEF Digest, ToSet
<1>2. PICK i \in DOMAIN Versions : i = CHOOSE j \in DOMAIN Versions : Versions[j] = d
  BY <1>1
<1>3. i # 1 => Versions[i - 1] \in Digest
  BY VersionAssumption
<1>4. Older(d) = IF i = 1 THEN None ELSE Versions[i - 1]
  BY <1>2 DEF Older
<1> QED  BY <1>3, <1>4 DEF Revision

(***************************************************************************)
(* What the step of one host's action leaves alone.                        *)
(***************************************************************************)
Managing(h) ==
  /\ UNCHANGED <<setting, installed, req, ask>>
  /\ \A g \in Host \ {h} :
       /\ pc'[g] = pc[g] /\ job'[g] = job[g] /\ trouble'[g] = trouble[g]
       /\ up'[g] = up[g] /\ bound'[g] = bound[g] /\ slot'[g] = slot[g]
  /\ IsPrefix(applied, applied')
  /\ \/ revision' = revision
     \/ Quiet /\ revision' = None
     \/ Quiet /\ revision' \in Digest /\ IsPrefix(Migrations[revision'], applied')
  /\ up[h] = "up" => up'[h] = "up"
  /\ pc[h] # "idle" \/ up[h] # "up" \/ May[h] # {}

(* The setting is the same throughout. *)
LEMMA SettingKept ==
  ASSUME UNCHANGED setting
  PROVE  /\ Migrations' = Migrations /\ HostOf' = HostOf /\ May' = May
         /\ \A m \in Host : Alone(m)' <=> Alone(m)
  BY DEF Migrations, HostOf, May, Alone

LEMMA ListType ==
  ASSUME TypeOK, NEW s \in Range(Migrations) \cup {<<>>}
  PROVE  s \in Seq(STRING)
<1>1. Range(Migrations) \subseteq Seq(STRING)
  BY DigestFacts DEF Range
<1>2. <<>> \in Seq(STRING)
  OBVIOUS
<1> QED  BY <1>1, <1>2

(* The schema only grows, so whatever it covered it still covers. *)
LEMMA CoverStays ==
  ASSUME TypeOK, TypeOK', UNCHANGED setting, IsPrefix(applied, applied'),
         NEW d \in Digest, Covers(d)
  PROVE  IsPrefix(Migrations[d], applied')
<1>1. applied' \in Seq(STRING)
  <2>1. applied' \in Range(Migrations) \cup {<<>>}
    BY SettingKept DEF TypeOK
  <2> QED  BY <2>1, ListType
<1> QED  BY <1>1, DigestFacts, PrefixTransitive DEF Covers

(* Such a step keeps the invariant if it keeps the parts about its host. *)
LEMMA ManagingStep ==
  ASSUME IInv, NEW h \in Host, Managing(h), TypeOK', JobSane(h)',
         pc'[h] = "activate" => IsPrefix(Migrations[job'[h].target], applied'),
         pc'[h] = "reactivate" => IsPrefix(Migrations[job'[h].previous], applied'),
         Alone(h) => Manager(h)'
  PROVE  IInv'
<1>1. /\ TypeOK /\ UNCHANGED setting /\ Migrations' = Migrations /\ HostOf' = HostOf
      /\ May' = May /\ \A m \in Host : Alone(m)' <=> Alone(m)
  BY SettingKept DEF Managing, IInv
<1>2. Schema'
  <2>1. revision' # None => Covers(revision)'
    BY <1>1, CoverStays DEF Managing, IInv, TypeOK, Schema, Revision, Covers
  <2>2. ASSUME NEW g \in Host \ {h}
        PROVE  /\ pc'[g] = "activate" => Covers(job[g].target)'
               /\ pc'[g] = "reactivate" => Covers(job[g].previous)'
    <3>1. pc[g] = "activate" => job[g].target \in Digest
      BY DEF IInv, Jobs, JobSane
    <3>2. pc[g] = "reactivate" => job[g].previous \in Digest
      BY DEF IInv, Jobs, JobSane
    <3> QED  BY <1>1, <3>1, <3>2, CoverStays DEF Managing, IInv, Schema, Covers
  <2> QED  BY <1>1, <2>1, <2>2 DEF Schema, Covers
<1>3. Jobs'
  BY DEF Managing, IInv, Jobs, JobSane
<1>4. Asks'
  <2>1. ASSUME NEW r \in Request
        PROVE  AskSane(r)'
    <3>1. HostOf[r] \in Host
      BY <1>1, DigestFacts
    <3>2. req[r] # "idle" => up'[HostOf[r]] = "up"
      BY <3>1 DEF Managing, IInv, Asks, AskSane
    <3>3. req[r] = "run" => revision' = revision
      BY DEF Managing, Quiet
    <3> QED  BY <1>1, <3>2, <3>3 DEF Managing, IInv, Asks, AskSane
  <2> QED  BY <2>1 DEF Asks
<1>5. Agree'
  <2>1. ASSUME NEW m \in Host, Alone(m)
        PROVE  m = h
    <3> SUFFICES ASSUME m # h PROVE FALSE
      OBVIOUS
    <3>1. pc[h] = "idle" /\ up[h] = "up"
      BY <2>1 DEF IInv, Agree
    <3>2. May[h] = {}
      BY <2>1 DEF Alone
    <3> QED  BY <3>1, <3>2 DEF Managing
  <2>2. Alone(h) => \A g \in Host \ {h} : pc[g] = "idle" /\ up[g] = "up" /\ ~trouble[g]
    BY DEF IInv, Agree
  <2> QED  BY <1>1, <2>1, <2>2 DEF Agree, Managing
<1> QED  BY <1>2, <1>3, <1>4, <1>5 DEF IInv

(***************************************************************************)
(* The steps of a request only move the request, the slots and the schema. *)
(***************************************************************************)
Asking(r) ==
  /\ UNCHANGED <<setting, installed, revision, up, bound, pc, job, trouble>>
  /\ \A q \in Request \ {r} : req'[q] = req[q] /\ ask'[q] = ask[q]
  /\ IsPrefix(applied, applied')
  /\ \A h \in Host : up[h] # "up" => slot'[h] = slot[h]

(* Such a step keeps the invariant if it keeps what is said of the request. *)
LEMMA AskingStep ==
  ASSUME IInv, NEW r \in Request, Asking(r), TypeOK', AskSane(r)'
  PROVE  IInv'
<1>1. /\ TypeOK /\ UNCHANGED setting /\ Migrations' = Migrations /\ HostOf' = HostOf
      /\ \A m \in Host : Alone(m)' <=> Alone(m)
  BY SettingKept DEF Asking, IInv
<1>2. Schema'
  <2>1. \A h \in Host :
         /\ pc[h] = "activate" => job[h].target \in Digest
         /\ pc[h] = "reactivate" => job[h].previous \in Digest
    BY DEF IInv, Jobs, JobSane
  <2>2. \A d \in Digest : Covers(d) => IsPrefix(Migrations[d], applied')
    BY <1>1, CoverStays DEF Asking
  <2>3. revision # None => revision \in Digest /\ Covers(revision)
    BY DEF IInv, TypeOK, Revision, Schema
  <2>4. UNCHANGED <<revision, pc, job>>
    BY DEF Asking
  <2>5. \A h \in Host :
         /\ pc[h] = "activate" => Covers(job[h].target)
         /\ pc[h] = "reactivate" => Covers(job[h].previous)
    BY DEF IInv, Schema
  <2>6. (revision # None => Covers(revision))'
    BY <1>1, <2>2, <2>3, <2>4 DEF Covers
  <2>7. ASSUME NEW h \in Host
        PROVE  (/\ pc[h] = "activate" => Covers(job[h].target)
                /\ pc[h] = "reactivate" => Covers(job[h].previous))'
    BY <1>1, <2>1, <2>2, <2>4, <2>5 DEF Covers
  <2> QED  BY <2>6, <2>7 DEF Schema
<1>3. Jobs'
  BY DEF Asking, IInv, Jobs, JobSane
<1>4. Asks'
  BY <1>1 DEF Asking, IInv, Asks, AskSane
<1>5. Agree'
  BY <1>1 DEF Asking, IInv, Agree, Manager, Standing, Selected, Enabled, Follows
<1> QED  BY <1>2, <1>3, <1>4, <1>5 DEF IInv

(* The types of a request's variables, as in TypeOK. *)
RequestSteps == {"idle", "ready", "resources", "reload", "handle", "run", "unload", "retry"}
Query == [digest : Revision, stored : Revision, retried : BOOLEAN]

(* A request moves on; it may extend the schema or touch a slot. *)
LEMMA CarryStep ==
  ASSUME IInv, NEW r \in Request, NEW p \in RequestSteps, NEW a \in Query, Carry(r, p, a),
         UNCHANGED <<setting, installed, revision, up, bound, pc, job, trouble, overtaken>>,
         applied' = applied \/ \E d \in Digest : Fits(d) /\ Migrate(d),
         slot' \in [Host -> Revision], broken' \subseteq Host, faults' \in 0 .. setting.faults,
         \A h \in Host : up[h] # "up" => slot'[h] = slot[h],
         p # "idle" => a.digest \in Digest /\ up[HostOf[r]] = "up",
         p \in {"resources", "reload"} => a.stored \in Digest,
         p = "run" => revision = a.digest
  PROVE  IInv'
<1>1. /\ Migrations' = Migrations /\ HostOf' = HostOf
  BY SettingKept
<1>2. NoAsk \in Query
  BY DEF NoAsk, Query, Revision
<1>3. /\ req' = [req EXCEPT ![r] = p] /\ req \in [Request -> RequestSteps]
      /\ ask' = [ask EXCEPT ![r] = IF p = "idle" THEN NoAsk ELSE a] /\ ask \in [Request -> Query]
  BY DEF Carry, IInv, TypeOK, RequestSteps, Query
<1>4. /\ req'[r] = p /\ (p # "idle" => ask'[r] = a)
      /\ \A q \in Request \ {r} : req'[q] = req[q] /\ ask'[q] = ask[q]
      /\ req' \in [Request -> RequestSteps] /\ ask' \in [Request -> Query]
  BY <1>2, <1>3
<1>5. applied' \in Range(Migrations) \cup {<<>>} /\ IsPrefix(applied, applied')
  <2>1. CASE applied' = applied
    BY <2>1, DigestFacts, PrefixReflexive DEF IInv, TypeOK
  <2>2. CASE \E d \in Digest : Fits(d) /\ Migrate(d)
    BY <2>2, DigestFacts DEF IInv, Fits, Migrate
  <2> QED  BY <2>1, <2>2
<1>6. TypeOK'
  BY <1>1, <1>4, <1>5 DEF IInv, TypeOK, RequestSteps, Query
<1>7. AskSane(r)'
  BY <1>1, <1>4 DEF AskSane
<1>8. Asking(r)
  BY <1>4, <1>5 DEF Asking
<1> QED  BY <1>6, <1>7, <1>8, AskingStep

(* What is known of a request that is under way. *)
LEMMA AskFacts ==
  ASSUME IInv, NEW r \in Request
  PROVE  /\ ask[r] \in Query /\ HostOf[r] \in Host /\ req[r] \in RequestSteps
         /\ revision \in Revision /\ None \notin Digest
         /\ slot \in [Host -> Revision] /\ broken \subseteq Host
         /\ faults \in 0 .. setting.faults /\ setting.faults \in Nat
         /\ req[r] # "idle" => ask[r].digest \in Digest /\ up[HostOf[r]] = "up"
         /\ req[r] \in {"resources", "reload"} => ask[r].stored \in Digest
  BY DigestFacts DEF IInv, TypeOK, Query, RequestSteps, Asks, AskSane

-----------------------------------------------------------------------------
(* Requests, one lemma per action. *)
LEMMA AuthorizeStep ==
  ASSUME IInv, UNCHANGED setting, NEW r \in Request, Authorize(r)
  PROVE  IInv'
<1> DEFINE a == [NoAsk EXCEPT !.digest = installed.digest]
<1>1. installed.digest \in Digest
  BY DEF Authorize, Enabled, IInv, TypeOK, Installation
<1>2. a \in Query /\ a.digest = installed.digest /\ "ready" \in RequestSteps
  BY <1>1 DEF NoAsk, Query, Revision, RequestSteps
<1> QED  BY <1>1, <1>2, AskFacts, CarryStep DEF Authorize, KeepManagement, dbVars, hostVars

LEMMA EnsureSlotStep ==
  ASSUME IInv, UNCHANGED setting, NEW r \in Request, EnsureSlot(r)
  PROVE  IInv'
<1>1. CASE slot[HostOf[r]] # None
  <2>1. PICK p \in {"handle", "idle"} : Carry(r, p, ask[r])
    BY <1>1 DEF EnsureSlot, Move
  <2> QED  BY <2>1, AskFacts, CarryStep
              DEF EnsureSlot, KeepManagement, dbVars, hostVars, RequestSteps
<1>2. CASE slot[HostOf[r]] = None
  <2> DEFINE a == [ask[r] EXCEPT !.stored = revision]
             p == IF revision = None THEN "handle" ELSE "resources"
  <2>1. Carry(r, p, a) /\ req[r] = "ready"
    BY <1>2 DEF EnsureSlot
  <2>2. a \in Query /\ a.digest = ask[r].digest /\ a.stored = revision
    BY AskFacts DEF Query
  <2>3. /\ p \in RequestSteps /\ p # "run" /\ p # "reload"
        /\ p = "resources" => revision \in Digest
    BY AskFacts DEF RequestSteps, Revision
  <2> HIDE DEF a, p
  <2> QED  BY <2>1, <2>2, <2>3, AskFacts, CarryStep
              DEF EnsureSlot, KeepManagement, dbVars, hostVars
<1> QED  BY <1>1, <1>2

LEMMA BindStoredStep ==
  ASSUME IInv, UNCHANGED setting, NEW r \in Request, BindStored(r)
  PROVE  IInv'
<1>1. ask[r].stored \in Digest
  BY AskFacts DEF BindStored
<1>2. /\ applied' = applied \/ \E d \in Digest : Fits(d) /\ Migrate(d)
      /\ Move(r, "reload") \/ Move(r, "idle")
  BY <1>1 DEF BindStored
<1> QED  BY <1>1, <1>2, AskFacts, CarryStep
            DEF BindStored, Move, KeepManagement, hostVars, RequestSteps

LEMMA ReloadStep ==
  ASSUME IInv, UNCHANGED setting, NEW r \in Request, Reload(r)
  PROVE  IInv'
<1>1. /\ slot' \in [Host -> Revision] /\ broken' \subseteq Host
      /\ \A h \in Host : up[h] # "up" => slot'[h] = slot[h]
  BY AskFacts DEF Reload, slots, Load
<1>2. Move(r, "idle") \/ Move(r, "handle")
  BY DEF Reload
<1> QED  BY <1>1, <1>2, AskFacts, CarryStep
            DEF Reload, Move, KeepManagement, dbVars, RequestSteps

LEMMA HandleStep ==
  ASSUME IInv, UNCHANGED setting, NEW r \in Request, Handle(r)
  PROVE  IInv'
<1>1. PICK p \in {"idle", "unload", "retry", "run"} :
        Move(r, p) /\ (p = "run" => revision = ask[r].digest)
  BY DEF Handle, LosesInstance, Retried
<1> QED  BY <1>1, AskFacts, CarryStep
            DEF Handle, Move, KeepManagement, dbVars, hostVars, RequestSteps

LEMMA RespondStep ==
  ASSUME IInv, UNCHANGED setting, NEW r \in Request, Respond(r)
  PROVE  IInv'
  BY AskFacts, CarryStep DEF Respond, Move, KeepManagement, dbVars, hostVars, RequestSteps

LEMMA DisplacedStep ==
  ASSUME IInv, UNCHANGED setting, NEW r \in Request, Displaced(r)
  PROVE  IInv'
<1>1. PICK p \in {"unload", "retry"} : Move(r, p)
  BY DEF Displaced, LosesInstance, Retried
<1> QED  BY <1>1, AskFacts, CarryStep
            DEF Displaced, Move, KeepManagement, dbVars, hostVars, RequestSteps

LEMMA UnloadStep ==
  ASSUME IInv, UNCHANGED setting, NEW r \in Request, Unload(r)
  PROVE  IInv'
<1> DEFINE a == [ask[r] EXCEPT !.retried = TRUE]
<1>1. a \in Query /\ a.digest = ask[r].digest
  BY AskFacts DEF Query
<1>2. /\ slot' \in [Host -> Revision] /\ broken' \subseteq Host
      /\ \A h \in Host : up[h] # "up" => slot'[h] = slot[h]
  BY AskFacts DEF Unload, Load, Revision
<1>3. PICK p \in {"ready", "idle"} : Carry(r, p, a)
  BY DEF Unload
<1> QED  BY <1>1, <1>2, <1>3, AskFacts, CarryStep
            DEF Unload, KeepManagement, dbVars, RequestSteps

LEMMA RefuseRequestStep ==
  ASSUME IInv, UNCHANGED setting, NEW r \in Request, RefuseRequest(r)
  PROVE  IInv'
<1>1. PICK p \in {"idle", "unload"} : Move(r, p)
  BY DEF RefuseRequest
<1>2. faults' \in 0 .. setting.faults /\ req[r] # "idle"
  BY AskFacts DEF RefuseRequest, Happens, Spend
<1> QED  BY <1>1, <1>2, AskFacts, CarryStep
            DEF RefuseRequest, Move, KeepManagement, dbVars, hostVars, RequestSteps

LEMMA TrapStep ==
  ASSUME IInv, UNCHANGED setting, NEW r \in Request, Trap(r)
  PROVE  IInv'
<1>1. faults' \in 0 .. setting.faults /\ broken' \subseteq Host
  BY AskFacts DEF Trap, Happens, Spend
<1> QED  BY <1>1, AskFacts, CarryStep DEF Trap, Move, KeepManagement, dbVars, RequestSteps

-----------------------------------------------------------------------------
(* The types of a host's action, as in TypeOK. *)
Steps == {"idle", "expect", "previous", "resources", "activate", "withdraw", "commit", "bind",
          "recover", "restore", "rebind", "reactivate"}
Work == [kind : Kind \cup {"boot", "none"}, target : Revision, excluded : Revision,
         seen : {"none", "absent", "current", "stale"}, previous : Revision]

(* What is known of a host before a step of its action.                    *)
LEMMA HostFacts ==
  ASSUME IInv, NEW h \in Host
  PROVE  /\ TypeOK /\ JobSane(h) /\ None \notin Digest /\ job[h] \in Work /\ pc[h] \in Steps
         /\ faults \in 0 .. setting.faults /\ setting.faults \in Nat
         /\ Selected \in Revision
         /\ Alone(h) => Manager(h)
         /\ revision # None => revision \in Digest /\ Covers(revision)
         /\ pc[h] = "activate" => Covers(job[h].target)
         /\ pc[h] = "reactivate" => Covers(job[h].previous)
<1>1. Selected \in Revision
  BY DEF IInv, TypeOK, Selected, Enabled, Revision, Installation
<1> QED  BY <1>1, DigestFacts DEF IInv, TypeOK, Jobs, Agree, Schema, Work, Steps, Revision

LEMMA SelectedKept ==
  ASSUME UNCHANGED installed
  PROVE  Selected' = Selected
  BY DEF Selected, Enabled

LEMMA AppliedKept ==
  ASSUME TypeOK, UNCHANGED applied
  PROVE  IsPrefix(applied, applied')
  BY DigestFacts, PrefixReflexive

(* An action that returns: the host is at rest again, and where it leaves   *)
(* no trouble behind the stores must agree.                                 *)
LEMMA EndStep ==
  ASSUME IInv, NEW h \in Host, NEW t \in BOOLEAN, End(h, t), pc[h] # "idle",
         UNCHANGED <<setting, installed, req, ask>>,
         /\ bound' \in [Host -> Revision] /\ slot' \in [Host -> Revision]
         /\ broken' \subseteq Host
         /\ revision' \in Revision /\ applied' \in Range(Migrations) \cup {<<>>}
         /\ faults' \in 0 .. setting.faults,
         \/ up' = [up EXCEPT ![h] = "up"]
         \/ up' = [up EXCEPT ![h] = "down"] /\ up[h] = "booting",
         \A g \in Host \ {h} : bound'[g] = bound[g] /\ slot'[g] = slot[g],
         IsPrefix(applied, applied'),
         \/ revision' = revision
         \/ Quiet /\ revision' = None
         \/ Quiet /\ revision' \in Digest /\ IsPrefix(Migrations[revision'], applied'),
         Alone(h) => /\ up'[h] # "up" => slot'[h] = None /\ bound'[h] = None
                     /\ ~t => revision' = Selected /\ (up'[h] = "up" => bound'[h] = Selected)
  PROVE  IInv'
<1>1. /\ pc' = [pc EXCEPT ![h] = "idle"] /\ job' = [job EXCEPT ![h] = NoJob]
      /\ trouble' = [trouble EXCEPT ![h] = t] /\ overtaken' = [overtaken EXCEPT ![h] = FALSE]
  BY DEF End, Goto
<1>2. TypeOK'
  BY <1>1, SettingKept DEF IInv, TypeOK, NoJob, Revision
<1>3. /\ pc'[h] = "idle" /\ job'[h] = NoJob /\ trouble'[h] = t /\ up'[h] \in {"up", "down"}
      /\ up[h] = "up" => up'[h] = "up"
  BY <1>1 DEF IInv, TypeOK
<1>4. Managing(h)
  BY <1>1 DEF Managing, IInv, TypeOK
<1>5. JobSane(h)'
  BY <1>3 DEF JobSane, NoJob, Kind, Removal
<1>6. Alone(h) => Manager(h)'
  BY <1>3, SelectedKept DEF Manager, Standing, NoJob
<1> QED  BY <1>2, <1>3, <1>4, <1>5, <1>6, ManagingStep

(* The same when nothing but the action itself changes. *)
LEMMA ReturnStep ==
  ASSUME IInv, NEW h \in Host, pc[h] # "idle", up[h] = "up", NEW t \in BOOLEAN, Return(h, t),
         UNCHANGED <<setting, installed, revision, applied, up, bound, slot, broken, req, ask>>,
         faults' \in 0 .. setting.faults,
         Alone(h) /\ ~trouble[h] /\ ~t => revision = Selected /\ bound[h] = Selected
  PROVE  IInv'
<1> DEFINE left == trouble[h] \/ t
<1>1. left \in BOOLEAN /\ End(h, left)
  BY DEF Return, IInv, TypeOK
<1>2. up' = [up EXCEPT ![h] = "up"]
  BY DEF IInv, TypeOK
<1>3. IsPrefix(applied, applied')
  BY HostFacts, AppliedKept
<1>4. /\ bound' \in [Host -> Revision] /\ slot' \in [Host -> Revision] /\ broken' \subseteq Host
      /\ revision' \in Revision /\ applied' \in Range(Migrations) \cup {<<>>} /\ up'[h] = "up"
  BY DEF IInv, TypeOK
<1>5. Alone(h) /\ ~left => revision' = Selected /\ bound'[h] = Selected
  OBVIOUS
<1>6. /\ revision' = revision /\ \A g \in Host \ {h} : bound'[g] = bound[g] /\ slot'[g] = slot[g]
      /\ UNCHANGED <<setting, installed, req, ask>>
  OBVIOUS
<1>7. Alone(h) => /\ up'[h] # "up" => slot'[h] = None /\ bound'[h] = None
                  /\ ~left => revision' = Selected /\ (up'[h] = "up" => bound'[h] = Selected)
  BY <1>4, <1>5
<1> HIDE DEF left
<1> QED  BY <1>1, <1>2, <1>3, <1>4, <1>6, <1>7, EndStep

-----------------------------------------------------------------------------
(* Actions and restarts, one lemma per step. *)
LEMMA BeginStep ==
  ASSUME IInv, UNCHANGED setting, NEW h \in Host, Begin(h)
  PROVE  IInv'
<1>0. PICK kind \in May[h] \cap Kind : \E s \in Selection(kind) :
        /\ job' = [job EXCEPT ![h] = [kind |-> kind, target |-> s.target, excluded |-> s.excluded,
                                      seen |-> IF kind \in Removal THEN "current" ELSE "none",
                                      previous |-> None]]
        /\ pc' = [pc EXCEPT ![h] = IF kind \in Removal THEN "previous" ELSE "expect"]
  BY DEF Begin, Goto
<1>1. PICK s \in Selection(kind) :
        /\ job' = [job EXCEPT ![h] = [kind |-> kind, target |-> s.target, excluded |-> s.excluded,
                                      seen |-> IF kind \in Removal THEN "current" ELSE "none",
                                      previous |-> None]]
        /\ pc' = [pc EXCEPT ![h] = IF kind \in Removal THEN "previous" ELSE "expect"]
  BY <1>0
<1>2. /\ s.target \in Revision /\ s.excluded \in Revision
      /\ kind \notin Removal => s.target \in Digest
      /\ kind \in Removal => s.target = None /\ installed # None
  <2>1. installed # None => installed \in Installation
    BY DEF IInv, TypeOK
  <2>2. CASE kind = "install"
    BY <2>2 DEF Selection, Revision, Removal
  <2>3. CASE kind = "enable"
    BY <2>1, <2>3 DEF Selection, Revision, Removal, Installation
  <2>4. CASE kind = "rollback"
    BY <2>1, <2>4, OlderType, VersionAssumption
       DEF Selection, Revision, Removal, Installation
  <2>5. CASE kind = "upgrade"
    BY <2>5, VersionAssumption DEF Selection, Revision, Removal
  <2>6. CASE kind \in Removal
    BY <2>6 DEF Selection, Revision, Removal
  <2> QED  BY <2>2, <2>3, <2>4, <2>5, <2>6 DEF Kind, Removal
<1>3. UNCHANGED <<setting, installed, revision, applied, up, bound, slot, broken, req, ask,
                  trouble, overtaken, faults>>
  BY DEF Begin, KeepRequests, dbVars, hostVars
<1>4. TypeOK'
  BY <1>1, <1>2, <1>3, SettingKept DEF IInv, TypeOK, Revision
<1>5. Managing(h)
  BY <1>1, <1>3, HostFacts, AppliedKept DEF Managing, TypeOK
<1>6. JobSane(h)'
  BY <1>1, <1>2, <1>3, HostFacts DEF Begin, JobSane, TypeOK, Kind, Removal
<1>7. Alone(h) => Manager(h)'
  BY <1>1, <1>3, HostFacts, SelectedKept DEF Begin, Manager, Standing, TypeOK, Kind, Removal
<1>8. pc'[h] \in {"previous", "expect"}
  BY <1>1 DEF IInv, TypeOK
<1> QED  BY <1>4, <1>5, <1>6, <1>7, <1>8, ManagingStep

LEMMA ReadGenerationStep ==
  ASSUME IInv, UNCHANGED setting, NEW h \in Host, ReadGeneration(h)
  PROVE  IInv'
<1>1. /\ job' = [job EXCEPT ![h].seen = IF installed = None THEN "absent" ELSE "current"]
      /\ pc' = [pc EXCEPT ![h] = "previous"] /\ pc[h] = "expect"
      /\ UNCHANGED <<setting, installed, revision, applied, up, bound, slot, broken, req, ask,
                     trouble, overtaken, faults>>
  BY DEF ReadGeneration, Goto, KeepRequests, dbVars, hostVars
<1>2. TypeOK'
  <2>1. [job[h] EXCEPT !.seen = IF installed = None THEN "absent" ELSE "current"] \in Work
    BY HostFacts DEF Work
  <2>2. job' \in [Host -> Work]
    BY <1>1, <2>1 DEF IInv, TypeOK, Work
  <2> QED  BY <1>1, <2>2, SettingKept DEF IInv, TypeOK, Work
<1>3. Managing(h)
  BY <1>1, HostFacts, AppliedKept DEF Managing, TypeOK
<1>4. JobSane(h)'
  BY <1>1, HostFacts DEF JobSane, TypeOK, Kind, Removal
<1>5. Alone(h) => Manager(h)'
  BY <1>1, HostFacts, SelectedKept DEF Manager, Standing, JobSane, TypeOK
<1>6. pc'[h] = "previous"
  BY <1>1 DEF IInv, TypeOK
<1> QED  BY <1>2, <1>3, <1>4, <1>5, <1>6, ManagingStep

LEMMA ReadPreviousStep ==
  ASSUME IInv, UNCHANGED setting, NEW h \in Host, ReadPrevious(h)
  PROVE  IInv'
<1> DEFINE previous == IF Enabled /\ bound[h] # None THEN installed.digest ELSE None
<1>1. /\ pc[h] = "previous"
      /\ UNCHANGED <<setting, installed, revision, applied, up, bound, slot, broken, req, ask,
                     faults>>
  BY DEF ReadPrevious, KeepRequests, dbVars, hostVars
<1>2. previous \in Revision /\ up[h] = "up"
  BY <1>1, HostFacts DEF IInv, TypeOK, Enabled, Installation, Revision, JobSane
<1>3. CASE previous # None /\ bound[h] # previous
  <2>1. Return(h, FALSE)
    BY <1>3 DEF ReadPrevious
  <2>2. Alone(h) /\ ~trouble[h] => revision = Selected /\ bound[h] = Selected
    BY <1>1, <1>2, HostFacts DEF Manager, Standing
  <2>3. faults' \in 0 .. setting.faults
    BY <1>1, HostFacts
  <2> QED  BY <1>1, <1>2, <2>1, <2>2, <2>3, ReturnStep
<1>4. CASE ~(previous # None /\ bound[h] # previous)
  <2>1. /\ job' = [job EXCEPT ![h].previous = previous] /\ UNCHANGED <<trouble, overtaken>>
        /\ pc' = [pc EXCEPT ![h] = IF job[h].kind \notin Removal THEN "resources"
                                   ELSE IF previous # None THEN "withdraw" ELSE "commit"]
    BY <1>4 DEF ReadPrevious, Goto
  <2>2. TypeOK'
    <3>1. [job[h] EXCEPT !.previous = previous] \in Work
      BY <1>2, HostFacts DEF Work
    <3>2. job' \in [Host -> Work]
      BY <2>1, <3>1 DEF IInv, TypeOK, Work
    <3> HIDE DEF previous
    <3> QED  BY <1>1, <2>1, <3>2, SettingKept DEF IInv, TypeOK, Work
  <2>3. Managing(h)
    BY <1>1, <2>1, HostFacts, AppliedKept DEF Managing, TypeOK
  <2>4. JobSane(h)'
    BY <1>1, <2>1, HostFacts DEF JobSane, TypeOK, Kind, Removal
  <2>5. Alone(h) => Manager(h)'
    <3>1. Alone(h) /\ ~trouble[h] => previous = Selected
      BY <1>1, <1>2, HostFacts DEF Manager, Standing, Selected, Enabled
    <3> HIDE DEF previous
    <3> QED  BY <1>1, <1>2, <2>1, <3>1, HostFacts, SelectedKept
                DEF Manager, Standing, JobSane, TypeOK, Kind, Removal
  <2>6. pc'[h] \notin {"activate", "reactivate"}
    BY <2>1 DEF IInv, TypeOK
  <2> QED  BY <2>2, <2>3, <2>4, <2>5, <2>6, ManagingStep
<1> QED  BY <1>3, <1>4

(* A step that moves an action on and leaves what it works with alone.      *)
LEMMA GoStep ==
  ASSUME IInv, NEW h \in Host,
         NEW p \in {"activate", "commit", "recover", "restore", "rebind", "reactivate"},
         Goto(h, p),
         pc[h] \notin {"idle", "bind"},
         UNCHANGED <<setting, installed, up, bound, job, trouble, overtaken, req, ask>>,
         /\ slot' \in [Host -> Revision] /\ broken' \subseteq Host
         /\ revision' \in Revision /\ applied' \in Range(Migrations) \cup {<<>>}
         /\ faults' \in 0 .. setting.faults,
         \A g \in Host \ {h} : slot'[g] = slot[g],
         up[h] # "up" => slot'[h] = slot[h],
         IsPrefix(applied, applied'),
         \/ revision' = revision
         \/ Quiet /\ revision' = None
         \/ Quiet /\ revision' \in Digest /\ IsPrefix(Migrations[revision'], applied'),
         p = "activate" => /\ job[h].kind \in Kind \ Removal
                           /\ IsPrefix(Migrations[job[h].target], applied'),
         p = "reactivate" => IsPrefix(Migrations[job[h].previous], applied'),
         p \in {"restore", "rebind", "reactivate"} => job[h].previous \in Digest,
         p \in {"activate", "commit"} => pc[h] \in {"resources", "activate", "withdraw"},
         job[h].kind = "boot" => p \in {"rebind", "reactivate"},
         Alone(h) =>
           /\ p = "reactivate" => Follows(job[h].previous)'
           /\ ~trouble[h] =>
                /\ job[h].previous = Selected
                /\ p = "activate" \/ job[h].kind = "boot" => revision' = Selected
                /\ p = "commit" => revision' = job[h].target
                /\ revision' \in {Selected, job[h].target}
  PROVE  IInv'
<1>1. pc'[h] = p /\ \A g \in Host \ {h} : pc'[g] = pc[g]
  BY DEF Goto, IInv, TypeOK
<1>2. TypeOK'
  BY SettingKept DEF IInv, TypeOK, Goto
<1>3. Managing(h)
  BY <1>1 DEF Managing
<1>4. JobSane(h)'
  BY <1>1, HostFacts DEF JobSane
<1>5. Alone(h) => Manager(h)'
  BY <1>1, HostFacts, SelectedKept DEF Manager, Standing
<1> QED  BY <1>1, <1>2, <1>3, <1>4, <1>5, ManagingStep

LEMMA BindResourcesStep ==
  ASSUME IInv, UNCHANGED setting, NEW h \in Host, BindResources(h)
  PROVE  IInv'
<1>1. /\ pc[h] = "resources" /\ job[h].target \in Digest /\ job[h].kind \in Kind \ Removal
      /\ UNCHANGED <<setting, installed, revision, up, bound, slot, broken, job, trouble,
                     overtaken, req, ask, faults>>
  BY HostFacts DEF BindResources, JobSane, KeepJob, KeepRequests, hostVars
<1>2. Alone(h) /\ ~trouble[h] => job[h].previous = Selected /\ revision = Selected
  BY <1>1, HostFacts DEF Manager, Standing
<1>3. /\ slot' \in [Host -> Revision] /\ broken' \subseteq Host /\ revision' \in Revision
      /\ faults' \in 0 .. setting.faults /\ applied \in Range(Migrations) \cup {<<>>}
  BY <1>1 DEF IInv, TypeOK
<1>4. CASE Fits(job[h].target)
  <2>1. applied' = Migrations[job[h].target] /\ Goto(h, "activate")
    BY <1>4 DEF BindResources, Migrate
  <2>2. /\ IsPrefix(applied, applied') /\ applied' \in Range(Migrations)
        /\ IsPrefix(Migrations[job[h].target], applied')
    BY <1>1, <1>4, <2>1, HostFacts, DigestFacts, PrefixReflexive DEF Fits
  <2> QED  BY <1>1, <1>2, <1>3, <2>1, <2>2, GoStep DEF Kind, Removal
<1>5. CASE ~Fits(job[h].target)
  <2>1. applied' = applied /\ Goto(h, "recover")
    BY <1>5 DEF BindResources
  <2>2. IsPrefix(applied, applied')
    BY <2>1, HostFacts, AppliedKept
  <2> QED  BY <1>1, <1>2, <1>3, <2>1, <2>2, GoStep DEF Kind, Removal
<1> QED  BY <1>4, <1>5

(* What a step keeps that only concerns the slot and the release record.    *)
LEMMA KeptTypes ==
  ASSUME IInv, UNCHANGED <<setting, applied>>
  PROVE  /\ IsPrefix(applied, applied') /\ applied' \in Range(Migrations) \cup {<<>>}
         /\ \A d \in Digest : Covers(d) => IsPrefix(Migrations[d], applied')
  BY AppliedKept DEF IInv, TypeOK, Covers

LEMMA ActivateStep ==
  ASSUME IInv, UNCHANGED setting, NEW h \in Host, Activate(h)
  PROVE  IInv'
<1>1. /\ pc[h] = "activate" /\ Quiet /\ job[h].target \in Digest /\ job[h].kind \in Kind \ Removal
      /\ up[h] = "up" /\ Covers(job[h].target)
      /\ UNCHANGED <<setting, installed, applied, up, bound, job, trouble, overtaken, req, ask,
                     faults>>
  BY HostFacts DEF Activate, JobSane, KeepJob, KeepRequests, TypeOK, Kind, Removal
<1>2. Alone(h) /\ ~trouble[h] => job[h].previous = Selected /\ revision = Selected
  BY <1>1, HostFacts DEF Manager, Standing
<1>3. CASE Follows(job[h].target)
  <2>1. /\ revision' = job[h].target /\ Goto(h, "commit")
        /\ slot' = [slot EXCEPT ![h] = job[h].target] /\ broken' = broken \ {h}
    BY <1>3 DEF Activate, Load
  <2>2. /\ slot' \in [Host -> Revision] /\ broken' \subseteq Host /\ revision' \in Revision
        /\ faults' \in 0 .. setting.faults /\ \A g \in Host \ {h} : slot'[g] = slot[g]
    BY <1>1, <2>1 DEF IInv, TypeOK, Revision
  <2> QED  BY <1>1, <1>2, <2>1, <2>2, KeptTypes, GoStep DEF Kind, Removal
<1>4. CASE ~Follows(job[h].target)
  <2>1. UNCHANGED <<revision, slot, broken>> /\ Goto(h, "recover")
    BY <1>4 DEF Activate, slots
  <2>2. /\ slot' \in [Host -> Revision] /\ broken' \subseteq Host /\ revision' \in Revision
        /\ faults' \in 0 .. setting.faults
    BY <1>1, <2>1 DEF IInv, TypeOK
  <2> QED  BY <1>1, <1>2, <2>1, <2>2, KeptTypes, GoStep DEF Kind, Removal
<1> QED  BY <1>3, <1>4

LEMMA WithdrawStep ==
  ASSUME IInv, UNCHANGED setting, NEW h \in Host, Withdraw(h)
  PROVE  IInv'
<1>1. /\ pc[h] = "withdraw" /\ Quiet /\ up[h] = "up"
      /\ job[h].target = None /\ job[h].kind \in Removal
      /\ UNCHANGED <<setting, installed, applied, up, bound, job, trouble, overtaken, req, ask,
                     faults>>
  BY HostFacts DEF Withdraw, JobSane, KeepJob, KeepRequests, TypeOK, Kind, Removal
<1>2. Alone(h) /\ ~trouble[h] => job[h].previous = Selected
  BY <1>1, HostFacts DEF Manager, Standing
<1>3. /\ revision' = None /\ Goto(h, "commit")
      /\ slot' = [slot EXCEPT ![h] = None] /\ broken' = broken \ {h}
  BY DEF Withdraw, Load
<1>4. /\ slot' \in [Host -> Revision] /\ broken' \subseteq Host /\ revision' \in Revision
      /\ faults' \in 0 .. setting.faults /\ \A g \in Host \ {h} : slot'[g] = slot[g]
  BY <1>1, <1>3 DEF IInv, TypeOK, Revision
<1> QED  BY <1>1, <1>2, <1>3, <1>4, KeptTypes, GoStep DEF Removal

LEMMA RecoverStep ==
  ASSUME IInv, UNCHANGED setting, NEW h \in Host, Recover(h)
  PROVE  IInv'
<1>1. /\ pc[h] = "recover" /\ up[h] = "up" /\ job[h].kind # "boot"
      /\ UNCHANGED <<setting, installed, applied, up, bound, req, ask, faults>>
  BY HostFacts DEF Recover, JobSane, KeepRequests, TypeOK
<1>2. Alone(h) /\ ~trouble[h] =>
        /\ job[h].previous = Selected /\ bound[h] = Selected
        /\ revision \in {Selected, job[h].target}
  BY <1>1, HostFacts DEF Manager, Standing
<1>3. faults' \in 0 .. setting.faults
  BY <1>1 DEF IInv, TypeOK
<1>4. CASE job[h].previous = None
  <2>1. /\ Quiet /\ revision' = None /\ End(h, trouble[h]) /\ trouble[h] \in BOOLEAN
        /\ slot' = [slot EXCEPT ![h] = None] /\ broken' = broken \ {h}
    BY <1>4 DEF Recover, Load, Return, IInv, TypeOK
  <2>2. /\ slot' \in [Host -> Revision] /\ broken' \subseteq Host /\ revision' \in Revision
        /\ bound' \in [Host -> Revision] /\ up' = [up EXCEPT ![h] = "up"]
        /\ \A g \in Host \ {h} : slot'[g] = slot[g] /\ bound'[g] = bound[g]
    BY <1>1, <2>1 DEF IInv, TypeOK, Revision
  <2>3. up'[h] = "up"
    BY <1>1
  <2> QED  BY <1>1, <1>2, <1>3, <1>4, <2>1, <2>2, <2>3, KeptTypes, EndStep
<1>5. CASE job[h].previous # None
  <2>1. UNCHANGED <<revision, slot, broken, job, trouble, overtaken>> /\ Goto(h, "restore")
    BY <1>5 DEF Recover, slots, KeepJob
  <2>2. /\ slot' \in [Host -> Revision] /\ broken' \subseteq Host /\ revision' \in Revision
        /\ job[h].previous \in Digest
    BY <1>5, <2>1 DEF IInv, TypeOK, Revision
  <2> QED  BY <1>1, <1>2, <1>3, <2>1, <2>2, KeptTypes, GoStep
<1> QED  BY <1>4, <1>5

(* A restoration that ends well. *)
LEMMA RestoredStep ==
  ASSUME IInv, NEW h \in Host, Restored(h), pc[h] \in {"restore", "reactivate"},
         UNCHANGED <<setting, installed, applied, req, ask>>,
         /\ slot' \in [Host -> Revision] /\ broken' \subseteq Host
         /\ faults' \in 0 .. setting.faults,
         \A g \in Host \ {h} : slot'[g] = slot[g],
         \/ revision' = revision
         \/ Quiet /\ revision' = job[h].previous /\ Covers(job[h].previous),
         Alone(h) => revision' = job[h].previous
  PROVE  IInv'
<1>1. job[h].previous \in Digest /\ revision' \in Revision
  BY HostFacts DEF JobSane, IInv, TypeOK, Revision
<1>2. CASE job[h].kind = "boot"
  <2>1. /\ End(h, FALSE) /\ up' = [up EXCEPT ![h] = "up"]
        /\ bound' = [bound EXCEPT ![h] = job[h].previous]
    BY <1>2 DEF Restored
  <2>2. /\ bound' \in [Host -> Revision] /\ up'[h] = "up" /\ bound'[h] = job[h].previous
        /\ \A g \in Host \ {h} : bound'[g] = bound[g]
    BY <1>1, <2>1 DEF IInv, TypeOK, Revision
  <2>3. Alone(h) => job[h].previous = Selected
    BY <1>2, HostFacts DEF Manager
  <2> QED  BY <1>1, <2>1, <2>2, <2>3, KeptTypes, EndStep
<1>3. CASE job[h].kind # "boot"
  <2>1. /\ End(h, trouble[h]) /\ trouble[h] \in BOOLEAN /\ UNCHANGED <<up, bound>>
    BY <1>3 DEF Restored, Return, IInv, TypeOK
  <2>2. /\ bound' \in [Host -> Revision] /\ up' = [up EXCEPT ![h] = "up"] /\ up[h] = "up"
        /\ \A g \in Host \ {h} : bound'[g] = bound[g]
    BY <1>3, <2>1, HostFacts DEF IInv, TypeOK, JobSane
  <2>3. Alone(h) /\ ~trouble[h] => job[h].previous = Selected /\ bound[h] = Selected
    BY <2>2, HostFacts DEF Manager, Standing
  <2> QED  BY <1>1, <2>1, <2>2, <2>3, KeptTypes, EndStep
<1> QED  BY <1>2, <1>3

(* One that fails stops a startup, or leaves trouble behind. *)
LEMMA UnrestoredStep ==
  ASSUME IInv, NEW h \in Host, Unrestored(h), pc[h] \in {"restore", "rebind", "reactivate"},
         UNCHANGED <<setting, installed, applied, slot, broken, req, ask>>,
         faults' \in 0 .. setting.faults,
         \/ revision' = revision
         \/ Quiet /\ revision' = job[h].previous /\ Covers(job[h].previous)
  PROVE  IInv'
<1>1. /\ job[h].previous \in Digest /\ revision' \in Revision /\ bound' = bound
      /\ slot' \in [Host -> Revision] /\ broken' \subseteq Host /\ bound' \in [Host -> Revision]
  BY HostFacts DEF Unrestored, JobSane, IInv, TypeOK, Revision
<1>2. CASE job[h].kind = "boot"
  <2>1. End(h, trouble[h]) /\ up' = [up EXCEPT ![h] = "down"] /\ trouble[h] \in BOOLEAN
    BY <1>2 DEF Unrestored, Return, IInv, TypeOK
  <2>2. up[h] = "booting" /\ up'[h] = "down"
    BY <1>2, <2>1, HostFacts DEF IInv, TypeOK, JobSane
  <2>3. Alone(h) => /\ slot[h] = None /\ bound[h] = None /\ job[h].previous = Selected
                    /\ ~trouble[h] => revision = Selected
    BY <1>2, <2>2, HostFacts DEF Manager, Standing
  <2> QED  BY <1>1, <2>1, <2>2, <2>3, KeptTypes, EndStep
<1>3. CASE job[h].kind # "boot"
  <2>1. End(h, TRUE) /\ up' = [up EXCEPT ![h] = up[h]]
    BY <1>3 DEF Unrestored, Return, End, IInv, TypeOK
  <2>2. up[h] = "up"
    BY <1>3, HostFacts DEF TypeOK, JobSane
  <2>3. up' = [up EXCEPT ![h] = "up"] /\ up'[h] = "up"
    BY <2>1, <2>2 DEF IInv, TypeOK
  <2> QED  BY <1>1, <2>1, <2>2, <2>3, KeptTypes, EndStep
<1> QED  BY <1>2, <1>3

LEMMA RestoreStep ==
  ASSUME IInv, UNCHANGED setting, NEW h \in Host, Restore(h)
  PROVE  IInv'
<1>1. /\ pc[h] = "restore" /\ job[h].previous \in Digest /\ None \notin Digest
      /\ UNCHANGED <<setting, installed, revision, applied, slot, broken, req, ask, faults>>
  BY HostFacts DEF Restore, JobSane, KeepRequests, dbVars, slots
<1>2. /\ slot' \in [Host -> Revision] /\ broken' \subseteq Host /\ revision' \in Revision
      /\ faults' \in 0 .. setting.faults
  BY <1>1 DEF IInv, TypeOK
<1>3. CASE Unrestored(h)
  BY <1>1, <1>2, <1>3, UnrestoredStep
<1>4. CASE slot[h] = job[h].previous /\ slot[h] = revision /\ Restored(h)
  BY <1>1, <1>2, <1>4, RestoredStep
<1>5. CASE Goto(h, "rebind") /\ KeepJob /\ UNCHANGED <<up, bound>>
  <2>1. Alone(h) /\ ~trouble[h] =>
          /\ job[h].previous = Selected /\ revision \in {Selected, job[h].target}
          /\ job[h].kind = "boot" => revision = Selected
    BY <1>1, HostFacts DEF Manager, Standing
  <2> QED  BY <1>1, <1>2, <1>5, <2>1, KeptTypes, GoStep DEF KeepJob
<1> QED  BY <1>1, <1>3, <1>4, <1>5 DEF Restore

LEMMA RebindStep ==
  ASSUME IInv, UNCHANGED setting, NEW h \in Host, Rebind(h)
  PROVE  IInv'
<1>1. /\ pc[h] = "rebind" /\ job[h].previous \in Digest
      /\ UNCHANGED <<setting, installed, revision, slot, broken, req, ask, faults>>
  BY HostFacts DEF Rebind, JobSane, KeepRequests, slots
<1>2. /\ slot' \in [Host -> Revision] /\ broken' \subseteq Host /\ revision' \in Revision
      /\ faults' \in 0 .. setting.faults
  BY <1>1 DEF IInv, TypeOK
<1>3. CASE Fits(job[h].previous)
  <2>1. /\ applied' = Migrations[job[h].previous] /\ Goto(h, "reactivate")
        /\ UNCHANGED <<up, bound, job, trouble, overtaken>>
    BY <1>3 DEF Rebind, Migrate, KeepJob
  <2>2. /\ IsPrefix(applied, applied') /\ applied' \in Range(Migrations)
        /\ IsPrefix(Migrations[job[h].previous], applied')
    BY <1>1, <1>3, <2>1, HostFacts, DigestFacts, PrefixReflexive DEF Fits
  <2>3. Alone(h) /\ ~trouble[h] =>
          /\ job[h].previous = Selected /\ revision \in {Selected, job[h].target}
          /\ job[h].kind = "boot" => revision = Selected
    BY <1>1, HostFacts DEF Manager, Standing
  <2>4. Follows(job[h].previous)'
    <3>1. revision # None => IsPrefix(Migrations[revision], Migrations[job[h].previous])
      <4>1. revision # None => revision \in Digest /\ IsPrefix(Migrations[revision], applied)
        BY HostFacts DEF Covers
      <4> QED  BY <1>1, <1>3, <4>1, HostFacts, DigestFacts, PrefixTransitive DEF Fits
    <3> QED  BY <1>1, <2>1, <3>1, SettingKept DEF Follows
  <2> QED  BY <1>1, <1>2, <2>1, <2>2, <2>3, <2>4, GoStep
<1>4. CASE ~Fits(job[h].previous)
  BY <1>1, <1>2, <1>4, UnrestoredStep DEF Rebind
<1> QED  BY <1>3, <1>4

LEMMA ReactivateStep ==
  ASSUME IInv, UNCHANGED setting, NEW h \in Host, Reactivate(h)
  PROVE  IInv'
<1>1. /\ pc[h] = "reactivate" /\ Quiet /\ job[h].previous \in Digest /\ Covers(job[h].previous)
      /\ UNCHANGED <<setting, installed, applied, req, ask, faults>>
  BY HostFacts DEF Reactivate, JobSane, KeepRequests
<1>2. faults' \in 0 .. setting.faults
  BY <1>1 DEF IInv, TypeOK
<1>3. CASE Follows(job[h].previous)
  <2>1. /\ revision' = job[h].previous /\ Restored(h)
        /\ slot' = [slot EXCEPT ![h] = job[h].previous] /\ broken' = broken \ {h}
    BY <1>3 DEF Reactivate, Load
  <2>2. /\ slot' \in [Host -> Revision] /\ broken' \subseteq Host
        /\ \A g \in Host \ {h} : slot'[g] = slot[g]
    BY <1>1, <2>1 DEF IInv, TypeOK, Revision
  <2> QED  BY <1>1, <1>2, <2>1, <2>2, RestoredStep
<1>4. CASE ~Follows(job[h].previous)
  BY <1>1, <1>2, <1>4, UnrestoredStep DEF Reactivate, slots
<1> QED  BY <1>3, <1>4

LEMMA BootStep ==
  ASSUME IInv, UNCHANGED setting, NEW h \in Host, Boot(h)
  PROVE  IInv'
<1>1. /\ up[h] = "down" /\ pc[h] = "idle" /\ job[h].kind = "none"
      /\ UNCHANGED <<setting, installed, revision, applied, bound, slot, broken, req, ask, trouble,
                     overtaken, faults>>
  BY HostFacts DEF Boot, JobSane, KeepRequests, dbVars, slots
<1>2. Alone(h) => /\ slot[h] = None /\ bound[h] = None
                  /\ ~trouble[h] => revision = Selected
  BY <1>1, HostFacts DEF Manager, Standing
<1>3. CASE Enabled
  <2> DEFINE j == [NoJob EXCEPT !.kind = "boot", !.previous = Selected]
  <2>1. /\ up' = [up EXCEPT ![h] = "booting"] /\ pc' = [pc EXCEPT ![h] = "restore"]
        /\ job' = [job EXCEPT ![h] = j]
    BY <1>3 DEF Boot, Goto
  <2>2. Selected \in Digest
    BY <1>3 DEF IInv, TypeOK, Selected, Enabled, Installation
  <2>3. /\ j \in Work /\ j.kind = "boot" /\ j.previous = Selected /\ j.target = None
        /\ j.seen = "none"
    BY <2>2 DEF NoJob, Work, Revision
  <2> HIDE DEF j
  <2>4. TypeOK'
    BY <1>1, <2>1, <2>3, SettingKept DEF IInv, TypeOK, Work
  <2>5. /\ pc'[h] = "restore" /\ job'[h] = j /\ up'[h] = "booting"
    BY <2>1 DEF IInv, TypeOK
  <2>6. Managing(h)
    BY <1>1, <2>1, KeptTypes DEF Managing, IInv, TypeOK
  <2>7. JobSane(h)'
    BY <2>2, <2>3, <2>5 DEF JobSane, Kind, Removal
  <2>8. Alone(h) => Manager(h)'
    BY <1>1, <1>2, <2>3, <2>5, SelectedKept DEF Manager, Standing
  <2> QED  BY <2>4, <2>5, <2>6, <2>7, <2>8, ManagingStep
<1>4. CASE ~Enabled
  <2>1. up' = [up EXCEPT ![h] = "up"] /\ UNCHANGED <<job, pc>>
    BY <1>4 DEF Boot
  <2>2. TypeOK'
    BY <1>1, <2>1, SettingKept DEF IInv, TypeOK
  <2>3. up'[h] = "up"
    BY <2>1 DEF IInv, TypeOK
  <2>4. Managing(h)
    BY <1>1, <2>1, KeptTypes DEF Managing, IInv, TypeOK
  <2>5. JobSane(h)'
    BY <1>1, <2>1, <2>3, HostFacts DEF JobSane
  <2>6. Alone(h) => Manager(h)'
    BY <1>1, <1>2, <1>4, <2>1, <2>3, SelectedKept DEF Manager, Standing, Selected
  <2> QED  BY <1>1, <2>1, <2>2, <2>4, <2>5, <2>6, ManagingStep
<1> QED  BY <1>3, <1>4

LEMMA BindStep ==
  ASSUME IInv, UNCHANGED setting, NEW h \in Host, Bind(h)
  PROVE  IInv'
<1>1. /\ pc[h] = "bind" /\ up[h] = "up" /\ job[h].target \in Revision
      /\ UNCHANGED <<setting, installed, revision, applied, up, slot, broken, req, ask, faults>>
  BY HostFacts DEF Bind, JobSane, KeepRequests, dbVars, slots, TypeOK, Work
<1>2. Alone(h) /\ ~trouble[h] => revision = Selected /\ job[h].target = Selected
  BY <1>1, HostFacts DEF Manager, Standing
<1>3. /\ End(h, trouble[h]) /\ trouble[h] \in BOOLEAN
      /\ bound' = [bound EXCEPT ![h] = job[h].target]
  BY DEF Bind, Return, IInv, TypeOK
<1>4. /\ bound' \in [Host -> Revision] /\ slot' \in [Host -> Revision] /\ broken' \subseteq Host
      /\ revision' \in Revision /\ faults' \in 0 .. setting.faults
      /\ up' = [up EXCEPT ![h] = "up"] /\ up'[h] = "up"
      /\ bound'[h] = job[h].target /\ \A g \in Host \ {h} : bound'[g] = bound[g]
  BY <1>1, <1>3 DEF IInv, TypeOK
<1> QED  BY <1>1, <1>2, <1>3, <1>4, KeptTypes, EndStep

(* The catalog refuses: back to what was active before. *)
LEMMA CompensateStep ==
  ASSUME IInv, NEW h \in Host, pc[h] = "commit", Compensate(h),
         UNCHANGED <<setting, installed, revision, applied, up, bound, slot, broken, req, ask>>,
         faults' \in 0 .. setting.faults
  PROVE  IInv'
<1>1. up[h] = "up" /\ job[h].kind # "boot"
  BY HostFacts DEF JobSane, TypeOK
<1>2. Alone(h) /\ ~trouble[h] =>
        /\ job[h].previous = Selected /\ bound[h] = Selected /\ revision = job[h].target
  BY <1>1, HostFacts DEF Manager, Standing
<1>3. CASE NothingToRecover(h)
  <2>1. Return(h, FALSE)
    BY <1>3 DEF Compensate
  <2>2. job[h].previous = None /\ job[h].target = None
    BY <1>3, HostFacts DEF NothingToRecover, JobSane
  <2> QED  BY <1>1, <1>2, <2>1, <2>2, ReturnStep
<1>4. CASE ~NothingToRecover(h)
  <2>1. Goto(h, "recover") /\ UNCHANGED <<job, trouble, overtaken>>
    BY <1>4 DEF Compensate, KeepJob
  <2>2. /\ slot' \in [Host -> Revision] /\ broken' \subseteq Host /\ revision' \in Revision
    BY DEF IInv, TypeOK
  <2> QED  BY <1>1, <1>2, <2>1, <2>2, KeptTypes, GoStep
<1> QED  BY <1>3, <1>4

(* The catalog has the outcome; what the other hosts have read is stale.    *)
LEMMA RecordedStep ==
  ASSUME IInv, NEW h \in Host, pc[h] = "commit", MayRecord(h), Record(h),
         NEW p \in {"bind", "recover", "idle"}, NEW j \in {job[h], NoJob},
         Goto(h, p), Overtake(h, j),
         p = "idle" <=> j = NoJob,
         NEW t \in BOOLEAN, trouble' = [trouble EXCEPT ![h] = t], p = "bind" => t = trouble[h],
         p # "bind" => t,
         UNCHANGED <<setting, revision, applied, up, bound, slot, broken, req, ask>>,
         faults' \in 0 .. setting.faults
  PROVE  IInv'
<1>1. /\ up[h] = "up" /\ job[h].kind \in Kind /\ job[h] \in Work /\ NoJob \in Work
      /\ job[h].kind \in Removal => job[h].target = None /\ installed # None
      /\ job[h].kind \notin Removal => job[h].target \in Digest
  BY HostFacts DEF JobSane, TypeOK, Work, MayRecord, Kind, NoJob, Revision
<1>2. /\ installed' \in Installation \cup {None} /\ Selected' = job[h].target
  <2>1. CASE job[h].kind = "uninstall"
    BY <1>1, <2>1 DEF Record, Selected, Enabled, Removal
  <2>2. CASE job[h].kind = "disable"
    <3>1. installed' = [installed EXCEPT !.enabled = FALSE] /\ installed \in Installation
      BY <1>1, <2>2 DEF Record, Removal, IInv, TypeOK
    <3>2. installed' \in Installation /\ ~installed'.enabled
      BY <3>1 DEF Installation
    <3> QED  BY <1>1, <2>2, <3>2 DEF Selected, Enabled, Removal
  <2>3. CASE job[h].kind \notin Removal
    <3>1. installed' = [digest |-> job[h].target, enabled |-> TRUE, excluded |-> job[h].excluded]
      BY <2>3 DEF Record, Removal
    <3>2. installed' \in Installation /\ installed'.enabled /\ installed'.digest = job[h].target
      BY <1>1, <2>3, <3>1 DEF Installation, Work
    <3>3. installed' # None
      BY <3>2, NoneAssumption
    <3> QED  BY <3>2, <3>3 DEF Selected, Enabled
  <2> QED  BY <2>1, <2>2, <2>3 DEF Removal
<1>3. /\ pc'[h] = p /\ job'[h] = j
      /\ ~trouble'[h] => p = "bind" /\ ~trouble[h]
      /\ \A g \in Host \ {h} : pc'[g] = pc[g] /\ (~trouble[g] => ~trouble'[g])
  BY DEF Goto, Overtake, IInv, TypeOK
<1>4. TypeOK'
  <2>1. job' \in [Host -> Work]
    <3>1. \A g \in Host : job[g] \in Work /\ [job[g] EXCEPT !.seen = "stale"] \in Work
      BY DEF IInv, TypeOK, Work
    <3> QED  BY <1>1, <3>1 DEF Overtake
  <2>2. overtaken' \in [Host -> BOOLEAN]
    BY DEF Overtake
  <2>3. pc' \in [Host -> Steps] /\ trouble' \in [Host -> BOOLEAN]
    BY DEF Goto, Steps, IInv, TypeOK
  <2> QED  BY <1>2, <2>1, <2>2, <2>3, SettingKept DEF IInv, TypeOK, Work, Steps
<1>5. \A g \in Host \ {h} :
        /\ job'[g].kind = job[g].kind /\ job'[g].target = job[g].target
        /\ job'[g].previous = job[g].previous /\ job'[g].seen # "current"
        /\ job'[g].seen = job[g].seen \/ job'[g].seen = "stale"
  <2> SUFFICES ASSUME NEW g \in Host \ {h}
               PROVE  /\ job'[g].kind = job[g].kind /\ job'[g].target = job[g].target
                      /\ job'[g].previous = job[g].previous /\ job'[g].seen # "current"
                      /\ job'[g].seen = job[g].seen \/ job'[g].seen = "stale"
    OBVIOUS
  <2>1. \/ job'[g] = job[g] /\ job[g].seen # "current"
        \/ job'[g] = [job[g] EXCEPT !.seen = "stale"]
    BY DEF Overtake
  <2> QED  BY <2>1, HostFacts DEF Work
<1>6. Schema'
  BY <1>3, <1>5, SettingKept DEF IInv, Schema, Covers
<1>7. Jobs'
  <2>1. JobSane(h)'
    BY <1>1, <1>3, HostFacts DEF JobSane, NoJob, Kind, Removal
  <2>2. ASSUME NEW g \in Host \ {h}
        PROVE  JobSane(g)'
    <3>1. /\ job'[g].kind = job[g].kind /\ job'[g].target = job[g].target
          /\ job'[g].previous = job[g].previous /\ job'[g].seen # "current"
          /\ job'[g].seen = job[g].seen \/ job'[g].seen = "stale"
      BY <1>5
    <3>2. pc'[g] = pc[g] /\ up'[g] = up[g] /\ JobSane(g)
      BY <1>3 DEF IInv, Jobs
    <3> QED  BY <3>1, <3>2 DEF JobSane
  <2> QED  BY <2>1, <2>2 DEF Jobs
<1>8. Asks'
  BY SettingKept DEF IInv, Asks, AskSane
<1>9. Agree'
  <2>1. \A m \in Host : Alone(m)' => m = h
    BY SettingKept DEF IInv, Agree
  <2>2. Alone(h) => /\ \A g \in Host \ {h} : pc[g] = "idle" /\ up[g] = "up" /\ ~trouble[g]
                    /\ Manager(h)
    BY DEF IInv, Agree
  <2>3. Alone(h) => Manager(h)'
    BY <1>1, <1>2, <1>3, <2>2 DEF Manager, Standing, NoJob, Kind
  <2> QED  BY <1>3, <2>1, <2>2, <2>3, SettingKept DEF Agree
<1> QED  BY <1>4, <1>6, <1>7, <1>8, <1>9 DEF IInv

LEMMA CommitStep ==
  ASSUME IInv, UNCHANGED setting, NEW h \in Host, Commit(h)
  PROVE  IInv'
<1>1. /\ pc[h] = "commit" /\ faults' \in 0 .. setting.faults
      /\ UNCHANGED <<setting, revision, applied, up, bound, slot, broken, req, ask>>
  BY DEF Commit, KeepRequests, hostVars, IInv, TypeOK
<1>2. CASE MayRecord(h)
  <2>1. /\ Record(h) /\ Overtake(h, job[h]) /\ Goto(h, "bind") /\ trouble[h] \in BOOLEAN
        /\ trouble' = [trouble EXCEPT ![h] = trouble[h]]
    BY <1>2 DEF Commit, IInv, TypeOK
  <2>2. job[h] # NoJob
    BY <1>1, HostFacts DEF JobSane, NoJob
  <2> QED  BY <1>1, <1>2, <2>1, <2>2, RecordedStep
<1>3. CASE ~MayRecord(h)
  BY <1>1, <1>3, CompensateStep DEF Commit
<1> QED  BY <1>2, <1>3

LEMMA LoseRecordStep ==
  ASSUME IInv, UNCHANGED setting, NEW h \in Host, LoseRecord(h)
  PROVE  IInv'
<1>1. /\ pc[h] = "commit" /\ faults' \in 0 .. setting.faults /\ MayRecord(h) /\ Record(h)
      /\ trouble' = [trouble EXCEPT ![h] = TRUE]
      /\ UNCHANGED <<setting, revision, applied, up, bound, slot, broken, req, ask>>
  BY HostFacts DEF LoseRecord, Happens, Spend, KeepRequests, hostVars
<1>2. job[h] # NoJob
  BY <1>1, HostFacts DEF JobSane, NoJob
<1>3. CASE NothingToRecover(h)
  BY <1>1, <1>2, <1>3, RecordedStep DEF LoseRecord
<1>4. CASE ~NothingToRecover(h)
  BY <1>1, <1>2, <1>4, RecordedStep DEF LoseRecord
<1> QED  BY <1>3, <1>4

LEMMA RefuseStep ==
  ASSUME IInv, UNCHANGED setting, NEW h \in Host, Refuse(h)
  PROVE  IInv'
<1>1. /\ faults' \in 0 .. setting.faults
      /\ UNCHANGED <<setting, installed, revision, applied, slot, broken, req, ask>>
  BY HostFacts DEF Refuse, Happens, Spend, KeepRequests, dbVars, slots
<1>2. /\ slot' \in [Host -> Revision] /\ broken' \subseteq Host /\ revision' \in Revision
  BY <1>1 DEF IInv, TypeOK
<1>3. CASE /\ pc[h] \in {"resources", "activate", "withdraw"}
           /\ Goto(h, "recover") /\ KeepJob /\ UNCHANGED <<up, bound>>
  <2>1. /\ Alone(h) /\ ~trouble[h] => job[h].previous = Selected /\ revision = Selected
        /\ job[h].kind # "boot"
    BY <1>3, HostFacts DEF Manager, Standing, JobSane
  <2> QED  BY <1>1, <1>2, <1>3, <2>1, KeptTypes, GoStep DEF KeepJob
<1>4. CASE pc[h] = "commit" /\ Compensate(h) /\ UNCHANGED <<up, bound>>
  BY <1>1, <1>4, CompensateStep
<1>5. CASE pc[h] \in {"rebind", "reactivate"} /\ Unrestored(h)
  BY <1>1, <1>5, UnrestoredStep
<1> QED  BY <1>3, <1>4, <1>5 DEF Refuse

LEMMA LoseStep ==
  ASSUME IInv, UNCHANGED setting, NEW h \in Host, Lose(h)
  PROVE  IInv'
<1>1. /\ faults' \in 0 .. setting.faults
      /\ UNCHANGED <<setting, installed, applied, slot, broken, req, ask>>
  BY HostFacts DEF Lose, Happens, Spend, KeepRequests, slots
<1>2. slot' \in [Host -> Revision] /\ broken' \subseteq Host
  BY <1>1 DEF IInv, TypeOK
<1>3. CASE /\ pc[h] = "activate" /\ Quiet /\ revision' = job[h].target
           /\ Goto(h, "recover") /\ KeepJob /\ UNCHANGED <<up, bound>>
  <2>1. /\ Alone(h) /\ ~trouble[h] => job[h].previous = Selected
        /\ job[h].kind # "boot" /\ job[h].target \in Digest /\ Covers(job[h].target)
        /\ revision' \in Revision
    BY <1>3, HostFacts DEF Manager, Standing, JobSane, Kind, Removal, Revision
  <2> QED  BY <1>1, <1>2, <1>3, <2>1, KeptTypes, GoStep DEF KeepJob
<1>4. CASE /\ pc[h] = "withdraw" /\ Quiet /\ revision' = None
           /\ Goto(h, "recover") /\ KeepJob /\ UNCHANGED <<up, bound>>
  <2>1. /\ Alone(h) /\ ~trouble[h] => job[h].previous = Selected
        /\ job[h].kind # "boot" /\ job[h].target = None /\ revision' \in Revision
    BY <1>4, HostFacts DEF Manager, Standing, JobSane, Kind, Removal, Revision
  <2> QED  BY <1>1, <1>2, <1>4, <2>1, KeptTypes, GoStep DEF KeepJob
<1>5. CASE /\ pc[h] = "reactivate" /\ Quiet /\ revision' = job[h].previous /\ Unrestored(h)
  BY <1>1, <1>5, HostFacts, UnrestoredStep
<1> QED  BY <1>3, <1>4, <1>5 DEF Lose

LEMMA CancelStep ==
  ASSUME IInv, UNCHANGED setting, NEW h \in Host, Cancel(h)
  PROVE  IInv'
<1>1. /\ pc[h] # "idle" /\ Return(h, TRUE)
      /\ UNCHANGED <<setting, installed, revision, applied, up, bound, slot, broken, req, ask>>
  BY DEF Cancel, KeepRequests, dbVars, hostVars
<1>2. up[h] = "up"
  BY <1>1, HostFacts DEF Cancel, JobSane, TypeOK
<1>3. faults' \in 0 .. setting.faults
  BY HostFacts DEF Cancel, Happens, Spend
<1> QED  BY <1>1, <1>2, <1>3, ReturnStep

(* A crash takes the requests of the host with it. *)
LEMMA CrashStep ==
  ASSUME IInv, UNCHANGED setting, NEW h \in Host, Crash(h)
  PROVE  IInv'
<1> DEFINE left == trouble[h] \/ pc[h] # "idle"
<1>1. /\ faults' \in 0 .. setting.faults /\ UNCHANGED <<setting, installed, revision, applied>>
      /\ up' = [up EXCEPT ![h] = "down"] /\ bound' = [bound EXCEPT ![h] = None]
      /\ slot' = [slot EXCEPT ![h] = None] /\ broken' = broken \ {h}
      /\ req' = [r \in Request |-> IF HostOf[r] = h THEN "idle" ELSE req[r]]
      /\ ask' = [r \in Request |-> IF HostOf[r] = h THEN NoAsk ELSE ask[r]]
      /\ "restart" \in May[h] /\ up[h] # "down"
  BY HostFacts DEF Crash, Spend, Load, dbVars
<1>2. /\ pc' = [pc EXCEPT ![h] = "idle"] /\ job' = [job EXCEPT ![h] = NoJob]
      /\ trouble' = [trouble EXCEPT ![h] = left] /\ overtaken' = [overtaken EXCEPT ![h] = FALSE]
      /\ left \in BOOLEAN
  BY DEF Crash, Return, End, Goto, IInv, TypeOK
<1>3. TypeOK'
  <2>1. req' \in [Request -> RequestSteps] /\ ask' \in [Request -> Query]
    BY <1>1 DEF IInv, TypeOK, NoAsk, Query, RequestSteps, Revision
  <2>2. job' \in [Host -> Work]
    BY <1>2 DEF IInv, TypeOK, NoJob, Work, Revision
  <2> HIDE DEF left
  <2>3. /\ pc' \in [Host -> Steps] /\ trouble' \in [Host -> BOOLEAN]
        /\ overtaken' \in [Host -> BOOLEAN]
    BY <1>2 DEF IInv, TypeOK, Steps
  <2>4. /\ up' \in [Host -> {"down", "booting", "up"}] /\ bound' \in [Host -> Revision]
        /\ slot' \in [Host -> Revision] /\ broken' \subseteq Host
    BY <1>1 DEF IInv, TypeOK, Revision
  <2> QED  BY <1>1, <2>1, <2>2, <2>3, <2>4, SettingKept
              DEF IInv, TypeOK, Work, Steps, Query, RequestSteps
<1>4. /\ pc'[h] = "idle" /\ job'[h] = NoJob /\ up'[h] = "down"
      /\ ~trouble'[h] => ~trouble[h] /\ pc[h] = "idle"
      /\ bound'[h] = None /\ slot'[h] = None
      /\ \A g \in Host \ {h} :
           /\ pc'[g] = pc[g] /\ job'[g] = job[g] /\ trouble'[g] = trouble[g]
           /\ up'[g] = up[g] /\ bound'[g] = bound[g] /\ slot'[g] = slot[g]
  BY <1>1, <1>2 DEF IInv, TypeOK
<1>5. Schema'
  BY <1>1, <1>4, SettingKept DEF IInv, Schema, Covers
<1>6. Jobs'
  <2>1. JobSane(h)'
    BY <1>4 DEF JobSane, NoJob, Kind, Removal
  <2> QED  BY <1>1, <1>4, <2>1 DEF IInv, Jobs, JobSane
<1>7. Asks'
  <2>1. \A r \in Request : HostOf[r] \in Host
    BY DigestFacts DEF IInv
  <2> QED  BY <1>1, <1>4, <2>1, SettingKept DEF IInv, Asks, AskSane
<1>8. Agree'
  <2>1. \A m \in Host : Alone(m)' => m = h
    BY <1>1, SettingKept DEF Alone
  <2>2. Alone(h) => /\ \A g \in Host \ {h} : pc[g] = "idle" /\ up[g] = "up" /\ ~trouble[g]
                    /\ Manager(h)
    BY DEF IInv, Agree
  <2>3. Selected' = Selected /\ revision' = revision
    BY <1>1, SelectedKept
  <2>4. Alone(h) => Manager(h)'
    BY <1>4, <2>2, <2>3 DEF Manager, Standing, NoJob
  <2> QED  BY <1>4, <2>1, <2>2, <2>4, SettingKept DEF Agree
<1> QED  BY <1>3, <1>5, <1>6, <1>7, <1>8 DEF IInv

-----------------------------------------------------------------------------
(* The invariant is inductive. *)
LEMMA InitIInv == Init => IInv
<1> SUFFICES ASSUME Init PROVE IInv
  OBVIOUS
<1>1. PICK d \in Digest : \E e \in BOOLEAN :
        /\ installed \in {None, [digest |-> d, enabled |-> e, excluded |-> None]}
        /\ revision = Selected
        /\ applied = IF installed = None THEN <<>> ELSE Migrations[d]
        /\ up = [h \in Host |-> "up"]
        /\ bound = [h \in Host |-> Selected]
        /\ slot \in [Host -> {None, Selected}] /\ broken = {}
  BY DEF Init
<1>2. installed # None => installed \in Installation /\ installed.digest = d
  BY <1>1 DEF Installation, Revision
<1>3. Selected \in {None, d} /\ (Selected # None => installed # None)
  BY <1>2 DEF Selected, Enabled
<1>4. /\ setting \in Settings /\ pc = [h \in Host |-> "idle"] /\ job = [h \in Host |-> NoJob]
      /\ req = [r \in Request |-> "idle"] /\ ask = [r \in Request |-> NoAsk]
      /\ trouble = [h \in Host |-> FALSE] /\ overtaken = [h \in Host |-> FALSE]
      /\ faults = setting.faults
  BY DEF Init
<1>5. /\ DOMAIN Migrations = Digest /\ setting.faults \in Nat
      /\ \A c \in Digest : Migrations[c] \in Seq(STRING)
  BY <1>4, SettingsAssumption DEF Migrations
<1>6. TypeOK
  <2>1. applied \in Range(Migrations) \cup {<<>>}
    BY <1>1, <1>5 DEF Range
  <2>2. /\ job \in [Host -> Work] /\ ask \in [Request -> Query]
        /\ pc \in [Host -> Steps] /\ req \in [Request -> RequestSteps]
    BY <1>4 DEF NoJob, NoAsk, Work, Query, Revision, Steps, RequestSteps
  <2>3. /\ installed \in Installation \cup {None} /\ revision \in Revision
        /\ up \in [Host -> {"down", "booting", "up"}] /\ bound \in [Host -> Revision]
        /\ slot \in [Host -> Revision] /\ broken \subseteq Host
    BY <1>1, <1>2, <1>3 DEF Revision
  <2> QED  BY <1>4, <1>5, <2>1, <2>2, <2>3 DEF TypeOK, Work, Query, Steps, RequestSteps
<1>7. Schema
  BY <1>1, <1>3, <1>4, <1>5, PrefixReflexive DEF Schema, Covers
<1>8. Jobs
  BY <1>1, <1>4 DEF Jobs, JobSane, NoJob, Kind, Removal
<1>9. Asks
  BY <1>4 DEF Asks, AskSane
<1>10. Agree
  BY <1>1, <1>4 DEF Agree, Manager, Standing, NoJob
<1> QED  BY <1>6, <1>7, <1>8, <1>9, <1>10 DEF IInv

LEMMA NextIInv == IInv /\ [Next /\ UNCHANGED setting]_vars => IInv'
<1> SUFFICES ASSUME IInv, [Next /\ UNCHANGED setting]_vars PROVE IInv'
  OBVIOUS
<1>1. ASSUME NEW h \in Host, UNCHANGED setting,
             \/ Begin(h) \/ ReadGeneration(h) \/ ReadPrevious(h) \/ BindResources(h) \/ Activate(h)
             \/ Withdraw(h) \/ Commit(h) \/ Bind(h) \/ Recover(h) \/ Restore(h) \/ Rebind(h)
             \/ Reactivate(h) \/ Boot(h)
      PROVE  IInv'
  BY <1>1, BeginStep, ReadGenerationStep, ReadPreviousStep, BindResourcesStep, ActivateStep,
     WithdrawStep, CommitStep, BindStep, RecoverStep, RestoreStep, RebindStep,
     ReactivateStep, BootStep
<1>2. ASSUME NEW h \in Host, UNCHANGED setting,
             Refuse(h) \/ Lose(h) \/ LoseRecord(h) \/ Cancel(h) \/ Crash(h)
      PROVE  IInv'
  BY <1>2, RefuseStep, LoseStep, LoseRecordStep, CancelStep, CrashStep
<1>3. ASSUME NEW r \in Request, UNCHANGED setting,
             \/ Authorize(r) \/ EnsureSlot(r) \/ BindStored(r) \/ Reload(r) \/ Handle(r)
             \/ Respond(r) \/ Displaced(r) \/ Unload(r) \/ RefuseRequest(r) \/ Trap(r)
      PROVE  IInv'
  BY <1>3, AuthorizeStep, EnsureSlotStep, BindStoredStep, ReloadStep, HandleStep,
     RespondStep, DisplacedStep, UnloadStep, RefuseRequestStep, TrapStep
<1>4. CASE UNCHANGED vars
  <2>1. /\ UNCHANGED <<setting, installed, revision, applied, up, bound, slot, broken, pc, job>>
        /\ UNCHANGED <<req, ask, trouble, overtaken, faults>>
    BY <1>4 DEF vars, dbVars, hostVars
  <2>2. TypeOK'
    BY <2>1, SettingKept DEF IInv, TypeOK
  <2>3. Schema'
    BY <2>1, SettingKept DEF IInv, Schema, Covers
  <2>4. Jobs'
    BY <2>1 DEF IInv, Jobs, JobSane
  <2>5. Asks'
    BY <2>1, SettingKept DEF IInv, Asks, AskSane
  <2>6. Agree'
    BY <2>1, SettingKept, SelectedKept DEF IInv, Agree, Manager, Standing, Follows
  <2> QED  BY <2>2, <2>3, <2>4, <2>5, <2>6 DEF IInv
<1> QED  BY <1>1, <1>2, <1>3, <1>4 DEF Next

(* Hence it holds throughout. *)
THEOREM Inductive == Spec => []IInv
  BY InitIInv, NextIInv, PTL DEF Spec

(* Every variable keeps its type (the states of installation.rs, dispatch.rs *)
(* and executors/wasm.rs).                                                  *)
THEOREM TypeCorrect == Spec => []TypeOK
<1>1. IInv => TypeOK
  BY DEF IInv
<1> QED  BY <1>1, Inductive, PTL

(* The schema has the migrations of the active release, however actions,    *)
(* restarts and reloading requests of several hosts interleave, and if      *)
(* several hosts manage the plugin (resources.rs before every activation).  *)
THEOREM SchemaNeverBehind == Spec => []SchemaCoversRelease
<1>1. IInv => SchemaCoversRelease
  BY DEF IInv, Schema, Covers, SchemaCoversRelease
<1> QED  BY <1>1, Inductive, PTL

(* At rest, the only managing host has catalog, release record and routes   *)
(* agreeing (installation.rs: the record is the commit point).              *)
THEOREM StoresAgree == Spec => []StoresAgreeAtRest
<1>1. IInv => StoresAgreeAtRest
  <2> SUFFICES ASSUME IInv, NEW h \in Host, Alone(h), up[h] = "up", pc[h] = "idle", ~trouble[h],
                      Enabled
               PROVE  revision = installed.digest /\ bound[h] = installed.digest
    BY DEF StoresAgreeAtRest
  <2>1. Standing(h)
    BY DEF IInv, Agree, Manager
  <2> QED  BY <2>1 DEF Standing, Selected
<1> QED  BY <1>1, Inductive, PTL

(* One host manages the plugin; the others only serve it. *)
OneManager == \A s \in Settings : \E m \in Host : \A g \in Host \ {m} : s.may[g] = {}

(* It is the one that StoresAgreeAtRest is about. *)
LEMMA ManagerExists ==
  ASSUME OneManager, TypeOK
  PROVE  \E m \in Host : Alone(m)
  BY DEF OneManager, TypeOK, Alone, May

(* A request executes the enabled version or the candidate of an action     *)
(* under way, on any host (dispatch.rs against slot.rs).                    *)
THEOREM ServesEnabled == ASSUME OneManager PROVE Spec => []ServesEnabledVersion
<1>1. IInv => ServesEnabledVersion
  <2> SUFFICES ASSUME IInv, NEW r \in Request, req[r] = "run"
               PROVE  \/ Selected = ask[r].digest
                      \/ \E h \in Host : trouble[h] \/ (Settling(h) /\ job[h].target = ask[r].digest)
    BY DEF ServesEnabledVersion
  <2>1. PICK m \in Host : Alone(m)
    BY ManagerExists DEF IInv
  <2>2. revision = ask[r].digest
    BY DEF IInv, Asks, AskSane
  <2>3. ~trouble[m] => Standing(m)
    BY <2>1 DEF IInv, Agree, Manager
  <2> QED  BY <2>2, <2>3, HostFacts DEF Standing, Settling, Steps
<1> QED  BY <1>1, Inductive, PTL

(* A startup that ends down without a failure. *)
LEMMA StartupStep ==
  ASSUME OneManager, IInv, [Next /\ UNCHANGED setting]_vars, NEW h \in Host, StartupStops(h),
         faults' = faults
  PROVE  ~Fits(job[h].previous)
<1>1. /\ up[h] = "booting" /\ up'[h] = "down" /\ UNCHANGED setting
      /\ job[h].kind = "boot" /\ pc[h] \in {"restore", "rebind", "reactivate"}
      /\ faults \in Nat
  <2>1. /\ up[h] = "booting" /\ up'[h] = "down" /\ faults \in Nat
    BY HostFacts DEF StartupStops
  <2> QED  BY <2>1, HostFacts DEF vars, hostVars, JobSane
<1>2. PICK m \in Host : Alone(m)
  BY ManagerExists DEF IInv
<1>3. m = h /\ slot[h] = None /\ (pc[h] = "reactivate" => Follows(job[h].previous))
  BY <1>1, <1>2 DEF IInv, Agree, Manager
<1>4. up' # up /\ ~Spend
  BY <1>1 DEF Spend
<1>5. Restore(h) \/ Rebind(h) \/ Reactivate(h)
  <2>1. PICK g \in Host : Restore(g) \/ Rebind(g) \/ Reactivate(g) \/ Boot(g)
    BY <1>4
       DEF Next, vars, Begin, ReadGeneration, ReadPrevious, BindResources, Activate,
           Withdraw, Commit, Bind, Recover, Refuse, Lose, LoseRecord, Cancel, Crash,
           Happens, Authorize, EnsureSlot, BindStored, Reload, Handle, Respond, Displaced,
           Unload, RefuseRequest, Trap, hostVars
  <2>2. g # h => up'[h] = up[h]
    BY <2>1 DEF Restore, Rebind, Reactivate, Boot, Restored, Unrestored, IInv, TypeOK
  <2> QED  BY <1>1, <2>1, <2>2 DEF Boot
<1>6. CASE Restore(h)
  <2>1. job[h].previous \in Digest /\ None \notin Digest
    BY <1>6, HostFacts DEF Restore, JobSane
  <2> QED  BY <1>1, <1>3, <1>6, <2>1 DEF Restore
<1>7. CASE Rebind(h)
  BY <1>1, <1>7 DEF Rebind
<1>8. CASE Reactivate(h)
  <2>1. Restored(h)
    BY <1>3, <1>8 DEF Reactivate
  <2> QED  BY <1>1, <2>1 DEF Restored, IInv, TypeOK
<1> QED  BY <1>5, <1>6, <1>7, <1>8

(* A startup that meets no failure stops only at an outgrown schema         *)
(* (Components::restore).                                                   *)
THEOREM StopsOnlyWhenOutgrown == ASSUME OneManager PROVE Spec => OutgrownOnly
<1>1. IInv /\ [Next /\ UNCHANGED setting]_vars
        => [\A h \in Host : StartupStops(h) /\ faults' = faults => ~Fits(job[h].previous)]_vars
  BY StartupStep
<1> QED  BY <1>1, Inductive, PTL DEF Spec, OutgrownOnly
=============================================================================
