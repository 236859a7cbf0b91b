---------------------------- MODULE DeliveryProofs ----------------------------
(***************************************************************************)
(* What holds of publication and automatic upgrades for any sources,       *)
(* commits, workers, hosts and tenants.  The queue keeps its invariant     *)
(* QInv under every step of Delivery, and DInv adds what relates its jobs  *)
(* to the catalog and to the requests:                                     *)
(* - Registered: a job without a row is superseded;                        *)
(* - DTypes: the types, what a publisher holds is a component, and only    *)
(*   commits of packages are requested;                                    *)
(* - Catalogued: the catalog has published a component exactly when its    *)
(*   job is active, with the package of the job;                           *)
(* - Requested, Attended: a package that is being published has a request, *)
(*   and a request that has not ended has a task at its step, unless a     *)
(*   database error has ended a task of it.                                *)
(* Every result of a publication goes to a job that is being published     *)
(* (Ends): so what the queue alone guarantees still holds.  No step moves  *)
(* an installation but to the current publication or as a tenant says,     *)
(* which is what UpgradesAsChosen needs.                                   *)
(***************************************************************************)
EXTENDS Delivery, DeliveryQueueProofs, FunctionTheorems, WellFoundedInduction, SequenceTheorems

(* The types of the variables, with what makes their rows sane. *)
Formats == format \in [Source -> {"component", "package"}]
Publications ==
  /\ released \in [Source -> Seq(Package)]
  /\ \A s \in Source : Len(released[s]) > 0
PublisherRow == [step : {"idle", "holding", "refused"}, job : Job \cup {None}, build : Nat]
RequestRow == [source : Source, package : Package,
               state : {"queued", "running", "active", "failed"}]
TaskRow == [host : Host, source : Source, package : Package,
            step : {"spawned", "working", "active", "failed"}]
InstallRow == [package : Package, enabled : BOOLEAN, excluded : Package, known : BOOLEAN]

Publishers ==
  /\ publisher \in [Host -> PublisherRow]
  /\ \A h \in Host : publisher[h].step # "idle" =>
       publisher[h].job \in Job /\ format[publisher[h].job[1]] = "component"

(* Only commits of package sources are requested. *)
Packaged(s, p) == format[s] = "package" /\ p.commit \in Commit
Requests ==
  /\ requests \in SUBSET RequestRow
  /\ \A r \in requests : Packaged(r.source, r.package)
  /\ latest \in [Source -> Package]
Tasks ==
  /\ tasks \in SUBSET TaskRow
  /\ \A t \in tasks : Packaged(t.source, t.package)
  /\ dropped \in SUBSET (Source \X Package)
Installs == install \in [Tenant -> [Source -> InstallRow]]
Rollouts ==
  /\ rollouts \in SUBSET Row
  /\ roller = [todo |-> roller.todo, done |-> roller.done]
  /\ roller.todo \in SUBSET Row /\ roller.done \in SUBSET Row

(* A component is published exactly when its job is active, once.            *)
Catalogued ==
  \A j \in Job : format[j[1]] = "component" =>
    /\ job[j].state = "active" =>
         job[j].package # 0 /\ \E i \in DOMAIN released[j[1]] : released[j[1]][i].commit = j[2]
    /\ \A i \in DOMAIN released[j[1]] : released[j[1]][i].commit = j[2] =>
         job[j].state = "active" /\ released[j[1]][i].build = job[j].package

(* Every request that is not done has a task, or has lost one.               *)
Requested ==
  \A j \in Job : format[j[1]] = "package" /\ job[j].state = "publishing" =>
    \E r \in requests : r.source = j[1] /\ r.package = PackageOf(j, job[j].package)
Attended ==
  \A r \in requests : <<r.source, r.package>> \notin dropped =>
    /\ r.state = "queued" =>
         \E t \in tasks : t.source = r.source /\ t.package = r.package /\ t.step = "spawned"
    /\ r.state = "running" =>
         \E t \in tasks : /\ t.source = r.source /\ t.package = r.package
                         /\ t.step \in {"working", "active", "failed"}

DTypes == Formats /\ Publications /\ Publishers /\ Requests /\ Tasks /\ Installs /\ Rollouts
DInv == QInv /\ Registered /\ DTypes /\ Catalogued /\ Requested /\ Attended

(* The invariant implies type correctness. *)
LEMMA DTypeOK == DInv => DeliveryTypeOK
<1> SUFFICES ASSUME DInv PROVE DeliveryTypeOK
  OBVIOUS
<1> QED  BY DEF DInv, Publications, DTypes, QInv, DeliveryTypeOK, Formats, Publishers,
                Requests, Tasks, Installs, Rollouts, PublisherRow, RequestRow, TaskRow,
                InstallRow

(* A last publication there always is. *)
LEMMA PublishedType ==
  ASSUME Publications, NEW s \in Source
  PROVE  Published(s) \in Package
  BY DEF Publications, Published, Last

(* The package of a job. *)
LEMMA PackageOfType ==
  ASSUME NEW j \in Job, NEW n \in Nat
  PROVE  PackageOf(j, n) \in Package /\ PackageOf(j, n).commit = j[2] /\ PackageOf(j, n).build = n
  BY DEF Job, PackageOf, Package

(* A package names its job. *)
LEMMA JobOfPackage ==
  ASSUME NEW j \in Job, NEW n
  PROVE  JobOf(j[1], PackageOf(j, n)) = j
  BY DEF Job, JobOf, PackageOf

(* What a release does to the list of publications. *)
LEMMA AppendFacts ==
  ASSUME Publications, NEW s \in Source, NEW p \in Package, Release(s, p)
  PROVE  /\ Publications' /\ Published(s)' = p
         /\ \A q \in Source : q # s => released'[q] = released[q]
         /\ DOMAIN released'[s] = DOMAIN released[s] \cup {Len(released'[s])}
         /\ Len(released'[s]) = Len(released[s]) + 1
         /\ released'[s][Len(released'[s])] = p
         /\ \A i \in DOMAIN released[s] : released'[s][i] = released[s][i]
<1>1. released[s] \in Seq(Package) /\ Len(released[s]) \in Nat
  BY DEF Publications
<1>2. /\ released'[s] = Append(released[s], p)
      /\ \A q \in Source : q # s => released'[q] = released[q]
      /\ released' \in [Source -> Seq(Package)]
  BY <1>1 DEF Publications, Release
<1>3. /\ Len(released'[s]) = Len(released[s]) + 1
      /\ released'[s][Len(released'[s])] = p
      /\ \A i \in DOMAIN released[s] : released'[s][i] = released[s][i]
      /\ DOMAIN released[s] = 1 .. Len(released[s])
      /\ DOMAIN released'[s] = 1 .. Len(released'[s])
  BY <1>1, <1>2
<1>4. Publications'
  <2>1. Len(released'[s]) > 0
    BY <1>1, <1>3
  <2>2. \A q \in Source : q # s => Len(released'[q]) > 0
    BY <1>2 DEF Publications
  <2> QED  BY <1>2, <2>1, <2>2 DEF Publications
<1>5. Published(s)' = p
  BY <1>3 DEF Published, Last
<1>6. DOMAIN released'[s] = DOMAIN released[s] \cup {Len(released'[s])}
  BY <1>1, <1>3
<1> QED  BY <1>2, <1>3, <1>4, <1>5, <1>6

(* A step that leaves the queue alone, but for what is left.                 *)
LEMMA QueueRests ==
  ASSUME QInv, UNCHANGED <<discovery, job, leases, workers, late>>, left' \in Budget
  PROVE  QInv'
<1>1. DiscoveryTypeOK' /\ Observed'
  BY DEF QInv, QueueTypeOK, DiscoveryTypeOK, Observed, discovery
<1> QED  BY <1>1, DiscoveryOnly

(* What the properties of the publication need of the jobs. *)
LEMMA JobsRest ==
  ASSUME DInv, UNCHANGED <<job, format>>
  PROVE  /\ Registered' /\ Formats'
         /\ released' = released => Catalogued'
         /\ requests' = requests => Requested'
         /\ UNCHANGED <<requests, tasks, dropped>> => Attended'
<1>1. Registered' /\ Formats'
  BY DEF DInv, Registered, DTypes, Formats
<1>2. released' = released => Catalogued'
  BY DEF DInv, Catalogued
<1>3. requests' = requests => Requested'
  BY DEF DInv, Requested
<1>4. UNCHANGED <<requests, tasks, dropped>> => Attended'
  BY DEF DInv, Attended
<1> QED  BY <1>1, <1>2, <1>3, <1>4

-----------------------------------------------------------------------------
(* Publishers. *)

(* A publisher takes a component. *)
LEMMA TakeKeeps ==
  ASSUME DInv, NEW h \in Host, Take(h)
  PROVE  DInv'
<1>1. PICK j \in Pending :
        publisher' = [publisher EXCEPT ![h] = [step |-> "holding", job |-> j,
                                               build |-> job[j].archive]]
  BY DEF Take
<1>2. j \in Job /\ format[j[1]] = "component" /\ job[j].archive \in Nat
  BY HeldFacts DEF Pending, DInv, JobRow
<1>3. UNCHANGED <<queueVars, format, catalog, packages, upgrades>>
  BY DEF Take
<1>4. Publishers'
  <2>1. [step |-> "holding", job |-> j, build |-> job[j].archive] \in PublisherRow
    BY <1>2 DEF PublisherRow
  <2> QED  BY <1>1, <1>2, <1>3, <2>1 DEF DInv, DTypes, Publishers
<1>5. QInv'
  BY <1>3, QueueRests, HeldFacts DEF DInv, queueVars, discovery, workers
<1>6. Publications' /\ Requests' /\ Tasks' /\ Installs' /\ Rollouts'
  BY <1>3
     DEF DInv, DTypes, Publications, Requests, Tasks, Packaged, Installs, Rollouts, catalog,
         packages, upgrades
<1> QED  BY <1>3, <1>4, <1>5, <1>6, JobsRest DEF DInv, DTypes, queueVars, catalog, packages

(* Sweeping takes archives only, of jobs that are done. *)
LEMMA SweptFacts ==
  ASSUME NEW rows \in [Job -> JobRow], NEW j \in Job
  PROVE  LET a == Swept(rows)[j]  b == rows[j] IN
         /\ a \in JobRow /\ a.state = b.state /\ a.lease = b.lease /\ a.live = b.live
         /\ a.package = b.package /\ a.order = b.order
         /\ a.archive = b.archive \/ a.archive = 0
         /\ a.state = "publishing" => a.archive = b.archive
<1> DEFINE b == rows[j]
<1>1. b \in JobRow
  OBVIOUS
<1>2. Swept(rows)[j] = b \/ (/\ Swept(rows)[j] = [b EXCEPT !.archive = 0]
                              /\ b.state \in {"superseded", "active"})
  BY DEF Swept, Unneeded
<1> HIDE DEF b
<1>3. LET a == [b EXCEPT !.archive = 0] IN
      /\ a \in JobRow /\ a.state = b.state /\ a.lease = b.lease /\ a.live = b.live
      /\ a.package = b.package /\ a.order = b.order /\ a.archive = 0
  BY <1>1 DEF JobRow
<1> QED  BY <1>1, <1>2, <1>3 DEF b

(* A publisher that ends a job, or only sweeps. *)
LEMMA MarkFacts ==
  ASSUME DInv, NEW j \in Job, NEW x \in {"active", "failed"}, job[j].state = "publishing",
         job' = Swept([job EXCEPT ![j].state = x])
  PROVE  /\ job' \in [Job -> JobRow]
         /\ job'[j].state = x
         /\ \A k \in Job : k # j => job'[k].state = job[k].state
         /\ \A k \in Job : /\ job'[k].order = job[k].order /\ job'[k].package = job[k].package
                           /\ job'[k].lease = job[k].lease
                           /\ job'[k].live = job[k].live
                           /\ job'[k].archive = job[k].archive \/ job'[k].archive = 0
                           /\ job'[k].state = "publishing" => job'[k].archive # 0
<1> DEFINE rows == [job EXCEPT ![j].state = x]
<1>1. job \in [Job -> JobRow] /\ job[j] \in JobRow
  BY DEF DInv, QInv, QueueTypeOK, JobTypeOK
<1>2. [job[j] EXCEPT !.state = x] \in JobRow
  BY <1>1 DEF JobRow, Unfinished
<1>3. rows \in [Job -> JobRow] /\ rows[j] = [job[j] EXCEPT !.state = x]
      /\ \A k \in Job : k # j => rows[k] = job[k]
  BY <1>1, <1>2
<1>4. /\ rows[j].state = x /\ rows[j].order = job[j].order /\ rows[j].package = job[j].package
      /\ rows[j].lease = job[j].lease /\ rows[j].live = job[j].live
      /\ rows[j].archive = job[j].archive
  BY <1>1, <1>3 DEF JobRow
<1> HIDE DEF rows
<1>5. job' = Swept(rows)
  BY DEF rows
<1>6. job' \in [Job -> JobRow]
  BY <1>3, <1>5, SweptFacts DEF Swept
<1>7. \A k \in Job : job[k].state = "publishing" => job[k].archive # 0
  BY DEF DInv, QInv, Archives
<1>8. ASSUME NEW k \in Job
      PROVE  /\ job'[k].state = rows[k].state /\ job'[k].order = rows[k].order
             /\ job'[k].package = rows[k].package
             /\ job'[k].lease = rows[k].lease /\ job'[k].live = rows[k].live
             /\ job'[k].archive = rows[k].archive \/ job'[k].archive = 0
             /\ job'[k].state = "publishing" => job'[k].archive = rows[k].archive
  BY <1>3, <1>5, SweptFacts
<1>9. \A k \in Job : k # j => rows[k] = job[k]
  BY <1>3
<1>10. \A k \in Job : /\ rows[k].order = job[k].order /\ rows[k].package = job[k].package
                      /\ rows[k].lease = job[k].lease /\ rows[k].live = job[k].live
                      /\ rows[k].archive = job[k].archive
                      /\ rows[k].state = "publishing" => job[k].state = "publishing"
  BY <1>3, <1>4
<1>11. ASSUME NEW k \in Job
       PROVE  /\ job'[k].order = job[k].order /\ job'[k].package = job[k].package
              /\ job'[k].lease = job[k].lease /\ job'[k].live = job[k].live
              /\ job'[k].archive = job[k].archive \/ job'[k].archive = 0
              /\ job'[k].state = "publishing" => job'[k].archive # 0
  <2>1. /\ job'[k].order = job[k].order /\ job'[k].package = job[k].package
        /\ job'[k].lease = job[k].lease /\ job'[k].live = job[k].live
    BY <1>8, <1>10
  <2>2. job'[k].archive = job[k].archive \/ job'[k].archive = 0
    BY <1>8, <1>10
  <2>3. job'[k].state = "publishing" => job'[k].archive # 0
    BY <1>7, <1>8, <1>10
  <2> QED  BY <2>1, <2>2, <2>3
<1>12. job'[j].state = x /\ \A k \in Job : k # j => job'[k].state = job[k].state
  BY <1>4, <1>8, <1>9
<1> QED  BY <1>6, <1>11, <1>12

(* Publishers and copied results settle jobs as the queue allows it: QInv  *)
(* and the rows stay. *)
LEMMA SettlingKeeps ==
  ASSUME DInv, job' \in [Job -> JobRow], left' \in Budget,
         UNCHANGED <<discovery, leases, workers, late, format>>,
         \A k \in Job : /\ job'[k].order = job[k].order /\ job'[k].package = job[k].package
                        /\ job'[k].lease = job[k].lease /\ job'[k].live = job[k].live
                        /\ job'[k].archive = job[k].archive \/ job'[k].archive = 0
                        /\ job'[k].state = "publishing" => job'[k].archive # 0
                        /\ \/ job'[k].state = job[k].state
                           \/ job[k].state = "publishing" /\ job'[k].state \in {"active", "failed"}
  PROVE  QInv' /\ Registered'
<1>1. QInv'
  BY SettlingOnly DEF DInv, Busied, Held
<1>2. Registered'
  BY DEF DInv, Registered
<1> QED  BY <1>1, <1>2

(* What a publisher leaves alone. *)
LEMMA OthersRest ==
  ASSUME DInv, UNCHANGED <<format, packages, upgrades, install>>
  PROVE  Formats' /\ Requests' /\ Tasks' /\ Installs' /\ Rollouts'
  BY DEF DInv, DTypes, Formats, Requests, Tasks, Packaged, Installs, Rollouts, packages,
         upgrades

(* A publisher that goes to another row. *)
LEMMA PublisherRests ==
  ASSUME DInv, NEW h \in Host, NEW r \in PublisherRow, publisher' = [publisher EXCEPT ![h] = r],
         r.step = "idle" \/ (r.job \in Job /\ format[r.job[1]] = "component"), UNCHANGED format
  PROVE  Publishers'
  BY DEF DInv, DTypes, Publishers

(* A publisher may rest. *)
LEMMA RestingRow == Resting \in PublisherRow /\ Resting.step = "idle"
  BY DEF Resting, PublisherRow

(* The publishing transaction: the new release and its active job agree. *)
LEMMA CommitKeeps ==
  ASSUME DInv, NEW h \in Host, CommitPublication(h), Publishers', left' \in Budget,
         UNCHANGED <<discovery, leases, workers, late, format, install, packages, upgrades>>
  PROVE  DInv'
<1> DEFINE j == publisher[h].job  build == publisher[h].build  s == j[1]  p == PackageOf(j, build)
<1>1. /\ publisher[h].step = "holding" /\ Publishable(j, build)
      /\ Release(s, p) /\ job' = Swept([job EXCEPT ![j].state = "active"])
  BY DEF CommitPublication
<1>2. j \in Job /\ format[s] = "component" /\ build \in Nat
  BY <1>1 DEF DInv, DTypes, Publishers, PublisherRow
<1>3. job[j].state = "publishing" /\ job[j].package = build
  BY <1>1 DEF Publishable
<1>4. /\ job' \in [Job -> JobRow] /\ job'[j].state = "active"
      /\ \A k \in Job : k # j => job'[k].state = job[k].state
      /\ \A k \in Job : /\ job'[k].order = job[k].order /\ job'[k].package = job[k].package
                        /\ job'[k].lease = job[k].lease /\ job'[k].live = job[k].live
                        /\ job'[k].archive = job[k].archive \/ job'[k].archive = 0
                        /\ job'[k].state = "publishing" => job'[k].archive # 0
  BY <1>1, <1>2, <1>3, MarkFacts
<1>5. build # 0
  BY <1>2, <1>3 DEF DInv, QInv, Archives
<1>6. /\ s \in Source /\ j = <<s, j[2]>> /\ j[2] \in Commit
      /\ p \in Package /\ p.commit = j[2] /\ p.build = build
  BY <1>2, PackageOfType DEF Job
<1> HIDE DEF p, build, j, s
<1>7. /\ Publications'
      /\ \A q \in Source : q # s => released'[q] = released[q]
      /\ DOMAIN released'[s] = DOMAIN released[s] \cup {Len(released'[s])}
      /\ released'[s][Len(released'[s])] = p
      /\ \A i \in DOMAIN released[s] : released'[s][i] = released[s][i]
  BY <1>1, <1>6, AppendFacts DEF DInv, DTypes
<1>8. QInv' /\ Registered'
  BY <1>3, <1>4, SettlingKeeps
<1>9. Catalogued'
  <2> SUFFICES ASSUME NEW k \in Job, format[k[1]] = "component"
               PROVE  /\ job'[k].state = "active" =>
                           /\ job'[k].package # 0
                           /\ \E i \in DOMAIN released'[k[1]] : released'[k[1]][i].commit = k[2]
                      /\ \A i \in DOMAIN released'[k[1]] : released'[k[1]][i].commit = k[2] =>
                           /\ job'[k].state = "active"
                           /\ released'[k[1]][i].build = job'[k].package
    BY DEF Catalogued
  <2>0. k = <<k[1], k[2]>> /\ k[1] \in Source
    BY DEF Job
  <2>1. CASE k = j
    <3>1. \A i \in DOMAIN released[s] : released[s][i].commit # k[2]
      BY <1>2, <1>3, <2>1 DEF DInv, Catalogued, s
    <3>2. k[1] = s /\ k[2] = p.commit
      BY <1>6, <2>1 DEF s
    <3> QED  BY <1>3, <1>4, <1>5, <1>6, <1>7, <2>1, <3>1, <3>2
  <2>2. CASE k # j /\ k[1] # s
    <3>1. released'[k[1]] = released[k[1]] /\ job'[k].state = job[k].state
          /\ job'[k].package = job[k].package
      BY <1>4, <1>7, <2>0, <2>2
    <3> QED  BY <3>1 DEF DInv, Catalogued
  <2>3. CASE k # j /\ k[1] = s
    <3>1. k[2] # p.commit
      BY <1>6, <2>0, <2>3
    <3>2. job'[k].state = job[k].state /\ job'[k].package = job[k].package
      BY <1>4, <2>3
    <3>3. \A i \in DOMAIN released'[s] : released'[s][i].commit = k[2] => i \in DOMAIN released[s]
      BY <1>7, <3>1
    <3>4. \A i \in DOMAIN released[s] :
            i \in DOMAIN released'[s] /\ released'[s][i] = released[s][i]
      BY <1>7
    <3> QED  BY <2>3, <3>2, <3>3, <3>4 DEF DInv, Catalogued
  <2> QED  BY <2>1, <2>2, <2>3
<1>10. Requested'
  <2> SUFFICES ASSUME NEW k \in Job, format[k[1]] = "package", job'[k].state = "publishing"
               PROVE  \E r \in requests' : r.source = k[1]
                                            /\ r.package = PackageOf(k, job'[k].package)
    BY DEF Requested
  <2>1. k # j
    BY <1>4
  <2> QED  BY <1>4, <2>1 DEF DInv, Requested, packages
<1>11. Attended'
  BY DEF DInv, Attended, packages
<1> QED  BY <1>7, <1>8, <1>9, <1>10, <1>11, OthersRest DEF DInv, DTypes

(* A publication that is answered. *)
LEMMA PublishKeeps ==
  ASSUME DInv, NEW h \in Host, Publish(h)
  PROVE  DInv'
<1>1. Publishers'
  BY PublisherRests, RestingRow DEF Publish
<1>2. left' \in Budget
  BY HeldFacts DEF Publish, DInv
<1> QED  BY <1>1, <1>2, CommitKeeps DEF Publish

(* A publication whose answer is lost: its job is active, so that marking  *)
(* it failed later changes nothing. *)
LEMMA PublishUnansweredKeeps ==
  ASSUME DInv, NEW h \in Host, PublishUnanswered(h)
  PROVE  DInv'
<1> DEFINE r == [publisher[h] EXCEPT !.step = "refused"]
<1>1. publisher[h] \in PublisherRow /\ publisher[h].job \in Job
      /\ format[publisher[h].job[1]] = "component"
  BY DEF DInv, DTypes, Publishers, PublishUnanswered, CommitPublication
<1>2. r \in PublisherRow /\ r.job = publisher[h].job
  BY <1>1 DEF PublisherRow
<1>3. Publishers'
  BY <1>1, <1>2, PublisherRests DEF PublishUnanswered
<1>4. left' \in Budget
  BY HeldFacts, SpendKeeps DEF PublishUnanswered, DInv
<1> QED  BY <1>3, <1>4, CommitKeeps DEF PublishUnanswered

(* A refusal changes the publisher only. *)
LEMMA RefuseKeeps ==
  ASSUME DInv, NEW h \in Host, Refuse(h)
  PROVE  DInv'
<1> DEFINE r == [publisher[h] EXCEPT !.step = "refused"]
<1>1. publisher[h] \in PublisherRow /\ publisher[h].job \in Job
      /\ format[publisher[h].job[1]] = "component"
  BY DEF DInv, DTypes, Publishers, Refuse
<1>2. r \in PublisherRow /\ r.job = publisher[h].job
  BY <1>1 DEF PublisherRow
<1>3. UNCHANGED <<discovery, job, leases, workers, late, format, catalog, packages, upgrades>>
  BY DEF Refuse
<1>4. Publishers'
  BY <1>1, <1>2, <1>3, PublisherRests DEF Refuse
<1>5. left' \in Budget
  BY HeldFacts, SpendKeeps DEF Refuse, DInv
<1>6. QInv'
  BY <1>3, <1>5, QueueRests DEF DInv
<1>7. Publications'
  BY <1>3 DEF DInv, DTypes, Publications, catalog
<1> QED  BY <1>3, <1>4, <1>6, <1>7, JobsRest, OthersRest DEF DInv, DTypes, catalog, packages

(* Steps that mark jobs without publishing. *)
LEMMA MarkingKeeps ==
  ASSUME DInv, job' \in [Job -> JobRow],
         UNCHANGED <<discovery, leases, workers, late, left, format, catalog, packages, upgrades>>,
         Publishers',
         \A k \in Job : /\ job'[k].order = job[k].order /\ job'[k].package = job[k].package
                        /\ job'[k].lease = job[k].lease /\ job'[k].live = job[k].live
                        /\ job'[k].archive = job[k].archive \/ job'[k].archive = 0
                        /\ job'[k].state = "publishing" => job'[k].archive # 0
                        /\ \/ job'[k].state = job[k].state
                           \/ /\ job[k].state = "publishing"
                              /\ job'[k].state = "failed"
                                 \/ (job'[k].state = "active" /\ format[k[1]] = "package")
  PROVE  DInv'
<1>1. QInv' /\ Registered'
  BY HeldFacts, SettlingKeeps DEF DInv
<1>2. Publications'
  BY DEF DInv, DTypes, Publications, catalog
<1>3. Catalogued'
  <2> SUFFICES ASSUME NEW k \in Job, format[k[1]] = "component"
               PROVE  (job'[k].state = "active" <=> job[k].state = "active")
                      /\ job'[k].package = job[k].package
    BY DEF DInv, Catalogued, catalog
  <2>1. job'[k].state = "active" => job[k].state = "active"
    BY DEF DInv, DTypes, Formats, Job
  <2> QED  BY <2>1
<1>4. Requested'
  BY DEF DInv, Requested, packages
<1>5. Attended'
  BY DEF DInv, Attended, packages
<1> QED  BY <1>1, <1>2, <1>3, <1>4, <1>5, OthersRest DEF DInv, DTypes, catalog

(* A step that only removes archives. *)
LEMMA SweepingKeeps ==
  ASSUME DInv, job' = Swept(job), Publishers',
         UNCHANGED <<discovery, leases, workers, late, left, format, catalog, packages, upgrades>>
  PROVE  DInv'
<1>1. job \in [Job -> JobRow]
  BY DEF DInv, QInv, QueueTypeOK, JobTypeOK
<1>2. job' \in [Job -> JobRow]
  BY <1>1, SweptFacts DEF Swept
<1>3. ASSUME NEW k \in Job
      PROVE  /\ job'[k].state = job[k].state /\ job'[k].order = job[k].order
             /\ job'[k].package = job[k].package
             /\ job'[k].lease = job[k].lease /\ job'[k].live = job[k].live
             /\ job'[k].archive = job[k].archive \/ job'[k].archive = 0
             /\ job'[k].state = "publishing" => job'[k].archive # 0
  <2>1. job[k].state = "publishing" => job[k].archive # 0
    BY DEF DInv, QInv, Archives
  <2> QED  BY <1>1, <2>1, SweptFacts
<1> QED  BY <1>2, <1>3, MarkingKeeps

(* Only a job that is still being published is marked failed. *)
LEMMA MarkFailedKeeps ==
  ASSUME DInv, NEW h \in Host, MarkFailed(h)
  PROVE  DInv'
<1> DEFINE j == publisher[h].job
<1>1. j \in Job /\ job \in [Job -> JobRow] /\ job[j] \in JobRow
  BY DEF MarkFailed, DInv, DTypes, Publishers, QInv, QueueTypeOK, JobTypeOK
<1>2. Publishers'
  BY PublisherRests, RestingRow DEF MarkFailed
<1>3. UNCHANGED <<discovery, leases, workers, late, left, format, catalog, packages, upgrades>>
  BY DEF MarkFailed
<1>4. CASE job[j].state = "publishing"
  <2>1. job' = Swept([job EXCEPT ![j].state = "failed"])
    BY <1>4 DEF MarkFailed
  <2>2. /\ job' \in [Job -> JobRow]
        /\ job'[j].state = "failed"
        /\ \A k \in Job : k # j => job'[k].state = job[k].state
        /\ \A k \in Job : /\ job'[k].order = job[k].order /\ job'[k].package = job[k].package
                          /\ job'[k].lease = job[k].lease
                          /\ job'[k].live = job[k].live
                          /\ job'[k].archive = job[k].archive \/ job'[k].archive = 0
                          /\ job'[k].state = "publishing" => job'[k].archive # 0
    BY <1>1, <1>4, <2>1, MarkFacts
  <2>3. \A k \in Job : \/ job'[k].state = job[k].state
                       \/ job[k].state = "publishing" /\ job'[k].state = "failed"
    <3> HIDE DEF j
    <3> QED  BY <1>4, <2>2
  <2>4. job' \in [Job -> JobRow]
    BY <2>2
  <2>5. \A k \in Job : /\ job'[k].order = job[k].order /\ job'[k].package = job[k].package
                       /\ job'[k].lease = job[k].lease
                       /\ job'[k].live = job[k].live
                       /\ job'[k].archive = job[k].archive \/ job'[k].archive = 0
                       /\ job'[k].state = "publishing" => job'[k].archive # 0
    BY <2>2
  <2> HIDE DEF j
  <2> QED  BY <1>2, <1>3, <2>3, <2>4, <2>5, MarkingKeeps
<1>5. CASE job[j].state # "publishing"
  <2>1. [job EXCEPT ![j].state = job[j].state] = job
    BY <1>1 DEF JobRow
  <2>2. job' = Swept(job)
    BY <1>1, <1>5, <2>1 DEF MarkFailed
  <2> QED  BY <1>1, <1>2, <1>3, <2>2, SweepingKeeps
<1> QED  BY <1>4, <1>5

(* A round that finds nothing to publish. *)
LEMMA SweepKeeps ==
  ASSUME DInv, NEW h \in Host, Sweep(h)
  PROVE  DInv'
<1>1. Publishers'
  BY DEF DInv, DTypes, Publishers, Sweep
<1> QED  BY <1>1, SweepingKeeps DEF Sweep

(* Results are only copied to the jobs of packages. *)
LEMMA CopyKeeps ==
  ASSUME DInv, Copy
  PROVE  DInv'
<1>1. UNCHANGED <<discovery, leases, workers, late, left, format, catalog, publisher, packages,
                  upgrades>>
  BY DEF Copy
<1>2. Publishers'
  BY <1>1 DEF DInv, DTypes, Publishers
<1>3. ASSUME NEW k \in Job
      PROVE  /\ job'[k] \in JobRow
             /\ \/ job'[k] = job[k]
                \/ /\ format[k[1]] = "package" /\ job[k].state = "publishing"
                   /\ \E x \in {"active", "failed"} : job'[k] = [job[k] EXCEPT !.state = x]
  <2>1. job'[k] = Copied(k) /\ job[k] \in JobRow
    BY HeldFacts DEF Copy, DInv
  <2>2. CASE job'[k] = job[k]
    BY <2>1, <2>2
  <2>3. CASE job'[k] # job[k]
    <3> DEFINE ended == Results(k) \cap {"active", "failed"}
               x == CHOOSE state \in ended : TRUE
    <3>1. /\ format[k[1]] = "package" /\ job[k].state = "publishing" /\ ended # {}
          /\ job'[k] = [job[k] EXCEPT !.state = x]
      BY <2>1, <2>3 DEF Copied
    <3>2. x \in {"active", "failed"}
      BY <3>1
    <3> HIDE DEF x
    <3>3. [job[k] EXCEPT !.state = x] \in JobRow
      BY <2>1, <3>2 DEF JobRow, Unfinished
    <3> QED  BY <3>1, <3>2, <3>3
  <2> QED  BY <2>2, <2>3
<1>4. job' \in [Job -> JobRow]
  BY <1>3 DEF Copy
<1>5. ASSUME NEW k \in Job
      PROVE  /\ job'[k].order = job[k].order /\ job'[k].package = job[k].package
             /\ job'[k].lease = job[k].lease /\ job'[k].live = job[k].live
             /\ job'[k].archive = job[k].archive
             /\ job'[k].state = "publishing" => job'[k].archive # 0
             /\ \/ job'[k].state = job[k].state
                \/ /\ job[k].state = "publishing"
                   /\ job'[k].state = "failed"
                      \/ (job'[k].state = "active" /\ format[k[1]] = "package")
  <2>0. job[k].state = "publishing" => job[k].archive # 0
    BY DEF DInv, QInv, Archives
  <2>1. CASE job'[k] = job[k]
    BY <2>0, <2>1
  <2>2. ASSUME format[k[1]] = "package", job[k].state = "publishing",
               NEW x \in {"active", "failed"}, job'[k] = [job[k] EXCEPT !.state = x]
        PROVE  /\ job'[k].order = job[k].order /\ job'[k].package = job[k].package
               /\ job'[k].lease = job[k].lease /\ job'[k].live = job[k].live
               /\ job'[k].archive = job[k].archive /\ job'[k].state = x
    <3>1. job[k] \in JobRow
      BY HeldFacts DEF DInv
    <3> QED  BY <2>2, <3>1 DEF JobRow
  <2>3. CASE job'[k] # job[k]
    <3>1. PICK x \in {"active", "failed"} : job'[k] = [job[k] EXCEPT !.state = x]
      BY <1>3, <2>3
    <3>2. format[k[1]] = "package" /\ job[k].state = "publishing"
      BY <1>3, <2>3
    <3>3. /\ job'[k].order = job[k].order /\ job'[k].package = job[k].package
          /\ job'[k].lease = job[k].lease /\ job'[k].live = job[k].live
          /\ job'[k].archive = job[k].archive /\ job'[k].state = x
      BY <2>2, <3>1, <3>2
    <3> QED  BY <2>0, <3>1, <3>2, <3>3
  <2> QED  BY <2>1, <2>3
<1> QED  BY <1>1, <1>2, <1>4, <1>5, MarkingKeeps

-----------------------------------------------------------------------------
(* Requests and their tasks. *)

(* Steps of requests and tasks leave the queue and the catalog alone. *)
LEMMA TasksOnly ==
  ASSUME DInv, UNCHANGED <<discovery, job, leases, workers, late, format, catalog, upgrades>>,
         left' \in Budget, Publishers', Requests', Tasks', Requested', Attended'
  PROVE  DInv'
<1>1. QInv'
  BY QueueRests DEF DInv
<1>2. Registered' /\ Formats' /\ Catalogued'
  BY JobsRest DEF catalog
<1>3. Publications' /\ Installs' /\ Rollouts'
  BY DEF DInv, DTypes, Publications, Installs, Rollouts, catalog, upgrades
<1> QED  BY <1>1, <1>2, <1>3 DEF DInv, DTypes

(* A task that goes to another step. *)
LEMMA TaskChange ==
  ASSUME DInv, NEW t \in tasks, NEW x \in {"spawned", "working", "active", "failed"},
         NEW n, n = [t EXCEPT !.step = x]
  PROVE  /\ n \in TaskRow /\ n.source = t.source /\ n.package = t.package /\ n.step = x
         /\ n.host = t.host /\ Packaged(t.source, t.package)
         /\ t \in TaskRow
  BY DEF DInv, DTypes, Tasks, TaskRow

(* What setting the state of a request does to the requests. *)
LEMMA SetStateFacts ==
  ASSUME DInv, NEW s, NEW p, NEW x \in {"queued", "running", "active", "failed"},
         requests' = SetState(s, p, x)
  PROVE  /\ \A r \in requests' :
              /\ r \in RequestRow
              /\ \E q \in requests : q.source = r.source /\ q.package = r.package
              /\ IF r.source = s /\ r.package = p THEN r.state = x ELSE r \in requests
         /\ \A q \in requests : \E r \in requests' : q.source = r.source /\ q.package = r.package
<1> DEFINE F(r) == IF r \in Asked(s, p) THEN [r EXCEPT !.state = x] ELSE r
<1>1. ASSUME NEW r \in requests
      PROVE  /\ F(r) \in RequestRow /\ F(r).source = r.source /\ F(r).package = r.package
             /\ IF r.source = s /\ r.package = p THEN F(r).state = x ELSE F(r) = r
  <2>1. r \in RequestRow
    BY DEF DInv, DTypes, Requests
  <2> QED  BY <2>1 DEF Asked, RequestRow
<1>2. requests' = {F(r) : r \in requests}
  BY DEF SetState
<1> HIDE DEF F
<1> QED  BY <1>1, <1>2

(* The task that claims a queued request works at it. *)
LEMMA StartTaskKeeps ==
  ASSUME DInv, NEW t \in tasks, StartTask(t)
  PROVE  DInv'
<1> DEFINE s == t.source  p == t.package  n == [t EXCEPT !.step = "working"]
<1>1. /\ UNCHANGED <<queueVars, format, catalog, publisher, latest, dropped, upgrades>>
      /\ t.step = "spawned"
  BY DEF StartTask
<1>2. /\ n \in TaskRow /\ n.source = s /\ n.package = p /\ n.step = "working"
      /\ Packaged(s, p) /\ t \in TaskRow
  BY TaskChange
<1>3. Publishers' /\ left' \in Budget
  BY <1>1, HeldFacts DEF DInv, DTypes, Publishers, queueVars
<1>4. CASE InState(s, p, "queued")
  <2>1. requests' = SetState(s, p, "running") /\ tasks' = (tasks \ {t}) \cup {n}
    BY <1>4 DEF StartTask
  <2>2. /\ \A r \in requests' :
              /\ r \in RequestRow
              /\ \E q \in requests : q.source = r.source /\ q.package = r.package
              /\ IF r.source = s /\ r.package = p THEN r.state = "running" ELSE r \in requests
        /\ \A q \in requests : \E r \in requests' : q.source = r.source /\ q.package = r.package
    BY <2>1, SetStateFacts
  <2> HIDE DEF n, s, p
  <2>3. Requests'
    BY <1>1, <2>2 DEF DInv, DTypes, Requests, Packaged
  <2>4. Tasks'
    BY <1>1, <1>2, <2>1 DEF DInv, DTypes, Tasks, Packaged
  <2>5. Requested'
    BY <1>1, <2>2 DEF DInv, Requested, queueVars
  <2>6. Attended'
    <3>1. ASSUME NEW r \in requests', r.source = s /\ r.package = p
          PROVE  r.state = "running" /\ n \in tasks' /\ n.source = r.source
                 /\ n.package = r.package /\ n.step = "working"
      BY <1>2, <2>1, <2>2, <3>1
    <3>2. ASSUME NEW r \in requests', ~(r.source = s /\ r.package = p)
          PROVE  /\ r \in requests
                 /\ \A x \in tasks : x.source = r.source /\ x.package = r.package => x \in tasks'
      BY <2>1, <2>2, <3>2 DEF s, p
    <3> QED  BY <1>1, <3>1, <3>2 DEF DInv, Attended
  <2> QED  BY <1>1, <1>3, <2>3, <2>4, <2>5, <2>6, TasksOnly
              DEF queueVars, discovery, workers
<1>5. CASE ~InState(s, p, "queued")
  <2>1. requests' = requests /\ tasks' = tasks \ {t}
    BY <1>5 DEF StartTask
  <2>2. Requests' /\ Tasks'
    BY <1>1, <2>1 DEF DInv, DTypes, Requests, Tasks, Packaged
  <2>3. Requested'
    BY <1>1, <2>1 DEF DInv, Requested, queueVars
  <2>4. Attended'
    <3>1. \A r \in requests : r.state = "queued" => ~(r.source = s /\ r.package = p)
      BY <1>5 DEF InState, Asked
    <3> SUFFICES ASSUME NEW r \in requests, <<r.source, r.package>> \notin dropped
                 PROVE  /\ r.state = "queued" =>
                             \E x \in tasks' : /\ x.source = r.source /\ x.package = r.package
                                              /\ x.step = "spawned"
                        /\ r.state = "running" =>
                             \E x \in tasks' : /\ x.source = r.source /\ x.package = r.package
                                              /\ x.step \in {"working", "active", "failed"}
      BY <1>1, <2>1 DEF Attended
    <3>2. \A x \in tasks : /\ x.source = r.source /\ x.package = r.package
                           /\ (r.state = "queued" \/ x.step # "spawned")
                           => x \in tasks'
      BY <1>1, <2>1, <3>1
    <3>3. /\ r.state = "queued" =>
               \E x \in tasks : /\ x.source = r.source /\ x.package = r.package
                               /\ x.step = "spawned"
          /\ r.state = "running" =>
               \E x \in tasks : /\ x.source = r.source /\ x.package = r.package
                               /\ x.step \in {"working", "active", "failed"}
      BY DEF DInv, Attended
    <3> HIDE DEF s, p
    <3> QED  BY <3>2, <3>3
  <2> QED  BY <1>1, <1>3, <2>2, <2>3, <2>4, TasksOnly DEF queueVars, discovery, workers
<1> QED  BY <1>4, <1>5

(* A refused task still has its result to deliver. *)
LEMMA RefuseTaskKeeps ==
  ASSUME DInv, NEW t \in tasks, RefuseTask(t)
  PROVE  DInv'
<1> DEFINE n == [t EXCEPT !.step = "failed"]
<1>1. /\ UNCHANGED <<discovery, job, leases, workers, late, format, catalog, publisher, requests,
                     latest, dropped, upgrades>>
      /\ t.step = "working" /\ tasks' = (tasks \ {t}) \cup {n}
  BY DEF RefuseTask, StepTask
<1>2. /\ n \in TaskRow /\ n.source = t.source /\ n.package = t.package /\ n.step = "failed"
      /\ Packaged(t.source, t.package)
  BY TaskChange
<1> HIDE DEF n
<1>3. Publishers' /\ left' \in Budget
  BY HeldFacts, SpendKeeps DEF DInv, DTypes, Publishers, RefuseTask
<1>4. Requests' /\ Tasks'
  BY <1>1, <1>2 DEF DInv, DTypes, Requests, Tasks, Packaged
<1>5. Requested'
  BY <1>1 DEF DInv, Requested
<1>6. Attended'
  BY <1>1, <1>2 DEF DInv, Attended
<1> QED  BY <1>1, <1>3, <1>4, <1>5, <1>6, TasksOnly

(* A task delivers its result before it goes. *)
LEMMA FinishTaskKeeps ==
  ASSUME DInv, NEW t \in tasks, FinishTask(t)
  PROVE  DInv'
<1> DEFINE s == t.source  p == t.package
<1>1. /\ UNCHANGED <<queueVars, format, catalog, publisher, latest, dropped, upgrades>>
      /\ t.step \in {"active", "failed"} /\ tasks' = tasks \ {t}
  BY DEF FinishTask
<1>2. Publishers' /\ left' \in Budget
  BY <1>1, HeldFacts DEF DInv, DTypes, Publishers, queueVars
<1>3. Tasks'
  BY <1>1 DEF DInv, DTypes, Tasks, Packaged
<1>4. /\ \A r \in requests' :
              /\ r \in RequestRow
              /\ \E q \in requests : q.source = r.source /\ q.package = r.package
              /\ r \in requests \/ r.state \in {"active", "failed"}
              /\ r.source = s /\ r.package = p => r.state # "running"
      /\ \A q \in requests : \E r \in requests' : q.source = r.source /\ q.package = r.package
  <2>1. CASE InState(s, p, "running")
    <3>1. requests' = SetState(s, p, t.step)
      BY <2>1 DEF FinishTask
    <3>2. t.step \in {"queued", "running", "active", "failed"}
      BY <1>1
    <3> HIDE DEF s, p
    <3>3. /\ \A r \in requests' :
              /\ r \in RequestRow
              /\ \E q \in requests : q.source = r.source /\ q.package = r.package
              /\ IF r.source = s /\ r.package = p THEN r.state = t.step ELSE r \in requests
          /\ \A q \in requests : \E r \in requests' : q.source = r.source /\ q.package = r.package
      BY <3>1, <3>2, SetStateFacts
    <3> QED  BY <1>1, <3>3
  <2>2. CASE ~InState(s, p, "running")
    BY <2>2 DEF FinishTask, InState, Asked, DInv, DTypes, Requests
  <2> QED  BY <2>1, <2>2
<1>5. Requests'
  BY <1>1, <1>4 DEF DInv, DTypes, Requests, Packaged
<1>6. Requested'
  BY <1>1, <1>4 DEF DInv, Requested, queueVars
<1>7. Attended'
  <2>1. ASSUME NEW r \in requests', r.state = "queued", <<r.source, r.package>> \notin dropped
        PROVE  \E x \in tasks' : x.source = r.source /\ x.package = r.package /\ x.step = "spawned"
    BY <1>1, <1>4, <2>1 DEF DInv, Attended
  <2>2. ASSUME NEW r \in requests', r.state = "running", <<r.source, r.package>> \notin dropped
        PROVE  \E x \in tasks' : /\ x.source = r.source /\ x.package = r.package
                                 /\ x.step \in {"working", "active", "failed"}
    BY <1>1, <1>4, <2>2 DEF DInv, Attended
  <2> QED  BY <1>1, <2>1, <2>2 DEF Attended
<1> QED  BY <1>1, <1>2, <1>3, <1>5, <1>6, <1>7, TasksOnly DEF queueVars, discovery, workers

(* A task that breaks takes no request along but its own. *)
LEMMA TaskBreaksKeeps ==
  ASSUME DInv, NEW t \in tasks, TaskBreaks(t)
  PROVE  DInv'
<1> DEFINE s == t.source  p == t.package
<1>1. /\ UNCHANGED <<discovery, job, leases, workers, late, format, catalog, publisher, latest,
                     upgrades>>
      /\ tasks' = tasks \ {t} /\ dropped' = dropped \cup {<<s, p>>}
  BY DEF TaskBreaks
<1>2. Publishers' /\ left' \in Budget
  BY HeldFacts, SpendKeeps DEF DInv, DTypes, Publishers, TaskBreaks
<1>3. Tasks'
  BY <1>1 DEF DInv, DTypes, Tasks, TaskRow, Packaged
<1>4. /\ \A r \in requests' :
              /\ r \in RequestRow
              /\ \E q \in requests : q.source = r.source /\ q.package = r.package
              /\ r \in requests \/ (r.source = s /\ r.package = p)
      /\ \A q \in requests : \E r \in requests' : q.source = r.source /\ q.package = r.package
  <2>1. CASE requests' = SetState(s, p, "running")
    <3> HIDE DEF s, p
    <3>1. /\ \A r \in requests' :
              /\ r \in RequestRow
              /\ \E q \in requests : q.source = r.source /\ q.package = r.package
              /\ IF r.source = s /\ r.package = p THEN r.state = "running" ELSE r \in requests
          /\ \A q \in requests : \E r \in requests' : q.source = r.source /\ q.package = r.package
      BY <2>1, SetStateFacts
    <3> QED  BY <3>1
  <2>2. CASE requests' = requests
    BY <2>2 DEF DInv, DTypes, Requests
  <2> QED  BY <2>1, <2>2 DEF TaskBreaks
<1> HIDE DEF s, p
<1>5. Requests'
  BY <1>1, <1>4 DEF DInv, DTypes, Requests, Packaged
<1>6. Requested'
  BY <1>1, <1>4 DEF DInv, Requested
<1>7. Attended'
  <2> SUFFICES ASSUME NEW r \in requests', <<r.source, r.package>> \notin dropped'
               PROVE  /\ r \in requests /\ <<r.source, r.package>> \notin dropped
                      /\ \A x \in tasks : x.source = r.source /\ x.package = r.package
                                           => x \in tasks'
    BY DEF DInv, Attended
  <2> QED  BY <1>1, <1>4 DEF s, p
<1> QED  BY <1>1, <1>2, <1>3, <1>5, <1>6, <1>7, TasksOnly

(* A chosen package is an installation. *)
LEMMA InstalledType ==
  ASSUME NEW p \in Package, NEW x \in Package
  PROVE  Installed(p, x) \in InstallRow
  BY DEF Installed, InstallRow

(* The packages that are none and the first one. *)
LEMMA PackageConstants ==
  NoPackage \in Package /\ Earlier \in Package /\ NotInstalled \in InstallRow
<1>1. NoPackage \in Package /\ Earlier \in Package
  BY DEF NoPackage, Earlier, Package
<1> QED  BY <1>1 DEF NotInstalled, InstallRow

(* A publication of packages says nothing about components. *)
LEMMA ActivateKeeps ==
  ASSUME DInv, NEW t \in tasks, Activate(t)
  PROVE  DInv'
<1> DEFINE s == t.source  p == t.package  n == [t EXCEPT !.step = "active"]
<1>1. /\ UNCHANGED <<queueVars, format, publisher, requests, latest, dropped, upgrades>>
      /\ t.step = "working" /\ tasks' = (tasks \ {t}) \cup {n}
      /\ released' = released \/ Release(s, p)
  BY DEF Activate, StepTask
<1>2. /\ n \in TaskRow /\ n.source = s /\ n.package = p /\ n.step = "active"
      /\ Packaged(s, p) /\ s \in Source /\ p \in Package
  BY TaskChange DEF TaskRow
<1>3. Installs'
  <2>1. install' = install \/ install' = [install EXCEPT ![Default][s] =
                                            Installed(p, install[Default][s].excluded)]
    BY DEF Activate
  <2>2. Installed(p, install[Default][s].excluded) \in InstallRow
    BY <1>2, DefaultAssumption, InstalledType DEF DInv, DTypes, Installs, InstallRow
  <2> HIDE DEF s, p
  <2> QED  BY <1>2, <2>1, <2>2, DefaultAssumption DEF DInv, DTypes, Installs
<1> HIDE DEF n, s, p
<1>4. /\ Publications' /\ \A q \in Source : q # s => released'[q] = released[q]
  BY <1>1, <1>2, AppendFacts DEF DInv, DTypes, Publications
<1>5. Publishers' /\ Rollouts' /\ Formats'
  BY <1>1 DEF DInv, DTypes, Publishers, Rollouts, Formats, upgrades
<1>6. Requests' /\ Tasks'
  BY <1>1, <1>2 DEF DInv, DTypes, Requests, Tasks, Packaged
<1>7. Catalogued'
  <2>1. ASSUME NEW j \in Job, format[j[1]] = "component"
        PROVE  released'[j[1]] = released[j[1]]
    BY <1>2, <1>4, <2>1 DEF Job, Packaged
  <2> QED  BY <1>1, <2>1 DEF DInv, Catalogued, queueVars
<1>8. Requested' /\ Registered'
  BY <1>1 DEF DInv, Requested, Registered, queueVars
<1>9. Attended'
  <2>1. ASSUME NEW r \in requests, r.state = "queued", <<r.source, r.package>> \notin dropped
        PROVE  \E x \in tasks' : x.source = r.source /\ x.package = r.package /\ x.step = "spawned"
    BY <1>1, <2>1 DEF DInv, Attended
  <2>2. ASSUME NEW r \in requests, r.state = "running", <<r.source, r.package>> \notin dropped
        PROVE  \E x \in tasks' : /\ x.source = r.source /\ x.package = r.package
                                 /\ x.step \in {"working", "active", "failed"}
    <3>1. PICK x \in tasks : /\ x.source = r.source /\ x.package = r.package
                             /\ x.step \in {"working", "active", "failed"}
      BY <2>2 DEF DInv, Attended
    <3>2. CASE x = t
      BY <1>1, <1>2, <3>1, <3>2 DEF s, p
    <3>3. CASE x # t
      BY <1>1, <3>1, <3>3
    <3> QED  BY <3>2, <3>3
  <2> QED  BY <1>1, <2>1, <2>2 DEF Attended
<1>10. QInv'
  BY <1>1, HeldFacts, QueueRests DEF DInv, queueVars, discovery, workers
<1> QED  BY <1>3, <1>4, <1>5, <1>6, <1>7, <1>8, <1>9, <1>10 DEF DInv, DTypes

(* After a restart every running request is queued and has a task here. *)
LEMMA RestartKeeps ==
  ASSUME DInv, NEW h \in Host, Restart(h)
  PROVE  DInv'
<1>1. UNCHANGED <<discovery, job, leases, workers, late, format, catalog, latest, upgrades>>
  BY DEF Restart
<1>2. left' \in Budget
  BY HeldFacts, SpendKeeps DEF Restart, DInv
<1>3. Publishers'
  BY <1>1, PublisherRests, RestingRow DEF Restart
<1>4. ASSUME NEW r \in requests
      PROVE  LET n == [r EXCEPT !.state = IF @ = "running" THEN "queued" ELSE @] IN
             n \in RequestRow /\ n.source = r.source /\ n.package = r.package /\ n.state # "running"
  <2>1. r \in RequestRow
    BY DEF DInv, DTypes, Requests
  <2> QED  BY <2>1 DEF RequestRow
<1>5. /\ requests' = {[r EXCEPT !.state = IF @ = "running" THEN "queued" ELSE @] : r \in requests}
      /\ dropped' = {}
  BY DEF Restart, Resumed
<1>6. /\ \A r \in requests' : /\ r \in RequestRow /\ r.state # "running"
                               /\ \E q \in requests : q.source = r.source /\ q.package = r.package
      /\ \A q \in requests : \E r \in requests' : q.source = r.source /\ q.package = r.package
  BY <1>4, <1>5
<1>7. Requests'
  BY <1>1, <1>6 DEF DInv, DTypes, Requests, Packaged
<1>8. ASSUME NEW r \in requests', r.state = "queued"
      PROVE  Task(h, r.source, r.package, "spawned") \in tasks'
  BY <1>8 DEF Restart
<1>9. ASSUME NEW r \in requests', NEW n, n = Task(h, r.source, r.package, "spawned")
      PROVE  /\ n \in TaskRow /\ Packaged(n.source, n.package)
             /\ n.source = r.source /\ n.package = r.package /\ n.step = "spawned"
  BY <1>6, <1>9 DEF Task, TaskRow, RequestRow, DInv, DTypes, Requests
<1>10. Tasks'
  <2>1. \A n \in tasks' :
          n \in tasks \/ \E r \in requests' : n = Task(h, r.source, r.package, "spawned")
    BY DEF Restart
  <2> QED  BY <1>1, <1>5, <1>9, <2>1 DEF DInv, DTypes, Tasks, Packaged
<1>11. Requested'
  BY <1>1, <1>6 DEF DInv, Requested
<1>12. Attended'
  BY <1>6, <1>8, <1>9 DEF Attended
<1> QED  BY <1>1, <1>2, <1>3, <1>7, <1>10, <1>11, <1>12, TasksOnly

(* A step of the queue, and the request of a package it has completed. *)
LEMMA QueueKeepsDelivery ==
  ASSUME DInv, QueueNext, NEW h \in Host, QueueRequest(h),
         UNCHANGED <<format, catalog, publisher, upgrades>>
  PROVE  DInv'
<1> DEFINE handed == {j \in Job : format[j[1]] = "package" /\ HandsOver(j)}
<1>1. QInv' /\ Registered' /\ SettledHold /\ OneHandedOver
  BY QueueKeeps, QueueJobs DEF DInv
<1>2. Publishers' /\ Publications' /\ Installs' /\ Rollouts' /\ Formats'
  BY DEF DInv, DTypes, Publishers, Publications, Installs, Rollouts, Formats, catalog,
         upgrades
<1>3. Catalogued'
  BY <1>1 DEF DInv, Catalogued, SettledHold, catalog
<1>4. \A i, j \in handed : i = j
  BY <1>1 DEF OneHandedOver
<1>5. CASE handed = {}
  <2>1. UNCHANGED packages
    BY <1>5 DEF QueueRequest, HandsOver
  <2>2. Requests' /\ Tasks' /\ Attended'
    BY <2>1 DEF DInv, DTypes, Requests, Tasks, Packaged, Attended, packages
  <2>3. Requested'
    BY <1>1, <1>5, <2>1 DEF DInv, Requested, SettledHold, HandsOver, packages
  <2> QED  BY <1>1, <1>2, <1>3, <2>2, <2>3 DEF DInv, DTypes
<1>6. ASSUME NEW j \in handed, QueuePackage(h, j[1], PackageOf(j, job'[j].package))
      PROVE  DInv'
  <2> DEFINE s == j[1]  p == PackageOf(j, job'[j].package)
             n == [source |-> s, package |-> p, state |-> "queued"]
             t == Task(h, s, p, "spawned")
  <2>1. j \in Job /\ s \in Source /\ format[s] = "package" /\ p \in Package /\ p.commit \in Commit
    <3>1. job'[j].package \in Nat
      BY <1>1 DEF QInv, QueueTypeOK, JobTypeOK, JobRow
    <3> QED  BY <3>1, PackageOfType DEF Job
  <2>2. /\ n \in RequestRow /\ t \in TaskRow /\ Packaged(s, p)
        /\ t.source = s /\ t.package = p /\ t.step = "spawned"
        /\ n.source = s /\ n.package = p /\ n.state = "queued"
    BY <2>1 DEF RequestRow, Task, TaskRow, Packaged
  <2>3. /\ latest' = [latest EXCEPT ![s] = p]
        /\ \/ InState(s, p, "running") /\ UNCHANGED <<requests, tasks, dropped>>
           \/ /\ ~InState(s, p, "running")
              /\ requests' = (requests \ Asked(s, p)) \cup {n} /\ tasks' = tasks \cup {t}
              /\ dropped' = dropped \ {<<s, p>>}
    BY <1>6 DEF QueuePackage
  <2> HIDE DEF n, t, s
  <2>4. /\ \A q \in requests : \E r \in requests' : q.source = r.source /\ q.package = r.package
        /\ \E r \in requests' : r.source = s /\ r.package = p
    BY <2>2, <2>3 DEF InState, Asked
  <2>5. Requests' /\ Tasks'
    BY <2>1, <2>2, <2>3 DEF DInv, DTypes, Requests, Tasks, Packaged
  <2>6. Requested'
    <3> SUFFICES ASSUME NEW k \in Job, format[k[1]] = "package", job'[k].state = "publishing"
                 PROVE  \E r \in requests' :
                          r.source = k[1] /\ r.package = PackageOf(k, job'[k].package)
      BY DEF Requested
    <3>1. CASE job[k].state = "publishing"
      BY <1>1, <2>4, <3>1 DEF DInv, Requested, SettledHold
    <3>2. CASE job[k].state # "publishing"
      <4>1. k = j
        BY <1>4, <3>2 DEF HandsOver
      <4> QED  BY <2>4, <4>1 DEF s
    <3> QED  BY <3>1, <3>2
  <2>7. Attended'
    <3>1. CASE UNCHANGED <<requests, tasks, dropped>>
      BY <3>1 DEF DInv, Attended
    <3>2. CASE /\ requests' = (requests \ Asked(s, p)) \cup {n} /\ tasks' = tasks \cup {t}
               /\ dropped' = dropped \ {<<s, p>>}
      <4>1. ASSUME NEW r \in requests', r # n, <<r.source, r.package>> \notin dropped'
            PROVE  r \in requests /\ <<r.source, r.package>> \notin dropped
        BY <3>2, <4>1 DEF Asked
      <4> QED  BY <2>2, <3>2, <4>1 DEF DInv, Attended
    <3> QED  BY <2>3, <3>1, <3>2
  <2> QED  BY <1>1, <1>2, <1>3, <2>5, <2>6, <2>7 DEF DInv, DTypes
<1> QED  BY <1>5, <1>6 DEF QueueRequest, HandsOver

-----------------------------------------------------------------------------
(* Rollouts and the choices of tenants: installations and rows only. *)

(* Rollouts and choices leave the queue, the catalog and the requests      *)
(* alone. *)
LEMMA InstallsOnly ==
  ASSUME DInv, UNCHANGED <<discovery, job, leases, workers, late, format, released, publisher,
                           packages>>,
         left' \in Budget, Installs', Rollouts'
  PROVE  DInv'
<1>1. QInv'
  BY QueueRests DEF DInv
<1>2. Registered' /\ Formats' /\ Catalogued' /\ Requested' /\ Attended'
  BY JobsRest DEF packages
<1>3. Publications' /\ Publishers' /\ Requests' /\ Tasks'
  BY DEF DInv, DTypes, Publications, Publishers, Requests, Tasks, Packaged, packages
<1> QED  BY <1>1, <1>2, <1>3 DEF DInv, DTypes

(* What such a step need not say. *)
LEMMA InstallRest ==
  ASSUME DInv
  PROVE  /\ install' = install => Installs'
         /\ UNCHANGED upgrades => Rollouts'
         /\ left \in Budget
  BY HeldFacts DEF DInv, DTypes, Installs, Rollouts, upgrades

(* Rows are offered for installations. *)
LEMMA OfferKeeps ==
  ASSUME DInv, Offer
  PROVE  DInv'
<1> DEFINE fresh == {[tenant |-> t, source |-> s, package |-> Published(s), state |-> "queued"] :
                       t \in Tenant, s \in Source}
<1>1. fresh \subseteq Row
  BY PublishedType DEF Row, DInv, DTypes
<1>2. /\ rollouts' = rollouts \cup {r \in fresh :
                /\ Followed(r.tenant, r.source)
                /\ install[r.tenant][r.source].package # r.package
                /\ \A q \in rollouts : <<q.tenant, q.source, q.package>>
                                       # <<r.tenant, r.source, r.package>>}
      /\ roller' = [roller EXCEPT !.todo = {r \in rollouts' : r.state \in {"queued", "failed"}
                                                                /\ Upgradable(r)}]
  BY DEF Offer
<1>3. roller = [todo |-> roller.todo, done |-> roller.done]
  BY DEF DInv, DTypes, Rollouts
<1> HIDE DEF fresh
<1>4. Rollouts'
  BY <1>1, <1>2, <1>3 DEF DInv, DTypes, Rollouts
<1> QED  BY <1>4, InstallRest, InstallsOnly
            DEF Offer, queueVars, catalog, discovery, workers

(* A row that is taken. *)
LEMMA Take1Keeps ==
  ASSUME DInv, NEW x \in roller.todo, NEW state \in {"queued", "active", "failed", "superseded"},
         Take1(x, state), rollouts' = rollouts
  PROVE  Rollouts'
<1>1. x \in Row /\ [x EXCEPT !.state = state] \in Row
  BY DEF DInv, DTypes, Rollouts, Row
<1>2. roller'.todo = roller.todo \ {x} /\ roller'.done = {[x EXCEPT !.state = state]}
      /\ roller' = [todo |-> roller'.todo, done |-> roller'.done]
  BY DEF Take1
<1> QED  BY <1>1, <1>2 DEF DInv, DTypes, Rollouts

(* An installation that changes. *)
LEMMA InstallStep ==
  ASSUME DInv, NEW t \in Tenant, NEW s \in Source, NEW r \in InstallRow,
         install' = [install EXCEPT ![t][s] = r]
  PROVE  Installs'
  BY DEF DInv, DTypes, Installs

(* The installation of a tenant. *)
LEMMA InstallRowOf ==
  ASSUME DInv, NEW t \in Tenant, NEW s \in Source
  PROVE  install[t][s] \in InstallRow
  BY DEF DInv, DTypes, Installs

(* A row is upgraded, fails or is skipped. *)
LEMMA RolloutKeeps ==
  ASSUME DInv, NEW x \in roller.todo, Upgrade(x) \/ UpgradeFails(x) \/ Skip(x)
  PROVE  DInv'
<1>0. x \in Row /\ x.tenant \in Tenant /\ x.source \in Source /\ x.package \in Package
  BY DEF DInv, DTypes, Rollouts, Row
<1>1. CASE Upgrade(x)
  <2>1. UNCHANGED <<queueVars, format, released, publisher, packages, rollouts>>
    BY <1>1 DEF Upgrade
  <2>2. \E state \in {"queued", "active", "failed", "superseded"} : Take1(x, state)
    BY <1>1 DEF Upgrade
  <2>3. Rollouts'
    BY <2>1, <2>2, Take1Keeps
  <2>4. Installs'
    <3>1. CASE install' = install
      BY <3>1, InstallRest
    <3>2. ASSUME NEW e, e \in Package,
                 install' = [install EXCEPT ![x.tenant][x.source] = Installed(x.package, e)]
          PROVE  Installs'
      BY <1>0, <3>2, InstallStep, InstalledType
    <3>3. install' = install \/ install' = [install EXCEPT ![x.tenant][x.source] =
             Installed(x.package, IF format[x.source] = "component" THEN NoPackage
                                  ELSE install[x.tenant][x.source].excluded)]
      BY <1>1 DEF Upgrade
    <3>4. install[x.tenant][x.source].excluded \in Package /\ NoPackage \in Package
      BY <1>0, InstallRowOf, PackageConstants DEF InstallRow
    <3> QED  BY <3>1, <3>2, <3>3, <3>4
  <2> QED  BY <2>1, <2>3, <2>4, InstallRest, InstallsOnly DEF queueVars, discovery, workers
<1>2. CASE UpgradeFails(x)
  <2>1. Rollouts'
    BY <1>2, Take1Keeps DEF UpgradeFails
  <2>2. left' \in Budget
    BY <1>2, InstallRest, SpendKeeps DEF UpgradeFails
  <2> QED  BY <1>2, <2>1, <2>2, InstallRest, InstallsOnly DEF UpgradeFails, catalog
<1>3. CASE Skip(x)
  <2>1. Rollouts'
    BY <1>3 DEF Skip, DInv, DTypes, Rollouts
  <2>2. left' \in Budget
    BY <1>3, InstallRest, SpendKeeps DEF Skip
  <2> QED  BY <1>3, <2>1, <2>2, InstallRest, InstallsOnly DEF Skip, catalog
<1> QED  BY <1>1, <1>2, <1>3

(* The result goes to the row. *)
LEMMA FinishRolloutKeeps ==
  ASSUME DInv, NEW x \in roller.done, FinishRollout(x)
  PROVE  DInv'
<1>1. Rollouts'
  BY DEF FinishRollout, DInv, DTypes, Rollouts
<1> QED  BY <1>1, InstallRest, InstallsOnly
            DEF FinishRollout, queueVars, catalog, discovery, workers

(* A crash of the rollout forgets its selection. *)
LEMMA RollerCrashKeeps ==
  ASSUME DInv, RollerCrash
  PROVE  DInv'
<1>1. Rollouts'
  BY DEF RollerCrash, Waiting, DInv, DTypes, Rollouts
<1>2. left' \in Budget
  BY InstallRest, SpendKeeps DEF RollerCrash
<1> QED  BY <1>1, <1>2, InstallRest, InstallsOnly DEF RollerCrash, catalog

(* A tenant decides. *)
LEMMA ChooseKeeps ==
  ASSUME DInv, NEW t \in Tenant, NEW s \in Source, NEW r \in InstallRow, Choose(t, s, r)
  PROVE  DInv'
<1>1. Installs' /\ Rollouts'
  BY InstallStep, InstallRest DEF Choose
<1>2. left' \in Budget
  BY InstallRest DEF Choose, Budget
<1> QED  BY <1>1, <1>2, InstallsOnly DEF Choose

(* Every publication has a first time. *)
LEMMA SinceType ==
  ASSUME NEW q \in Seq(Package), NEW n \in DOMAIN q
  PROVE  Since(q, q[n]) \in DOMAIN q
<1> DEFINE S == {i \in DOMAIN q : q[i] = q[n]}
<1>1. S # {} /\ S \subseteq Nat /\ DOMAIN q = 1 .. Len(q) /\ Len(q) \in Nat
  OBVIOUS
<1>2. PICK i \in S : \A k \in S : ~(k < i)
  <2>1. IsWellFoundedOn(OpToRel(<, Nat), Nat)
    BY NatLessThanWellFounded
  <2>2. PICK i \in S : \A k \in S : ~(<<k, i>> \in OpToRel(<, Nat))
    BY <1>1, <2>1, WFMin
  <2> QED  BY <1>1, <2>2 DEF OpToRel
<1>3. i \in DOMAIN q /\ q[i] = q[n] /\ \A k \in 1 .. (i - 1) : q[k] # q[n]
  BY <1>1, <1>2
<1> QED  BY <1>3 DEF Since

(* Whatever a tenant decides is an installation. *)
LEMMA ChoiceKeeps ==
  ASSUME DInv, NEW t \in Tenant, NEW s \in Source, Choice(t, s)
  PROVE  DInv'
<1> DEFINE i == install[t][s]
<1>1. i \in InstallRow /\ i.package \in Package /\ i.excluded \in Package /\ i.known \in BOOLEAN
  BY InstallRowOf DEF InstallRow
<1>2. Published(s) \in Package /\ NoPackage \in Package /\ NotInstalled \in InstallRow
  BY PublishedType, PackageConstants DEF DInv, DTypes
<1>3. CASE TenantInstalls(t, s)
  BY <1>1, <1>2, <1>3, InstalledType, ChooseKeeps DEF TenantInstalls
<1>4. CASE TenantEnables(t, s)
  <2>1. [i EXCEPT !.enabled = TRUE] \in InstallRow
    BY <1>1 DEF InstallRow
  <2> QED  BY <1>4, <2>1, ChooseKeeps DEF TenantEnables
<1>5. CASE TenantDisables(t, s)
  <2>1. [i EXCEPT !.enabled = FALSE] \in InstallRow
    BY <1>1 DEF InstallRow
  <2> QED  BY <1>5, <2>1, ChooseKeeps DEF TenantDisables
<1>6. CASE TenantUninstalls(t, s)
  <2>1. [i EXCEPT !.package = NoPackage, !.enabled = FALSE] \in InstallRow
    BY <1>1, <1>2 DEF InstallRow
  <2> QED  BY <1>2, <1>6, <2>1, ChooseKeeps DEF TenantUninstalls
<1>7. CASE TenantRollsBack(t, s)
  <2>1. PICK n \in RollbackTarget(t, s) : Choose(t, s, Installed(released[s][n], Published(s)))
    BY <1>7 DEF TenantRollsBack
  <2>2. PICK m \in DOMAIN released[s] : n = Since(released[s], released[s][m])
    BY <2>1 DEF RollbackTarget, Age
  <2>3. released[s] \in Seq(Package)
    BY DEF DInv, DTypes, Publications
  <2>4. n \in DOMAIN released[s]
    BY <2>2, <2>3, SinceType
  <2>5. released[s][n] \in Package
    BY <2>3, <2>4
  <2> QED  BY <1>2, <2>1, <2>5, InstalledType, ChooseKeeps
<1> QED  BY <1>3, <1>4, <1>5, <1>6, <1>7 DEF Choice

-----------------------------------------------------------------------------
(* Every step. *)

(* The invariant holds at the start. *)
LEMMA DeliveryStart == ASSUME DeliveryInit PROVE DInv
<1>1. QInv
  BY QueueStart DEF DeliveryInit
<1>2. \A j \in Job : job[j] = NoJob
  BY DEF DeliveryInit, QueueInit
<1>3. Registered /\ Requested
  BY <1>2 DEF Registered, Requested, NoJob
<1>4. /\ Earlier \in Package /\ NoPackage \in Package
      /\ NotInstalled \in InstallRow /\ Installed(Earlier, NoPackage) \in InstallRow
      /\ [Installed(Earlier, NoPackage) EXCEPT !.enabled = FALSE] \in InstallRow
  BY PackageConstants, InstalledType DEF InstallRow
<1>5. \A s \in Source : released[s] = <<Earlier>> /\ DOMAIN released[s] = {1}
                        /\ released[s][1] = Earlier /\ Earlier.commit = None
  BY DEF DeliveryInit, Earlier
<1>6. Publications
  BY <1>4, <1>5 DEF DeliveryInit, Publications
<1>7. Catalogued
  <2>1. \A j \in Job : job[j].state = "superseded" /\ j[1] \in Source /\ j[2] # None
    BY <1>2, NoneAssumption DEF NoJob, Job
  <2> QED  BY <1>5, <2>1 DEF Catalogued
<1>8. Formats /\ Publishers /\ Requests /\ Tasks /\ Rollouts /\ Attended
  BY <1>4, RestingRow
     DEF DeliveryInit, Formats, Publishers, Requests, Tasks, Rollouts, Attended, Waiting
<1>9. Installs
  <2> DEFINE S == {NotInstalled, Installed(Earlier, NoPackage)} \cup
       (IF left.choices > 0 THEN {[Installed(Earlier, NoPackage) EXCEPT !.enabled = FALSE]}
        ELSE {})
  <2>1. install \in [Tenant -> [Source -> S]]
    BY DEF DeliveryInit
  <2>2. S \subseteq InstallRow
    BY <1>4
  <2> HIDE DEF S
  <2> QED  BY <2>1, <2>2 DEF Installs
<1> QED  BY <1>1, <1>3, <1>6, <1>7, <1>8, <1>9 DEF DInv, DTypes

(* Every step of the delivery keeps it. *)
LEMMA DeliveryKeeps == ASSUME DInv, [DeliveryNext]_deliveryVars PROVE DInv'
<1>1. CASE Queue
  BY <1>1, QueueKeepsDelivery DEF Queue
<1>2. ASSUME NEW h \in Host, PublishStep(h) PROVE DInv'
  BY <1>2, TakeKeeps, PublishKeeps, PublishUnansweredKeeps, RefuseKeeps, MarkFailedKeeps,
     SweepKeeps DEF PublishStep
<1>3. ASSUME NEW h \in Host, Restart(h) PROVE DInv'
  BY <1>3, RestartKeeps
<1>4. ASSUME NEW t \in tasks, TaskStep(t) PROVE DInv'
  BY <1>4, StartTaskKeeps, ActivateKeeps, RefuseTaskKeeps, FinishTaskKeeps,
     TaskBreaksKeeps DEF TaskStep
<1>5. CASE Copy
  BY <1>5, CopyKeeps
<1>6. CASE RolloutStep
  BY <1>6, OfferKeeps, RollerCrashKeeps, RolloutKeeps, FinishRolloutKeeps DEF RolloutStep
<1>7. ASSUME NEW t \in Tenant, NEW s \in Source, Choice(t, s) PROVE DInv'
  BY <1>7, ChoiceKeeps
<1>8. CASE UNCHANGED deliveryVars
  <2>1. UNCHANGED <<discovery, job, leases, workers, late, format, catalog, publisher, packages,
                    upgrades, left>>
    BY <1>8 DEF deliveryVars, queueVars, discovery, workers
  <2> QED  BY <2>1, InstallRest, InstallsOnly DEF catalog
<1> QED  BY <1>1, <1>2, <1>3, <1>4, <1>5, <1>6, <1>7, <1>8 DEF DeliveryNext

(* The invariant of the delivery holds in every reachable state. *)
THEOREM DeliveryInvariant == DeliverySpec => []DInv
<1>1. DeliveryInit => DInv
  BY DeliveryStart
<1>2. DInv /\ [DeliveryNext]_deliveryVars => DInv'
  BY DeliveryKeeps
<1> QED  BY <1>1, <1>2, PTL DEF DeliverySpec

(* The delivery is type-correct for every value of the constants. *)
THEOREM DeliveryTypeCorrect == DeliverySpec => []DeliveryTypeOK
  BY DTypeOK, DeliveryInvariant, PTL

(* One job is built at a time, whatever those who publish, roll out and    *)
(* choose do in between (postgres.rs claim). *)
THEOREM DeliveryOneBuilder == DeliverySpec => []OneBuilder
<1>1. DInv => OneBuilder
  BY QInvOneBuilder DEF DInv
<1> QED  BY <1>1, DeliveryInvariant, PTL

(* The invariant relates the catalog to the jobs as promised. *)
LEMMA DInvPublished == DInv => PublishedIsActive
<1> SUFFICES ASSUME DInv, NEW j \in Job, format[j[1]] = "component"
             PROVE  /\ job[j].state = "active" <=>
                         \E i \in DOMAIN released[j[1]] : released[j[1]][i].commit = j[2]
                    /\ job[j].state = "active" =>
                         ToSet(released[j[1]]) \cap {PackageOf(j, n) : n \in 1 .. leases}
                           = {PackageOf(j, job[j].package)}
  BY DEF PublishedIsActive
<1> DEFINE q == released[j[1]]
<1>1. /\ job[j].state = "active" =>
           job[j].package # 0 /\ \E i \in DOMAIN q : q[i].commit = j[2]
      /\ \A i \in DOMAIN q : q[i].commit = j[2] =>
           job[j].state = "active" /\ q[i].build = job[j].package
  BY DEF DInv, Catalogued
<1>2. ASSUME job[j].state = "active"
      PROVE  ToSet(q) \cap {PackageOf(j, n) : n \in 1 .. leases} = {PackageOf(j, job[j].package)}
  <2>1. job[j].package \in 1 .. leases
    BY <1>1, <1>2, HeldFacts DEF DInv, QInv, JobsLeased, JobRow
  <2>2. q \in Seq(Package) /\ ToSet(q) = {q[i] : i \in DOMAIN q}
    BY DEF DInv, DTypes, Publications, Job, ToSet
  <2>3. PICK i \in DOMAIN q : q[i].commit = j[2]
    BY <1>1, <1>2
  <2>4. \A k \in DOMAIN q : q[k].commit = j[2] => q[k] = PackageOf(j, job[j].package)
    <3> SUFFICES ASSUME NEW k \in DOMAIN q, q[k].commit = j[2]
                 PROVE  q[k] = PackageOf(j, job[j].package)
      OBVIOUS
    <3>1. q[k] \in Package /\ q[k].build = job[j].package
      BY <1>1, <2>2
    <3>2. q[k] = [commit |-> q[k].commit, build |-> q[k].build]
      BY <3>1 DEF Package
    <3> QED  BY <3>1, <3>2 DEF PackageOf
  <2>5. \A n \in 1 .. leases : PackageOf(j, n).commit = j[2]
    BY DEF PackageOf
  <2> HIDE DEF q
  <2> QED  BY <2>1, <2>2, <2>3, <2>4, <2>5
<1> QED  BY <1>1, <1>2

(* The catalog has published a component exactly when its job is active,   *)
(* however many hosts publish the same job and whatever answers are lost   *)
(* (finish_publication, mark_failed). *)
THEOREM DeliveryPublished == DeliverySpec => []PublishedIsActive
  BY DInvPublished, DeliveryInvariant, PTL

(* The invariant leaves no job that is being published alone. *)
LEMMA DInvStranded == DInv => NothingStranded
<1> SUFFICES ASSUME DInv, NEW j \in Job, job[j].state = "publishing"
             PROVE  IF format[j[1]] = "component" THEN job[j].archive # 0
    ELSE LET p == PackageOf(j, job[j].package)
             steps == {t.step : t \in {x \in tasks : x.source = j[1] /\ x.package = p}}
         IN /\ Asked(j[1], p) # {}
            /\ <<j[1], p>> \notin dropped =>
                 /\ InState(j[1], p, "queued") => "spawned" \in steps
                 /\ InState(j[1], p, "running") => steps \cap {"working", "active", "failed"} # {}
  BY DEF NothingStranded
<1>1. job[j].archive # 0
  BY DEF DInv, QInv, Archives
<1>2. CASE format[j[1]] # "component"
  <2> DEFINE p == PackageOf(j, job[j].package)
             steps == {t.step : t \in {x \in tasks : x.source = j[1] /\ x.package = p}}
  <2>1. format[j[1]] = "package"
    BY <1>2 DEF DInv, DTypes, Formats, Job
  <2>2. Asked(j[1], p) # {}
    BY <2>1 DEF DInv, Requested, Asked
  <2>3. <<j[1], p>> \notin dropped => (InState(j[1], p, "queued") => "spawned" \in steps)
    BY DEF DInv, Attended, InState, Asked
  <2>4. <<j[1], p>> \notin dropped =>
          (InState(j[1], p, "running") => steps \cap {"working", "active", "failed"} # {})
    BY DEF DInv, Attended, InState, Asked
  <2> QED  BY <1>2, <2>2, <2>3, <2>4
<1> QED  BY <1>1, <1>2

(* A job that is being published has an archive for the publishers, or a   *)
(* request with its result or with a task, through every restart of every  *)
(* host (queue_publish_job, resume_publish_jobs).  A request that a broken  *)
(* task has left waits, but no longer than until a host starts again. *)
THEOREM DeliveryStranded == DeliverySpec => []NothingStranded
  BY DInvStranded, DeliveryInvariant, PTL

-----------------------------------------------------------------------------
(* What no step may do. *)

(* Those who publish end jobs that are being published, and no others.       *)
Ends ==
  /\ UNCHANGED source
  /\ \A j \in Job : \/ job'[j].state = job[j].state
                    \/ job[j].state = "publishing" /\ job'[j].state # "publishing"

(* Such a step has none of the forbidden effects. *)
LEMMA EndsOrder == ASSUME Ends PROVE InOrder /\ OwnUpload /\ StaysReplaced
  BY DEF Ends, InOrder, OwnUpload, StaysReplaced

(* Publishers end jobs that are being published, and no others. *)
LEMMA PublishEnds ==
  ASSUME DInv, NEW h \in Host, PublishStep(h)
  PROVE  Ends
<1>1. job \in [Job -> JobRow]
  BY DEF DInv, QInv, QueueTypeOK, JobTypeOK
<1>2. ASSUME job' = Swept(job), UNCHANGED source PROVE Ends
  BY <1>1, <1>2, SweptFacts DEF Ends
<1>3. ASSUME NEW j \in Job, NEW x \in {"active", "failed"}, job[j].state = "publishing",
             job' = Swept([job EXCEPT ![j].state = x]), UNCHANGED source
      PROVE  Ends
  <2>1. job'[j].state = x /\ \A k \in Job : k # j => job'[k].state = job[k].state
    BY <1>3, MarkFacts
  <2> QED  BY <1>3, <2>1 DEF Ends
<1>4. CASE Take(h) \/ Refuse(h)
  BY <1>4 DEF Take, Refuse, Ends, queueVars, discovery
<1>5. CASE CommitPublication(h) /\ UNCHANGED discovery
  BY <1>3, <1>5 DEF CommitPublication, Publishable, discovery, DInv, DTypes, Publishers
<1>6. CASE MarkFailed(h)
  <2> DEFINE j == publisher[h].job
  <2>1. j \in Job /\ job[j] \in JobRow
    BY <1>1, <1>6 DEF MarkFailed, DInv, DTypes, Publishers
  <2>2. CASE job[j].state = "publishing"
    BY <1>3, <1>6, <2>1, <2>2 DEF MarkFailed, discovery
  <2>3. CASE job[j].state # "publishing"
    <3>1. [job EXCEPT ![j].state = job[j].state] = job
      BY <1>1, <2>1 DEF JobRow
    <3>2. job' = Swept(job)
      BY <1>6, <2>3, <3>1 DEF MarkFailed
    <3> QED  BY <1>2, <1>6, <3>2 DEF MarkFailed, discovery
  <2> QED  BY <2>2, <2>3
<1>7. CASE Sweep(h)
  BY <1>2, <1>7 DEF Sweep, discovery
<1> QED  BY <1>4, <1>5, <1>6, <1>7 DEF PublishStep, Publish, PublishUnanswered

(* No step of the delivery has the effects forbidden to the queue. *)
LEMMA DeliverySteps ==
  ASSUME DInv, [DeliveryNext]_deliveryVars
  PROVE  InOrder /\ OwnUpload /\ StaysReplaced
<1>1. CASE Queue
  BY <1>1, QueueSteps DEF Queue, DInv
<1>2. ASSUME NEW h \in Host, PublishStep(h) PROVE Ends
  BY <1>2, PublishEnds
<1>3. ASSUME UNCHANGED <<source, job>> PROVE Ends
  BY <1>3 DEF Ends
<1>4. ASSUME NEW h \in Host, Restart(h) PROVE Ends
  BY <1>3, <1>4 DEF Restart, discovery
<1>5. ASSUME NEW t \in tasks, TaskStep(t) PROVE Ends
  BY <1>3, <1>5
     DEF TaskStep, StartTask, Activate, RefuseTask, FinishTask, TaskBreaks, queueVars,
         discovery
<1>6. ASSUME Copy PROVE Ends
  <2>1. ASSUME NEW j \in Job
        PROVE  \/ job'[j].state = job[j].state
               \/ job[j].state = "publishing" /\ job'[j].state # "publishing"
    <3>1. job'[j] = Copied(j) /\ job[j] \in JobRow
      BY <1>6, HeldFacts DEF Copy, DInv
    <3> DEFINE ended == Results(j) \cap {"active", "failed"}
               x == CHOOSE state \in ended : TRUE
    <3>2. CASE job[j].state = "publishing" /\ ended # {} /\ job'[j] = [job[j] EXCEPT !.state = x]
      <4>1. x \in {"active", "failed"}
        BY <3>2
      <4> HIDE DEF x
      <4> QED  BY <3>1, <3>2, <4>1 DEF JobRow
    <3> QED  BY <3>1, <3>2 DEF Copied
  <2>2. UNCHANGED source
    BY <1>6 DEF Copy, discovery
  <2> QED  BY <2>1, <2>2 DEF Ends
<1>7. ASSUME RolloutStep PROVE Ends
  <2>1. CASE Offer
    <3>1. UNCHANGED queueVars
      BY <2>1 DEF Offer
    <3> QED  BY <1>3, <3>1 DEF queueVars, discovery
  <2>2. CASE RollerCrash
    <3>1. UNCHANGED <<discovery, job>>
      BY <2>2 DEF RollerCrash
    <3> QED  BY <1>3, <3>1 DEF discovery
  <2>3. ASSUME NEW x, Upgrade(x) \/ UpgradeFails(x) \/ Skip(x) \/ FinishRollout(x) PROVE Ends
    <3>1. UNCHANGED <<discovery, job>>
      <4>1. CASE Upgrade(x)
        BY <4>1 DEF Upgrade, queueVars, discovery
      <4>2. CASE UpgradeFails(x)
        BY <4>2 DEF UpgradeFails
      <4>3. CASE Skip(x)
        BY <4>3 DEF Skip
      <4>4. CASE FinishRollout(x)
        BY <4>4 DEF FinishRollout, queueVars, discovery
      <4> QED  BY <2>3, <4>1, <4>2, <4>3, <4>4
    <3> QED  BY <1>3, <3>1 DEF discovery
  <2>4. \/ Offer \/ RollerCrash
        \/ \E x \in roller.todo : Upgrade(x) \/ UpgradeFails(x) \/ Skip(x)
        \/ \E x \in roller.done : FinishRollout(x)
    BY <1>7 DEF RolloutStep
  <2> QED  BY <2>1, <2>2, <2>3, <2>4
<1>8. ASSUME NEW t \in Tenant, NEW s \in Source, Choice(t, s) PROVE Ends
  BY <1>3, <1>8
     DEF Choice, TenantInstalls, TenantEnables, TenantDisables, TenantUninstalls,
         TenantRollsBack, Choose, discovery
<1>9. CASE UNCHANGED deliveryVars
  BY <1>3, <1>9, EndsOrder DEF deliveryVars, queueVars
<1> QED  BY <1>1, <1>2, <1>4, <1>5, <1>6, <1>7, <1>8, <1>9, EndsOrder DEF DeliveryNext

(* Targets follow the repository in order, in the whole delivery too. *)
THEOREM DeliveryInOrder == DeliverySpec => ObservationsInOrder
<1>1. DInv /\ [DeliveryNext]_deliveryVars => [InOrder]_queueVars
  BY DeliverySteps
<1> QED  BY <1>1, DeliveryInvariant, PTL DEF DeliverySpec, ObservationsInOrder, InOrder

(* What is offered for publication is what its lease uploaded, also with   *)
(* results copied and jobs marked by others in between. *)
THEOREM DeliveryOwnUpload == DeliverySpec => CompletesOwnUpload
<1>1. DInv /\ [DeliveryNext]_deliveryVars => [OwnUpload]_queueVars
  BY DeliverySteps
<1> QED  BY <1>1, DeliveryInvariant, PTL DEF DeliverySpec, CompletesOwnUpload, OwnUpload

(* A replaced job stays replaced: neither a publisher that still holds its *)
(* archive nor a result that is copied late revives it. *)
THEOREM DeliveryStaysReplaced == DeliverySpec => ReplacedStaysReplaced
<1>1. DInv /\ [DeliveryNext]_deliveryVars => [StaysReplaced]_queueVars
  BY DeliverySteps
<1> QED  BY <1>1, DeliveryInvariant, PTL
            DEF DeliverySpec, ReplacedStaysReplaced, StaysReplaced

(* The action of PublicationFollowsTarget. *)
FollowsTarget ==
  \A s \in Source : released'[s] # released[s] =>
       LET p == Published(s)'  j == JobOf(s, p) IN
       format[s] = "component" \/ job[j].package = p.build => Current(j)

(* The publishing transaction reads the target. *)
LEMMA CommitFollows ==
  ASSUME DInv, NEW h \in Host, CommitPublication(h)
  PROVE  FollowsTarget
<1> SUFFICES ASSUME NEW j \in Job, j = publisher[h].job, NEW s \in Source, s = j[1],
                    NEW p, p = PackageOf(j, publisher[h].build)
             PROVE  FollowsTarget
  BY DEF CommitPublication, DInv, DTypes, Publishers, Job
<1>1. p \in Package /\ Release(s, p) /\ Current(j)
  BY PackageOfType
     DEF CommitPublication, Publishable, DInv, DTypes, Publishers, PublisherRow
<1>2. JobOf(s, p) = j
  BY JobOfPackage
<1>3. Published(s)' = p /\ \A q \in Source : q # s => released'[q] = released[q]
  BY <1>1, AppendFacts DEF DInv, DTypes
<1> QED  BY <1>1, <1>2, <1>3 DEF FollowsTarget

(* So does a task, for a package that its job still has. *)
LEMMA ActivateFollows ==
  ASSUME DInv, NEW t \in tasks, Activate(t)
  PROVE  FollowsTarget
<1> SUFFICES ASSUME NEW s, s = t.source, NEW p, p = t.package PROVE FollowsTarget
  OBVIOUS
<1>1. /\ s \in Source /\ p \in Package /\ p.commit \in Commit /\ format[s] # "component"
      /\ Activatable(s, p) /\ (released' = released \/ Release(s, p))
  BY DEF Activate, DInv, DTypes, Tasks, Packaged, TaskRow
<1>2. CASE released' = released
  BY <1>2 DEF FollowsTarget
<1>3. CASE Release(s, p)
  <2>1. Published(s)' = p /\ \A q \in Source : q # s => released'[q] = released[q]
    BY <1>1, <1>3, AppendFacts DEF DInv, DTypes
  <2>2. job[JobOf(s, p)].package = p.build => Current(JobOf(s, p))
    BY <1>1, NoneAssumption DEF Activatable, Known
  <2> QED  BY <1>1, <2>1, <2>2 DEF FollowsTarget
<1> QED  BY <1>1, <1>2, <1>3

(* No publication goes back to a commit that has been replaced, however    *)
(* long its publisher or task has held it (finish_publication,             *)
(* ensure_current). *)
THEOREM DeliveryFollowsTarget == DeliverySpec => PublicationFollowsTarget
<1>1. DInv /\ [DeliveryNext]_deliveryVars => [FollowsTarget]_deliveryVars
  <2> SUFFICES ASSUME DInv, [DeliveryNext]_deliveryVars PROVE FollowsTarget
    OBVIOUS
  <2>1. ASSUME released' = released PROVE FollowsTarget
    BY <2>1 DEF FollowsTarget
  <2>2. CASE Queue
    BY <2>1, <2>2 DEF Queue, catalog
  <2>3. ASSUME NEW h \in Host, PublishStep(h) PROVE FollowsTarget
    BY <2>1, <2>3, CommitFollows
       DEF PublishStep, Take, Publish, PublishUnanswered, Refuse, MarkFailed, Sweep, catalog
  <2>4. ASSUME NEW h \in Host, Restart(h) PROVE FollowsTarget
    BY <2>1, <2>4 DEF Restart, catalog
  <2>5. ASSUME NEW t \in tasks, TaskStep(t) PROVE FollowsTarget
    BY <2>1, <2>5, ActivateFollows
       DEF TaskStep, StartTask, RefuseTask, FinishTask, TaskBreaks, catalog
  <2>6. CASE Copy
    BY <2>1, <2>6 DEF Copy, catalog
  <2>7. CASE RolloutStep
    <3>1. CASE Offer \/ RollerCrash
      BY <2>1, <3>1 DEF Offer, RollerCrash, catalog
    <3>2. ASSUME NEW x, Upgrade(x) \/ UpgradeFails(x) \/ Skip(x) \/ FinishRollout(x)
          PROVE  FollowsTarget
      BY <2>1, <3>2 DEF Upgrade, UpgradeFails, Skip, FinishRollout, catalog
    <3> QED  BY <2>7, <3>1, <3>2 DEF RolloutStep
  <2>8. ASSUME NEW t \in Tenant, NEW s \in Source, Choice(t, s) PROVE FollowsTarget
    BY <2>1, <2>8
       DEF Choice, TenantInstalls, TenantEnables, TenantDisables, TenantUninstalls,
           TenantRollsBack, Choose
  <2>9. CASE UNCHANGED deliveryVars
    BY <2>1, <2>9 DEF deliveryVars, catalog
  <2> QED  BY <2>2, <2>3, <2>4, <2>5, <2>6, <2>7, <2>8, <2>9 DEF DeliveryNext
<1> QED  BY <1>1, DeliveryInvariant, PTL
            DEF DeliverySpec, PublicationFollowsTarget, FollowsTarget


(* The action of UpgradesAsChosen. *)
AsChosen ==
  \A t \in Tenant, s \in Source :
    LET old == install[t][s]  new == install'[t][s] IN
    new # old /\ left'.choices = left.choices =>
      /\ roller' # roller => old.enabled /\ old.excluded # new.package
      /\ old.package \notin {NoPackage, new.package} =>
           \E i \in DOMAIN released'[s] :
             /\ released'[s][i] = new.package
             /\ \A k \in DOMAIN released'[s] : released'[s][k] = old.package => k < i

(* The current publication comes after all publications of another         *)
(* package. *)
LEMMA CurrentIsLater ==
  ASSUME Publications', NEW s \in Source, NEW p, p = Published(s)', NEW q, q # p
  PROVE  \E i \in DOMAIN released'[s] :
           /\ released'[s][i] = p
           /\ \A k \in DOMAIN released'[s] : released'[s][k] = q => k < i
<1> DEFINE n == Len(released'[s])
<1>1. /\ released'[s] \in Seq(Package) /\ n \in Nat /\ n > 0
      /\ DOMAIN released'[s] = 1 .. n /\ released'[s][n] = p
  BY DEF Publications, Published, Last
<1>2. \A k \in 1 .. n : released'[s][k] = q => k < n
  BY <1>1
<1>3. n \in 1 .. n
  BY <1>1
<1> QED  BY <1>1, <1>2, <1>3

(* A task installs the package it has just made current. *)
LEMMA ActivateAsChosen ==
  ASSUME DInv, NEW t \in tasks, Activate(t)
  PROVE  AsChosen
<1> SUFFICES ASSUME NEW s, s = t.source, NEW p, p = t.package PROVE AsChosen
  OBVIOUS
<1>1. /\ s \in Source /\ p \in Package /\ roller' = roller
      /\ (released' = released /\ Published(s) = p) \/ Release(s, p)
      /\ \/ install' = install
         \/ install' = [install EXCEPT ![Default][s] = Installed(p, @.excluded)]
  BY DEF Activate, DInv, DTypes, Tasks, Packaged, TaskRow, upgrades
<1>2. Publications' /\ Published(s)' = p
  <2>1. CASE released' = released /\ Published(s) = p
    BY <2>1 DEF DInv, DTypes, Publications, Published
  <2>2. CASE Release(s, p)
    BY <1>1, <2>2, AppendFacts DEF DInv, DTypes
  <2> QED  BY <1>1, <2>1, <2>2
<1>3. ASSUME NEW u \in Tenant, NEW q \in Source, install'[u][q] # install[u][q]
      PROVE  q = s /\ install'[u][q].package = p
  BY <1>1, <1>3, DefaultAssumption DEF DInv, DTypes, Installs, Installed
<1>4. ASSUME NEW u \in Tenant, NEW q \in Source, install'[u][q] # install[u][q],
             install[u][q].package # install'[u][q].package
      PROVE  \E i \in DOMAIN released'[q] :
               /\ released'[q][i] = install'[u][q].package
               /\ \A k \in DOMAIN released'[q] :
                    released'[q][k] = install[u][q].package => k < i
  BY <1>1, <1>2, <1>3, <1>4, CurrentIsLater
<1> QED  BY <1>1, <1>4 DEF AsChosen

(* An upgrade follows the current publication, with the choice of the      *)
(* tenant read again. *)
LEMMA UpgradeAsChosen ==
  ASSUME DInv, NEW x \in roller.todo, Upgrade(x)
  PROVE  AsChosen
<1>1. x \in Row /\ x.tenant \in Tenant /\ x.source \in Source
  BY DEF DInv, DTypes, Rollouts, Row
<1>2. CASE install' = install
  BY <1>2 DEF AsChosen
<1>3. CASE install' # install
  <2> SUFFICES ASSUME NEW t \in Tenant, t = x.tenant, NEW s \in Source, s = x.source,
                      NEW p, p = x.package
               PROVE  AsChosen
    BY <1>1
  <2>1. /\ Upgradable(x) /\ released' = released
        /\ \E e : install' = [install EXCEPT ![t][s] = Installed(p, e)]
    BY <1>3 DEF Upgrade
  <2>2. Publications' /\ Published(s)' = p
    BY <2>1 DEF Upgradable, DInv, DTypes, Publications, Published
  <2>3. install[t][s].enabled /\ install[t][s].excluded # p
    BY <2>1 DEF Upgradable, Followed
  <2>4. ASSUME NEW u \in Tenant, NEW q \in Source, install'[u][q] # install[u][q]
        PROVE  u = t /\ q = s /\ install'[u][q].package = p
    BY <2>1, <2>4 DEF DInv, DTypes, Installs, Installed
  <2>5. ASSUME NEW u \in Tenant, NEW q \in Source, install'[u][q] # install[u][q],
               install[u][q].package # install'[u][q].package
        PROVE  \E i \in DOMAIN released'[q] :
                 /\ released'[q][i] = install'[u][q].package
                 /\ \A k \in DOMAIN released'[q] :
                      released'[q][k] = install[u][q].package => k < i
    BY <2>2, <2>4, <2>5, CurrentIsLater
  <2> QED  BY <2>3, <2>4, <2>5 DEF AsChosen
<1> QED  BY <1>2, <1>3

(* What a tenant chooses is counted. *)
LEMMA ChoiceAsChosen ==
  ASSUME DInv, NEW t \in Tenant, NEW s \in Source, Choice(t, s)
  PROVE  AsChosen
<1>1. \E record : Choose(t, s, record)
  BY DEF Choice, TenantInstalls, TenantEnables, TenantDisables, TenantUninstalls,
         TenantRollsBack
<1>2. left'.choices = left.choices - 1 /\ left.choices \in Nat
  BY <1>1, InstallRest DEF Choose, Budget
<1> QED  BY <1>2 DEF AsChosen

(* An automatic upgrade never enables what is disabled, brings back what   *)
(* was removed or installs what was rolled back, and nothing goes back to  *)
(* an earlier publication, whatever the tenants decide in between          *)
(* (contract.rs, upgrade_target, save_activation). *)
THEOREM DeliveryAsChosen == DeliverySpec => UpgradesAsChosen
<1>1. DInv /\ [DeliveryNext]_deliveryVars => [AsChosen]_deliveryVars
  <2> SUFFICES ASSUME DInv, [DeliveryNext]_deliveryVars PROVE AsChosen
    OBVIOUS
  <2>1. ASSUME install' = install PROVE AsChosen
    BY <2>1 DEF AsChosen
  <2>2. CASE Queue
    BY <2>1, <2>2 DEF Queue, catalog
  <2>3. ASSUME NEW h \in Host, PublishStep(h) PROVE AsChosen
    BY <2>1, <2>3
       DEF PublishStep, Take, Publish, PublishUnanswered, Refuse, MarkFailed, Sweep, catalog
  <2>4. ASSUME NEW h \in Host, Restart(h) PROVE AsChosen
    BY <2>1, <2>4 DEF Restart, catalog
  <2>5. ASSUME NEW t \in tasks, TaskStep(t) PROVE AsChosen
    BY <2>1, <2>5, ActivateAsChosen
       DEF TaskStep, StartTask, RefuseTask, FinishTask, TaskBreaks, catalog
  <2>6. CASE Copy
    BY <2>1, <2>6 DEF Copy, catalog
  <2>7. ASSUME RolloutStep PROVE AsChosen
    <3>1. CASE Offer \/ RollerCrash
      BY <2>1, <3>1 DEF Offer, RollerCrash, catalog
    <3>2. ASSUME NEW x, UpgradeFails(x) \/ Skip(x) \/ FinishRollout(x) PROVE AsChosen
      BY <2>1, <3>2 DEF UpgradeFails, Skip, FinishRollout, catalog
    <3> QED  BY <2>7, <3>1, <3>2, UpgradeAsChosen DEF RolloutStep
  <2>8. ASSUME NEW t \in Tenant, NEW s \in Source, Choice(t, s) PROVE AsChosen
    BY <2>8, ChoiceAsChosen
  <2>9. CASE UNCHANGED deliveryVars
    BY <2>1, <2>9 DEF deliveryVars, catalog
  <2> QED  BY <2>2, <2>3, <2>4, <2>5, <2>6, <2>7, <2>8, <2>9 DEF DeliveryNext
<1> QED  BY <1>1, DeliveryInvariant, PTL DEF DeliverySpec, UpgradesAsChosen, AsChosen
===============================================================================
