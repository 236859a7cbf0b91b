----------------------------- MODULE DeliveryQueue -----------------------------
(***************************************************************************)
(* The build queue of the host (server/delivery) and the build workers     *)
(* (src/delivery).  Discoverers watch the heads of repositories and set    *)
(* the commit each source is to be delivered at; every wanted commit has   *)
(* one job; a worker takes it under a lease, builds, uploads and completes *)
(* it.  Requests may time out at the worker and still be served later.     *)
(* Publishing a completed job is left to the module Delivery.              *)
(***************************************************************************)
EXTENDS Naturals, FiniteSets

CONSTANTS Source, Commit, Worker,
          Discoverer,  \* hosts that run the discovery task
          Budgets,     \* bounds: the repositories there are, their changes, the
                       \* failures and the decisions of people
          None

ASSUME NoneAssumption == None \notin Commit \cup Source
Budget == [repositories : SUBSET Source, pushes : Nat, faults : Nat, choices : Nat]
ASSUME BudgetAssumption == Budgets \subseteq Budget

VARIABLES
  head,        \* the repository: its commit (None: no manifest, or archived) and push number
  source,      \* the row of the source; generation 0: no row
  discoverer,  \* what each discoverer has read so far
  job,         \* the row of each job; order 0: no row
  leases,      \* leases handed out
  worker,      \* the job each worker is at
  disk,        \* the archive a worker has kept for a job: the lease it was built under
  late,        \* requests given up by their worker, not yet served
  left         \* what is left of the budget

discovery == <<head, source, discoverer>>
workers == <<worker, disk>>
queueVars == <<head, source, discoverer, job, leases, worker, disk, late, left>>

Job == Source \X Commit
Unfinished == {"queued", "building", "uploaded", "publishing"}
Held == {"building", "uploaded"}
NoJob == [state |-> "superseded", lease |-> 0, live |-> FALSE, package |-> 0, archive |-> 0,
          order |-> 0]
Idle == [step |-> "idle", job |-> None, lease |-> 0]
Unread == [step |-> "idle", source |-> None, expected |-> 0, known |-> None, target |-> None,
           at |-> 0]

JobRow == [state : Unfinished \cup {"active", "failed", "superseded"}, lease : Nat,
           live : BOOLEAN, package : Nat, archive : Nat, order : Nat]
Request == [kind : {"upload", "complete", "report", "defer"}, job : Job, lease : Nat, build : Nat]

DiscoveryTypeOK ==
  /\ head \in [Source -> [commit : Commit \cup {None}, at : Nat]]
  /\ source \in [Source -> [commit : Commit \cup {None}, enabled : BOOLEAN,
                            generation : Nat, at : Nat]]
  /\ discoverer \in [Discoverer ->
       [step : {"idle", "listed", "known", "decided"}, source : Source \cup {None},
        expected : Nat, known : Commit \cup {None}, target : Commit \cup {None}, at : Nat]]
  /\ \A d \in Discoverer : discoverer[d].step # "idle" => discoverer[d].source \in Source

JobTypeOK == job \in [Job -> JobRow] /\ leases \in Nat

WorkerTypeOK ==
  /\ worker \in [Worker -> [step : {"idle", "build", "upload", "complete", "report", "defer"},
                            job : Job \cup {None}, lease : Nat]]
  /\ disk \in [Worker -> [Job -> Nat]]
  /\ late \in SUBSET Request
  /\ \A w \in Worker : worker[w].step # "idle" => worker[w].job \in Job

QueueTypeOK == DiscoveryTypeOK /\ JobTypeOK /\ WorkerTypeOK /\ left \in Budget

QueueInit ==
  /\ left \in Budgets
  /\ head \in [Source -> [commit : Commit \cup {None}, at : {0}]]
  /\ \A s \in Source : head[s].commit # None <=> s \in left.repositories
  /\ source = [s \in Source |-> [commit |-> None, enabled |-> FALSE, generation |-> 0, at |-> 0]]
  /\ discoverer = [d \in Discoverer |-> Unread]
  /\ job = [j \in Job |-> NoJob]
  /\ leases = 0
  /\ worker = [w \in Worker |-> Idle]
  /\ disk = [w \in Worker |-> [j \in Job |-> 0]]
  /\ late = {}

Spend == left.faults > 0 /\ left' = [left EXCEPT !.faults = @ - 1]

-----------------------------------------------------------------------------
(* Discovery. *)

Push(s) ==
  /\ s \in left.repositories /\ left.pushes > 0
  /\ left' = [left EXCEPT !.pushes = @ - 1]
  /\ \E c \in (Commit \cup {None}) \ {head[s].commit} :
       head' = [head EXCEPT ![s] = [commit |-> c, at |-> head[s].at + 1]]
  /\ UNCHANGED <<source, discoverer, job, leases, workers, late>>

Look(d, reading) == /\ discoverer' = [discoverer EXCEPT ![d] = reading]
                    /\ UNCHANGED <<head, source, job, leases, workers, late, left>>

(* A poll that finds what is known already changes nothing and is left out.  *)
News(s) == /\ s \in left.repositories
           /\ head[s].at # source[s].at \/ source[s].generation = 0

(* The generation is read before the repository is asked. *)
Read(d, s) ==
  /\ discoverer[d].step = "idle" /\ News(s)
  /\ Look(d, [Unread EXCEPT !.step = "known", !.source = s, !.expected = source[s].generation,
                            !.known = IF source[s].enabled THEN source[s].commit ELSE None])

(* A known commit needs no update, nor does a repository without a manifest  *)
(* that was never registered.                                               *)
Decide(d) ==
  LET r == discoverer[d]  h == head[r.source] IN
  /\ r.step = "known"
  /\ Look(d, IF (h.commit # None /\ h.commit = r.known) \/ (h.commit = None /\ r.expected = 0)
             THEN Unread
             ELSE [r EXCEPT !.step = "decided", !.target = h.commit, !.at = h.at])

(* The list of repositories shows an archived one: here the row is read only *)
(* after the repository.                                                    *)
List(d, s) ==
  /\ discoverer[d].step = "idle" /\ News(s) /\ head[s].commit = None
  /\ Look(d, [Unread EXCEPT !.step = "listed", !.source = s, !.at = head[s].at])

ReadListed(d) ==
  LET r == discoverer[d]  row == source[r.source] IN
  /\ r.step = "listed"
  /\ Look(d, IF row.enabled THEN [r EXCEPT !.step = "decided", !.expected = row.generation]
                            ELSE Unread)

(* Network errors and cancellation keep the target. *)
GiveUp(d) ==
  /\ Spend
  /\ discoverer[d].step # "idle"
  /\ discoverer' = [discoverer EXCEPT ![d] = Unread]
  /\ UNCHANGED <<head, source, job, leases, workers, late>>

Requeued(row) ==
  IF row.order = 0 \/ row.state = "superseded"
  THEN [row EXCEPT !.state = "queued", !.lease = 0, !.live = FALSE,
                   !.order = IF row.order = 0
                             THEN 1 + Cardinality({j \in Job : job[j].order # 0})
                             ELSE row.order]
  ELSE row
Superseded(row) ==
  IF row.order # 0 /\ row.state \in Unfinished
  THEN [row EXCEPT !.state = "superseded", !.lease = 0, !.live = FALSE]
  ELSE row

(* One transaction: the target, the jobs it replaces, its own job. *)
Retarget(s, target, at) ==
  /\ source' = [source EXCEPT ![s] = [commit |-> target, enabled |-> target # None,
                                      generation |-> source[s].generation + 1, at |-> at]]
  /\ job' = [j \in Job |-> IF j[1] # s THEN job[j]
                           ELSE IF j[2] = target THEN Requeued(job[j])
                           ELSE Superseded(job[j])]

UpdateAlways(d) ==
  LET r == discoverer[d] IN
  /\ r.step = "decided"
  /\ Retarget(r.source, r.target, r.at)
  /\ discoverer' = [discoverer EXCEPT ![d] = Unread]
  /\ UNCHANGED <<head, leases, workers, late, left>>
Update(d) ==
  LET r == discoverer[d] IN
  /\ r.step = "decided"
  /\ IF r.expected = source[r.source].generation
     THEN Retarget(r.source, r.target, r.at)
     ELSE UNCHANGED <<source, job>>
  /\ discoverer' = [discoverer EXCEPT ![d] = Unread]
  /\ UNCHANGED <<head, leases, workers, late, left>>

-----------------------------------------------------------------------------
(* The queue: what the host does with a request of a worker. *)

Current(j) == source[j[1]].enabled /\ source[j[1]].commit = j[2]

(* check_lease and lock_lease: the lease, its time, the state, the target. *)
AcceptsAnyLease(j, l) == job[j].live /\ job[j].state \in Held /\ Current(j)
Accepts(j, l) == job[j].lease = l /\ job[j].live /\ job[j].state \in Held /\ Current(j)

NotBusy == FALSE
Busy == \E j \in Job : job[j].state \in Held /\ job[j].live
Claimable(j) ==
  /\ Current(j)
  /\ \/ job[j].state = "queued"
     \/ job[j].state \in Held /\ ~job[j].live

Claimed(row) ==
  [row EXCEPT !.state = IF row.package = 0 THEN "building" ELSE "uploaded",
              !.lease = leases + 1, !.live = TRUE]

Served(m) ==
  LET row == job[m.job] IN
  CASE m.kind = "upload" ->
         [row EXCEPT !.state = "uploaded", !.package = m.build, !.archive = m.build]
    [] m.kind = "complete" ->
         IF row.state = "uploaded" /\ row.archive # 0
         THEN [row EXCEPT !.state = "publishing", !.live = FALSE] ELSE row
    [] m.kind = "report" -> [row EXCEPT !.state = "failed", !.live = FALSE]
    [] m.kind = "defer" -> [row EXCEPT !.state = "queued", !.lease = 0, !.live = FALSE]
Applied(m) == IF Accepts(m.job, m.lease) THEN [job EXCEPT ![m.job] = Served(m)] ELSE job

(* Five minutes without a heartbeat: a fault while somebody works on it. *)
Expire(j) ==
  /\ job[j].state \in Held /\ job[j].live
  /\ IF \E w \in Worker : worker[w].step # "idle" /\ worker[w].lease = job[j].lease
     THEN Spend ELSE UNCHANGED left
  /\ job' = [job EXCEPT ![j].live = FALSE]
  /\ UNCHANGED <<discovery, leases, workers, late>>

(* A publish manager tries a failed job again. *)
Retry(j) ==
  /\ Spend
  /\ job[j].state = "failed" /\ Current(j)
  /\ job' = [job EXCEPT ![j].state = "queued", ![j].lease = 0, ![j].live = FALSE]
  /\ UNCHANGED <<discovery, leases, workers, late>>

ServeLate(m) ==
  /\ m \in late
  /\ job' = Applied(m)
  /\ late' = late \ {m}
  /\ UNCHANGED <<discovery, leases, workers, left>>

-----------------------------------------------------------------------------
(* A worker. *)

Claim(w, j) ==
  /\ worker[w].step = "idle"
  /\ ~Busy /\ Claimable(j)
  /\ job' = [job EXCEPT ![j] = Claimed(job[j])]
  /\ leases' = leases + 1
  /\ worker' = [worker EXCEPT ![w] = [step |-> "build", job |-> j, lease |-> leases + 1]]
  /\ UNCHANGED <<discovery, disk, late, left>>

(* The claim is served, its answer arrives nowhere. *)
ClaimLost(j) ==
  /\ Spend
  /\ ~Busy /\ Claimable(j)
  /\ job' = [job EXCEPT ![j] = Claimed(job[j])]
  /\ leases' = leases + 1
  /\ UNCHANGED <<discovery, workers, late>>

Goto(w, step) == worker' = [worker EXCEPT ![w].step = step]
Leave(w) == worker' = [worker EXCEPT ![w] = Idle]
Kept(w) == disk[w][worker[w].job]
Forget(w) == disk' = [disk EXCEPT ![w][worker[w].job] = 0]
RequestOf(w, kind) == [kind |-> kind, job |-> worker[w].job, lease |-> worker[w].lease,
                       build |-> Kept(w)]

(* An archive kept from an earlier try is not built again. *)
Build(w) ==
  /\ worker[w].step = "build"
  /\ disk' = [disk EXCEPT ![w][worker[w].job] = IF Kept(w) = 0 THEN worker[w].lease ELSE Kept(w)]
  /\ Goto(w, "upload")
  /\ UNCHANGED <<discovery, job, leases, late, left>>

(* The build fails, for good or for want of the network. *)
BuildFails(w) ==
  /\ Spend
  /\ worker[w].step = "build" /\ Kept(w) = 0
  /\ Goto(w, "report") \/ Goto(w, "defer")
  /\ UNCHANGED <<discovery, job, leases, disk, late>>

(* A heartbeat is answered with a conflict, or a step is refused. *)
Abandon(w) ==
  /\ worker[w].step \in {"build", "upload", "report", "defer"}
  /\ ~Accepts(worker[w].job, worker[w].lease)
  /\ Forget(w) /\ Leave(w)
  /\ UNCHANGED <<discovery, job, leases, late, left>>

Upload(w) ==
  /\ worker[w].step = "upload" /\ Accepts(worker[w].job, worker[w].lease)
  /\ job' = Applied(RequestOf(w, "upload"))
  /\ Goto(w, "complete")
  /\ UNCHANGED <<discovery, leases, disk, late, left>>

(* complete, with or without an error, and defer end the run; the directory  *)
(* goes once complete is acknowledged.                                      *)
End(w, kind) ==
  /\ worker[w].step = kind /\ kind \in {"complete", "report", "defer"}
  /\ job' = Applied(RequestOf(w, kind))
  /\ IF kind # "defer" /\ job' # job THEN Forget(w) ELSE UNCHANGED disk
  /\ Leave(w)
  /\ UNCHANGED <<discovery, leases, late, left>>

(* The worker gets no answer, or an error.  A lost upload is tried again     *)
(* under a new lease, one that is refused or broken off is reported; either  *)
(* may still be served, or never.                                           *)
TimeOut(w, kind) ==
  /\ Spend
  /\ worker[w].step = kind /\ kind \in {"upload", "complete", "report", "defer"}
  /\ late' = late \cup {RequestOf(w, kind)}
  /\ IF kind = "upload" THEN Goto(w, "defer") \/ Goto(w, "report") ELSE Leave(w)
  /\ UNCHANGED <<discovery, job, leases, disk>>

Crash(w) ==
  /\ Spend
  /\ worker[w].step # "idle"
  /\ Leave(w)
  /\ UNCHANGED <<discovery, job, leases, disk, late>>

(* Every five minutes, between two jobs. *)
Retained == {j \in Job : Current(j) /\ job[j].state \in Unfinished}
Cleanup(w) ==
  /\ worker[w].step = "idle"
  /\ disk' = [disk EXCEPT ![w] = [j \in Job |-> IF j \in Retained THEN disk[w][j] ELSE 0]]
  /\ disk' # disk
  /\ UNCHANGED <<discovery, job, leases, worker, late, left>>

-----------------------------------------------------------------------------
Discover(d) == (\E s \in Source : Read(d, s) \/ List(d, s))
               \/ Decide(d) \/ ReadListed(d) \/ Update(d) \/ GiveUp(d)
Finish(w) == \E kind \in {"complete", "report", "defer"} : End(w, kind)
Work(w) == Build(w) \/ Abandon(w) \/ Upload(w) \/ Finish(w)
Fail(w) == BuildFails(w) \/ Crash(w)
           \/ \E kind \in {"upload", "complete", "report", "defer"} : TimeOut(w, kind)

QueueNext ==
  \/ \E s \in Source : Push(s)
  \/ \E d \in Discoverer : Discover(d)
  \/ \E j \in Job : Expire(j) \/ Retry(j) \/ ClaimLost(j)
  \/ \E w \in Worker, j \in Job : Claim(w, j)
  \/ \E w \in Worker : Work(w) \/ Fail(w) \/ Cleanup(w)
  \/ \E m \in late : ServeLate(m)

QueueSpec == QueueInit /\ [][QueueNext]_queueVars

-----------------------------------------------------------------------------
(* Properties of the queue. *)

(* At most one job is being built at a time, by at most one worker that can  *)
(* still deliver it (postgres.rs claim).                                    *)
OneBuilder ==
  /\ Cardinality({j \in Job : job[j].state \in Held /\ job[j].live}) <= 1
  /\ \A v, w \in Worker :
       worker[v].step # "idle" /\ worker[w].step # "idle" /\ v # w
         => worker[v].lease # worker[w].lease

(* A response that is older than the target does not replace it, whichever   *)
(* discoverer gets it (discovery.rs inspect).                               *)
ObservationsInOrder ==
  [][\A s \in Source : source'[s] # source[s] /\ source'[s].enabled
       => source'[s].at >= source[s].at]_queueVars

(* What is offered for publication is what the completing worker uploaded    *)
(* itself: neither an older upload that arrives late nor that of another     *)
(* worker is passed off as the result of a lease (README, Default            *)
(* transactions).                                                           *)
CompletesOwnUpload ==
  [][\A j \in Job : job[j].state # "publishing" /\ job'[j].state = "publishing"
       => \/ \E w \in Worker : /\ worker[w].job = j /\ worker[w].step = "complete"
                               /\ disk[w][j] = job'[j].package
          \/ \E m \in late \ late' : /\ m.job = j /\ m.kind = "complete"
                                    /\ m.build = job'[j].package]_queueVars

(* A job that a newer target has replaced stays so until it is wanted again: *)
(* no request of its old worker brings it back.                             *)
ReplacedStaysReplaced ==
  [][\A j \in Job : job[j].state = "superseded" /\ job'[j].state # "superseded"
       => source'[j[1]].generation > source[j[1]].generation]_queueVars
=============================================================================
