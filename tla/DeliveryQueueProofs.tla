-------------------------- MODULE DeliveryQueueProofs -------------------------
(***************************************************************************)
(* What holds of the build queue for any sources, commits, workers,        *)
(* discoverers and budgets: one builder at a time, observations in order,  *)
(* every lease completes its own upload, and a replaced job stays          *)
(* replaced.                                                               *)
(*                                                                         *)
(* The invariant QInv relates the rows of the jobs to what workers, late   *)
(* requests and discoverers still hold of them:                            *)
(* - JobsLeased, WorkersLeased: a lease is handed out once, and at most    *)
(*   one job is held under a lease that has not run out;                   *)
(* - Kepts, Mail: what a worker has kept was built under a lease handed    *)
(*   out, and a lease whose complete request is under way has no upload    *)
(*   under way and no worker any more;                                     *)
(* - Uploads, Archives: under the lease of its job, what the queue stores  *)
(*   is what the worker has kept, or what its late complete request was    *)
(*   sent for, and an archive that has not been removed is that of the     *)
(*   package;                                                              *)
(* - Observed: neither a source nor a discoverer is ahead of the           *)
(*   repository, and a commit decided on for the current row is at least   *)
(*   as new as its target.                                                 *)
(***************************************************************************)
EXTENDS DeliveryQueue, FiniteSetTheorems, TLAPS

(* A job somebody builds under a lease that has not run out. *)
Busied(j) == job[j].state \in Held /\ job[j].live

(* There are finitely many rows, so that their number orders the next one. *)
Rows == IsFiniteSet({j \in Job : job[j].order # 0})

JobsLeased ==
  /\ \A j \in Job : job[j].lease <= leases /\ job[j].package <= leases
  /\ \A j, k \in Job : Busied(j) /\ Busied(k) => j = k

WorkersLeased ==
  /\ \A w \in Worker : worker[w].step # "idle" => worker[w].lease \in 1 .. leases
  /\ \A v, w \in Worker :
       worker[v].step # "idle" /\ worker[w].step # "idle" /\ v # w
         => worker[v].lease # worker[w].lease

Kepts ==
  /\ \A w \in Worker, j \in Job : disk[w][j] <= leases
  /\ \A w \in Worker : worker[w].step \in {"upload", "complete"} => Kept(w) # 0

Mail ==
  /\ \A m \in late :
       /\ m.lease \in 1 .. leases /\ m.build <= leases
       /\ m.kind = "upload" => m.build # 0
       /\ m.kind = "complete" =>
            \A w \in Worker : worker[w].step # "idle" => worker[w].lease # m.lease
  /\ \A w \in Worker : worker[w].step \in {"build", "upload", "complete"}
       => \A m \in late : m.lease # worker[w].lease
  /\ \A m, n \in late : m.kind = "complete" /\ n.kind = "upload" => m.lease # n.lease

Uploads ==
  /\ \A w \in Worker : worker[w].step = "complete" /\ job[worker[w].job].lease = worker[w].lease
       => job[worker[w].job].package = Kept(w)
  /\ \A m \in late : m.kind = "complete" /\ job[m.job].lease = m.lease
       => job[m.job].package = m.build

Archives ==
  \A j \in Job :
    /\ job[j].archive # 0 => job[j].archive = job[j].package
    /\ job[j].state = "publishing" => job[j].archive # 0

Observed ==
  /\ \A s \in Source : source[s].at <= head[s].at
  /\ \A d \in Discoverer : LET r == discoverer[d] IN
       /\ r.step = "listed" => r.target = None
       /\ r.step # "idle" => r.expected <= source[r.source].generation
       /\ r.step # "idle" => r.at <= head[r.source].at
       /\ r.step = "decided" /\ r.target # None /\ r.expected = source[r.source].generation
            => r.at >= source[r.source].at

QInv == /\ QueueTypeOK /\ Rows /\ JobsLeased /\ WorkersLeased /\ Kepts
        /\ Mail /\ Uploads /\ Archives /\ Observed

(* What the types say of the rows, the workers and the requests. *)
LEMMA HeldFacts ==
  ASSUME QInv
  PROVE  /\ leases \in Nat /\ left \in Budget
         /\ \A j \in Job : job[j] \in JobRow
         /\ \A w \in Worker : /\ worker[w].lease \in Nat
                              /\ worker[w].step # "idle" => worker[w].job \in Job
         /\ \A w \in Worker, j \in Job : disk[w][j] \in Nat
         /\ \A m \in late : m \in Request
  BY DEF QInv, QueueTypeOK, JobTypeOK, WorkerTypeOK

(* A fault that is spent leaves a budget. *)
LEMMA SpendKeeps == ASSUME left \in Budget, Spend PROVE left' \in Budget
  BY DEF Budget, Spend

(* Steps that keep the order of the jobs add no row. *)
LEMMA SameRows ==
  ASSUME Rows, \A j \in Job : job'[j].order # 0 => job[j].order # 0
  PROVE  Rows'
<1>1. {j \in Job : job'[j].order # 0} \subseteq {j \in Job : job[j].order # 0}
  OBVIOUS
<1> QED  BY <1>1, FS_Subset DEF Rows

(* What serving a request does to its job, and to no other. *)
LEMMA AppliedFacts ==
  ASSUME QInv, NEW m \in Request
  PROVE  LET a == Applied(m)[m.job]  b == job[m.job] IN
         /\ Applied(m) \in [Job -> JobRow]
         /\ \A j \in Job : j # m.job => Applied(m)[j] = job[j]
         /\ ~Accepts(m.job, m.lease) => a = b
         /\ a # b => b.state \in Held /\ b.live /\ b.lease = m.lease /\ a.state # "active"
         /\ a.order = b.order /\ (a.lease = b.lease \/ a.lease = 0)
         /\ m.kind = "upload" => a.lease = b.lease
         /\ a.state \in Held /\ a.live => b.state \in Held /\ b.live
         /\ a.package # b.package \/ a.archive # b.archive =>
              /\ m.kind = "upload" /\ b.lease = m.lease
              /\ a.package = m.build /\ a.archive = m.build /\ a.state = "uploaded"
         /\ a.state = "publishing" /\ b.state # "publishing" =>
              m.kind = "complete" /\ b.archive # 0 /\ b.lease = m.lease
<1>1. m.job \in Job /\ job \in [Job -> JobRow] /\ job[m.job] \in JobRow /\ m.build \in Nat
  BY DEF QInv, QueueTypeOK, JobTypeOK, Request
<1>2. CASE ~Accepts(m.job, m.lease)
  BY <1>1, <1>2 DEF Applied
<1>3. CASE Accepts(m.job, m.lease)
  <2>1. /\ Applied(m)[m.job] = Served(m)
        /\ Applied(m) = [job EXCEPT ![m.job] = Served(m)]
    BY <1>1, <1>3 DEF Applied
  <2>2. m.kind \in {"upload", "complete", "report", "defer"}
    BY DEF Request
  <2>3. /\ m.kind = "upload" =>
             Served(m) = [job[m.job] EXCEPT !.state = "uploaded", !.package = m.build,
                                            !.archive = m.build]
        /\ m.kind = "complete" =>
             Served(m) \in {job[m.job],
                            [job[m.job] EXCEPT !.state = "publishing", !.live = FALSE]}
        /\ m.kind = "complete" /\ job[m.job].archive = 0 => Served(m) = job[m.job]
        /\ m.kind = "report" => Served(m) = [job[m.job] EXCEPT !.state = "failed", !.live = FALSE]
        /\ m.kind = "defer" =>
             Served(m) = [job[m.job] EXCEPT !.state = "queued", !.lease = 0, !.live = FALSE]
    BY DEF Served
  <2> DEFINE a == Served(m)  b == job[m.job]
  <2>4. CASE m.kind = "upload"
    <3>1. /\ a \in JobRow
          /\ a.state = "uploaded" /\ a.package = m.build /\ a.archive = m.build
          /\ a.lease = b.lease /\ a.live = b.live /\ a.order = b.order
      BY <1>1, <2>3, <2>4 DEF JobRow, Unfinished
    <3> QED  BY <1>1, <1>3, <2>1, <2>4, <3>1 DEF Accepts, Held
  <2>5. CASE m.kind = "complete"
    <3>1. CASE a = b
      BY <1>1, <1>3, <2>1, <2>5, <3>1
    <3>2. CASE a # b
      <4>1. b.archive # 0 /\ a = [b EXCEPT !.state = "publishing", !.live = FALSE]
        BY <2>3, <2>5, <3>2
      <4>2. /\ a \in JobRow
            /\ a.state = "publishing" /\ a.live = FALSE /\ a.package = b.package
            /\ a.lease = b.lease /\ a.archive = b.archive /\ a.order = b.order
        BY <1>1, <4>1 DEF JobRow, Unfinished
      <4> QED  BY <1>1, <1>3, <2>1, <2>5, <4>1, <4>2 DEF Accepts, Held
    <3> QED  BY <3>1, <3>2
  <2>6. CASE m.kind = "report"
    <3>1. a = [b EXCEPT !.state = "failed", !.live = FALSE]
      BY <2>3, <2>6
    <3>2. /\ a \in JobRow
          /\ a.state = "failed" /\ a.live = FALSE /\ a.package = b.package
          /\ a.lease = b.lease /\ a.archive = b.archive /\ a.order = b.order
      BY <1>1, <3>1 DEF JobRow, Unfinished
    <3> QED  BY <1>1, <1>3, <2>1, <2>6, <3>2 DEF Accepts, Held
  <2>7. CASE m.kind = "defer"
    <3>1. a = [b EXCEPT !.state = "queued", !.lease = 0, !.live = FALSE] /\ b \in JobRow
      BY <1>1, <2>3, <2>7
    <3> HIDE DEF a, b
    <3>2. a \in JobRow
      BY <3>1 DEF JobRow, Unfinished
    <3>3. a.state = "queued"
      BY <3>1 DEF JobRow
    <3>4. a.live = FALSE
      BY <3>1 DEF JobRow
    <3>5. a.lease = 0
      BY <3>1 DEF JobRow
    <3>6. a.package = b.package /\ a.archive = b.archive /\ a.order = b.order
      BY <3>1 DEF JobRow
    <3> QED  BY <1>1, <1>3, <2>1, <2>7, <3>2, <3>3, <3>4, <3>5, <3>6 DEF Accepts, Held, a, b
  <2> QED  BY <2>2, <2>4, <2>5, <2>6, <2>7
<1> QED  BY <1>2, <1>3

(* A worker that goes to another step, and one that is idle again. *)
LEMMA Going ==
  ASSUME QInv, NEW w \in Worker, NEW step \in {"build", "upload", "complete", "report", "defer"},
         worker[w].step # "idle", Goto(w, step)
  PROVE  /\ worker'[w].step = step /\ worker'[w].job = worker[w].job
         /\ worker'[w].lease = worker[w].lease
         /\ \A v \in Worker : v # w => worker'[v] = worker[v]
         /\ worker' \in [Worker -> [step : {"idle", "build", "upload", "complete", "report",
                                            "defer"},
                                    job : Job \cup {None}, lease : Nat]]
         /\ \A v \in Worker : worker'[v].step # "idle" => worker'[v].job \in Job
  BY DEF QInv, QueueTypeOK, WorkerTypeOK, Goto

(* A worker that is idle again holds nothing. *)
LEMMA Leaving ==
  ASSUME QInv, NEW w \in Worker, Leave(w)
  PROVE  /\ worker'[w].step = "idle"
         /\ \A v \in Worker : v # w => worker'[v] = worker[v]
         /\ worker' \in [Worker -> [step : {"idle", "build", "upload", "complete", "report",
                                            "defer"},
                                    job : Job \cup {None}, lease : Nat]]
         /\ \A v \in Worker : worker'[v].step # "idle" => worker'[v].job \in Job
  BY DEF QInv, QueueTypeOK, WorkerTypeOK, Leave, Idle

(* Steps that change jobs without an upload and without a new lease. *)
Settles ==
  /\ job' \in [Job -> JobRow] /\ Rows' /\ leases' = leases
  /\ \A j \in Job :
       /\ job'[j].package = job[j].package
       /\ job'[j].lease = job[j].lease \/ job'[j].lease = 0
       /\ job'[j].archive = job[j].archive \/ job'[j].archive = 0
       /\ job'[j].state = "publishing" => job'[j].archive # 0
       /\ Busied(j)' => Busied(j)

(* What such a step leaves of the invariant, whoever makes it. *)
LEMMA Settling ==
  ASSUME QInv, Settles
  PROVE  JobTypeOK' /\ Rows' /\ JobsLeased' /\ Archives'
<1>1. JobTypeOK' /\ Rows'
  BY DEF QInv, QueueTypeOK, JobTypeOK, Settles
<1>2. JobsLeased'
  <2>1. \A j \in Job : job'[j].lease <= leases' /\ job'[j].package <= leases'
    BY HeldFacts DEF QInv, JobsLeased, Settles
  <2>2. \A j, k \in Job : Busied(j)' /\ Busied(k)' => j = k
    BY DEF QInv, JobsLeased, Settles
  <2> QED  BY <2>1, <2>2 DEF JobsLeased
<1>3. Archives'
  BY DEF QInv, Archives, Settles
<1> QED  BY <1>1, <1>2, <1>3

(* A step that settles jobs while workers and requests rest. *)
LEMMA SettlingAtRest ==
  ASSUME QInv, Settles, DiscoveryTypeOK', Observed', left' \in Budget, UNCHANGED <<workers, late>>
  PROVE  QInv'
<1>1. JobTypeOK' /\ Rows' /\ JobsLeased' /\ Archives'
  BY Settling
<1>2. WorkerTypeOK'
  BY DEF QInv, QueueTypeOK, WorkerTypeOK, workers
<1>3. WorkersLeased' /\ Kepts' /\ Mail'
  BY DEF QInv, WorkersLeased, Kepts, Kept, Mail, workers, Settles
<1>4. Uploads'
  <2>1. ASSUME NEW w \in Worker, worker[w].step = "complete",
               job'[worker[w].job].lease = worker[w].lease
        PROVE  job'[worker[w].job].package = Kept(w)
    BY <2>1, HeldFacts DEF QInv, WorkersLeased, Uploads, Settles
  <2>2. ASSUME NEW m \in late, m.kind = "complete", job'[m.job].lease = m.lease
        PROVE  job'[m.job].package = m.build
    BY <2>2, HeldFacts DEF QInv, Mail, Uploads, Settles, Request
  <2> QED  BY <2>1, <2>2 DEF Uploads, Kept, workers
<1> QED  BY <1>1, <1>2, <1>3, <1>4 DEF QInv, QueueTypeOK

(* Steps that leave the discoverers and the order of the jobs alone. *)
LEMMA SettlingOnly ==
  ASSUME QInv, job' \in [Job -> JobRow], UNCHANGED <<discovery, leases, workers, late>>,
         left' \in Budget,
         \A j \in Job :
           /\ job'[j].order = job[j].order /\ job'[j].package = job[j].package
           /\ job'[j].lease = job[j].lease \/ job'[j].lease = 0
           /\ job'[j].archive = job[j].archive \/ job'[j].archive = 0
           /\ job'[j].state = "publishing" => job'[j].archive # 0
           /\ Busied(j)' => Busied(j)
  PROVE  QInv'
<1>1. Rows'
  BY SameRows DEF QInv
<1>2. DiscoveryTypeOK' /\ Observed'
  BY DEF QInv, QueueTypeOK, DiscoveryTypeOK, Observed, discovery
<1> QED  BY <1>1, <1>2, SettlingAtRest DEF Settles

-----------------------------------------------------------------------------
(* Discovery: the queue is not touched. *)

(* Steps that leave the jobs, the workers and the requests alone. *)
LEMMA DiscoveryOnly ==
  ASSUME QInv, DiscoveryTypeOK', Observed', left' \in Budget,
         UNCHANGED <<job, leases, workers, late>>
  PROVE  QInv'
<1>1. Settles
  BY DEF QInv, QueueTypeOK, JobTypeOK, Rows, Archives, Busied, Settles
<1> QED  BY <1>1, SettlingAtRest

(* A repository only goes forward, so nobody gets ahead of it. *)
LEMMA PushKeeps ==
  ASSUME QInv, NEW s \in Source, Push(s)
  PROVE  QInv'
<1>1. PICK c \in Commit \cup {None} :
        head' = [head EXCEPT ![s] = [commit |-> c, at |-> head[s].at + 1]]
  BY DEF Push
<1>2. /\ \A r \in Source : head[r].at \in Nat /\ head[r].at <= head'[r].at
      /\ \A d \in Discoverer : discoverer[d].at \in Nat
      /\ \A r \in Source : source[r].at \in Nat
      /\ \A d \in Discoverer : discoverer[d].step # "idle" => discoverer[d].source \in Source
      /\ head' \in [Source -> [commit : Commit \cup {None}, at : Nat]]
  BY <1>1 DEF QInv, QueueTypeOK, DiscoveryTypeOK
<1>3. DiscoveryTypeOK'
  BY <1>2 DEF QInv, QueueTypeOK, DiscoveryTypeOK, Push
<1>4. Observed'
  BY <1>2 DEF QInv, Observed, Push
<1>5. left' \in Budget
  BY DEF QInv, QueueTypeOK, Budget, Push
<1> QED  BY <1>3, <1>4, <1>5, DiscoveryOnly DEF Push

(* The readings of a discoverer. *)
Readings == [step : {"idle", "listed", "known", "decided"}, source : Source \cup {None},
             expected : Nat, known : Commit \cup {None}, target : Commit \cup {None}, at : Nat]

(* What a discoverer has read is never ahead of the repository. *)
Honest(r) ==
  /\ r \in Readings
  /\ r.step # "idle" => /\ r.source \in Source
                        /\ r.expected <= source[r.source].generation
                        /\ r.at <= head[r.source].at
  /\ r.step = "listed" => r.target = None
  /\ r.step = "decided" /\ r.target # None => r.at >= source[r.source].at

(* A discoverer that goes to another honest reading. *)
LEMMA Looking ==
  ASSUME QInv, NEW d \in Discoverer, NEW r, Honest(r), left' \in Budget,
         discoverer' = [discoverer EXCEPT ![d] = r],
         UNCHANGED <<head, source, job, leases, workers, late>>
  PROVE  QInv'
<1>0. r \in Readings
  BY DEF Honest
<1>1. discoverer'[d] = r /\ \A e \in Discoverer : e # d => discoverer'[e] = discoverer[e]
  BY DEF QInv, QueueTypeOK, DiscoveryTypeOK
<1>2. DiscoveryTypeOK'
  BY <1>0, <1>1 DEF QInv, QueueTypeOK, DiscoveryTypeOK, Readings, Honest
<1>3. Observed'
  <2>1. \A s \in Source : source'[s].at <= head'[s].at
    BY DEF QInv, Observed
  <2>2. ASSUME NEW e \in Discoverer
        PROVE  LET x == discoverer'[e] IN
               /\ x.step = "listed" => x.target = None
               /\ x.step # "idle" => x.expected <= source[x.source].generation
               /\ x.step # "idle" => x.at <= head[x.source].at
               /\ x.step = "decided" /\ x.target # None
                    /\ x.expected = source[x.source].generation => x.at >= source[x.source].at
    <3>1. CASE e = d
      BY <1>1, <3>1 DEF Honest
    <3>2. CASE e # d
      BY <1>1, <3>2 DEF QInv, Observed
    <3> QED  BY <3>1, <3>2
  <2> QED  BY <2>1, <2>2 DEF Observed
<1> QED  BY <1>2, <1>3, DiscoveryOnly

(* What the invariant says of a source. *)
LEMMA SourceFacts ==
  ASSUME QInv, NEW s \in Source
  PROVE  /\ source[s].generation \in Nat /\ source[s].at \in Nat /\ head[s].at \in Nat
         /\ source[s].commit \in Commit \cup {None} /\ head[s].commit \in Commit \cup {None}
         /\ source[s].at <= head[s].at
  BY DEF QInv, QueueTypeOK, DiscoveryTypeOK, Observed

(* What it says of what a discoverer has read. *)
LEMMA ReadingFacts ==
  ASSUME QInv, NEW d \in Discoverer
  PROVE  /\ discoverer[d] \in Readings
         /\ discoverer[d].step # "idle" =>
              /\ discoverer[d].source \in Source
              /\ discoverer[d].expected <= source[discoverer[d].source].generation
              /\ discoverer[d].at <= head[discoverer[d].source].at
         /\ discoverer[d].step = "listed" => discoverer[d].target = None
  BY DEF QInv, QueueTypeOK, DiscoveryTypeOK, Observed, Readings

(* Having read nothing is honest. *)
LEMMA UnreadHonest == Unread \in Readings /\ Honest(Unread)
  BY DEF Unread, Readings, Honest

(* The generation of the row is read first, with no answer yet. *)
LEMMA ReadKeeps ==
  ASSUME QInv, NEW d \in Discoverer, NEW s \in Source, Read(d, s)
  PROVE  QInv'
<1> DEFINE known == IF source[s].enabled THEN source[s].commit ELSE None
           r == [Unread EXCEPT !.step = "known", !.source = s, !.expected = source[s].generation,
                               !.known = known]
<1>1. /\ r.step = "known" /\ r.source = s /\ r.expected = source[s].generation
      /\ r.at = 0
      /\ r \in Readings
  BY SourceFacts, UnreadHonest DEF Unread, Readings
<1>2. Look(d, r)
  BY DEF Read
<1> HIDE DEF r
<1>3. Honest(r)
  BY <1>1, SourceFacts DEF Honest
<1> QED  BY <1>2, <1>3, HeldFacts, Looking DEF Look

(* The answer of a repository is the newest there is. *)
LEMMA DecideKeeps ==
  ASSUME QInv, NEW d \in Discoverer, Decide(d)
  PROVE  QInv'
<1> DEFINE s == discoverer[d].source
           r == [discoverer[d] EXCEPT !.step = "decided", !.target = head[s].commit,
                                      !.at = head[s].at]
<1>a. discoverer[d].step = "known"
  BY DEF Decide
<1>0. s \in Source
  BY <1>a, ReadingFacts
<1>1. /\ r.step = "decided" /\ r.source = s /\ r.expected = discoverer[d].expected
      /\ r.at = head[s].at
      /\ r \in Readings
  BY <1>0, SourceFacts, ReadingFacts DEF Readings
<1>2. Look(d, r) \/ Look(d, Unread)
  BY DEF Decide
<1>3. CASE Look(d, Unread)
  BY <1>3, UnreadHonest, HeldFacts, Looking DEF Look
<1>4. CASE Look(d, r)
  <2> HIDE DEF r
  <2>1. Honest(r)
    BY <1>a, <1>0, <1>1, SourceFacts, ReadingFacts DEF Honest
  <2> QED  BY <1>4, <2>1, HeldFacts, Looking DEF Look
<1> QED  BY <1>2, <1>3, <1>4

(* The list of repositories is read before the row. *)
LEMMA ListKeeps ==
  ASSUME QInv, NEW d \in Discoverer, NEW s \in Source, List(d, s)
  PROVE  QInv'
<1> DEFINE r == [Unread EXCEPT !.step = "listed", !.source = s, !.at = head[s].at]
<1>1. /\ r.step = "listed" /\ r.source = s /\ r.expected = 0 /\ r.target = None
      /\ r.at = head[s].at
      /\ r \in Readings
  BY SourceFacts, UnreadHonest DEF Unread, Readings
<1>2. Look(d, r)
  BY DEF List
<1> HIDE DEF r
<1>3. Honest(r)
  BY <1>1, SourceFacts DEF Honest
<1> QED  BY <1>2, <1>3, HeldFacts, Looking DEF Look

(* A row is read after the list: here an answer may be older than its      *)
(* target, and such a decision sets no commit. *)
LEMMA ReadListedKeeps ==
  ASSUME QInv, NEW d \in Discoverer, ReadListed(d)
  PROVE  QInv'
<1> DEFINE s == discoverer[d].source
           r == [discoverer[d] EXCEPT !.step = "decided", !.expected = source[s].generation]
<1>a. discoverer[d].step = "listed"
  BY DEF ReadListed
<1>0. s \in Source /\ discoverer[d].target = None
  BY <1>a, ReadingFacts
<1>1. /\ r.step = "decided" /\ r.source = s /\ r.expected = source[s].generation
      /\ r.at = discoverer[d].at /\ r.target = None
      /\ r \in Readings
  BY <1>0, SourceFacts, ReadingFacts DEF Readings
<1>2. Look(d, r) \/ Look(d, Unread)
  BY DEF ReadListed
<1>3. CASE Look(d, Unread)
  BY <1>3, UnreadHonest, HeldFacts, Looking DEF Look
<1>4. CASE Look(d, r)
  <2> HIDE DEF r
  <2>1. Honest(r)
    BY <1>a, <1>0, <1>1, SourceFacts, ReadingFacts DEF Honest
  <2> QED  BY <1>4, <2>1, HeldFacts, Looking DEF Look
<1> QED  BY <1>2, <1>3, <1>4

(* A discoverer that gives up forgets what it has read. *)
LEMMA GiveUpKeeps ==
  ASSUME QInv, NEW d \in Discoverer, GiveUp(d)
  PROVE  QInv'
<1>1. left' \in Budget
  BY HeldFacts, SpendKeeps DEF GiveUp
<1> QED  BY <1>1, UnreadHonest, Looking DEF GiveUp

(* A row that a target asks for, and one that it replaces. *)
LEMMA RequeuedFacts ==
  ASSUME QInv, NEW j \in Job, NEW a, a = Requeued(job[j])
  PROVE  /\ a \in JobRow /\ a.package = job[j].package /\ a.archive = job[j].archive
         /\ a = job[j] \/ (a.state = "queued" /\ a.lease = 0)
         /\ a.order # 0
         /\ job[j].order # 0 /\ job[j].state # "superseded" => a = job[j]
<1> DEFINE b == job[j]
           n == IF b.order = 0 THEN 1 + Cardinality({k \in Job : job[k].order # 0}) ELSE b.order
<1>1. b \in JobRow /\ b.order \in Nat
  BY HeldFacts DEF JobRow
<1>2. Cardinality({k \in Job : job[k].order # 0}) \in Nat
  BY FS_CardinalityType DEF QInv, Rows
<1>3. n \in Nat
  BY <1>1, <1>2
<1>4. a = b \/ a = [b EXCEPT !.state = "queued", !.lease = 0, !.live = FALSE, !.order = n]
  BY DEF Requeued
<1> HIDE DEF b, n
<1>5. CASE a = [b EXCEPT !.state = "queued", !.lease = 0, !.live = FALSE, !.order = n]
  <2>1. [b EXCEPT !.state = "queued", !.lease = 0, !.live = FALSE, !.order = n] \in JobRow
    BY <1>1, <1>3 DEF JobRow, Unfinished
  <2>2. a.package = b.package /\ a.archive = b.archive /\ a.state = "queued" /\ a.lease = 0
    BY <1>1, <1>5 DEF JobRow
  <2>3. a.order = n
    BY <1>1, <1>3, <1>5 DEF JobRow
  <2>4. n # 0
    BY <1>1, <1>2 DEF n
  <2>5. b.order # 0 /\ b.state # "superseded" => a = b
    BY DEF Requeued, b
  <2> QED  BY <1>3, <1>5, <2>1, <2>2, <2>3, <2>4, <2>5 DEF b
<1>6. CASE a = b
  <2>1. b.order # 0
    <3>1. CASE b.order = 0
      <4>1. a.state = "queued" /\ a.order = n /\ n # 0
        BY <1>1, <1>2, <3>1 DEF Requeued, b, n, JobRow
      <4> QED  BY <1>6, <3>1, <4>1
    <3> QED  BY <3>1
  <2> QED  BY <1>1, <1>6, <2>1 DEF b
<1> QED  BY <1>1, <1>4, <1>5, <1>6 DEF b

(* A row that is replaced keeps its order, its package and its archive. *)
LEMMA SupersededFacts ==
  ASSUME QInv, NEW j \in Job, NEW a, a = Superseded(job[j])
  PROVE  /\ a \in JobRow /\ a.package = job[j].package /\ a.archive = job[j].archive
         /\ a.order = job[j].order
         /\ a = job[j] \/ (a.state = "superseded" /\ a.lease = 0)
         /\ job[j].state \notin Unfinished => a = job[j]
<1> DEFINE b == job[j]
<1>1. b \in JobRow
  BY HeldFacts
<1>2. a = b \/ a = [b EXCEPT !.state = "superseded", !.lease = 0, !.live = FALSE]
  BY DEF Superseded
<1> HIDE DEF b
<1>4. b.state \notin Unfinished => a = b
  BY DEF Superseded, b
<1>3. CASE a = [b EXCEPT !.state = "superseded", !.lease = 0, !.live = FALSE]
  <2>1. [b EXCEPT !.state = "superseded", !.lease = 0, !.live = FALSE] \in JobRow
    BY <1>1 DEF JobRow, Unfinished
  <2>2. /\ a.package = b.package /\ a.archive = b.archive /\ a.order = b.order
        /\ a.state = "superseded" /\ a.lease = 0
    BY <1>1, <1>3 DEF JobRow
  <2> QED  BY <1>3, <1>4, <2>1, <2>2 DEF b
<1> QED  BY <1>1, <1>2, <1>3, <1>4 DEF b

(* The transaction of a new target. *)
LEMMA UpdateKeeps ==
  ASSUME QInv, NEW d \in Discoverer, Update(d)
  PROVE  QInv'
<1> DEFINE r == discoverer[d]  s == r.source
<1>1. /\ r.step = "decided" /\ s \in Source /\ discoverer' = [discoverer EXCEPT ![d] = Unread]
      /\ UNCHANGED <<head, leases, workers, late, left>>
  BY ReadingFacts DEF Update
<1>2. CASE r.expected # source[s].generation
  BY <1>1, <1>2, UnreadHonest, HeldFacts, Looking DEF Update
<1>3. CASE r.expected = source[s].generation
  <2>1. Retarget(s, r.target, r.at)
    BY <1>3 DEF Update
  <2>2. /\ r.target \in Commit \cup {None} /\ r.at \in Nat /\ r.at <= head[s].at
        /\ r.target # None => r.at >= source[s].at
    BY <1>1, <1>3, ReadingFacts DEF Readings, QInv, Observed
  <2>3. /\ \A q \in Source : q # s => source'[q] = source[q]
        /\ source'[s].at = r.at /\ source'[s].generation = source[s].generation + 1
        /\ source' \in [Source -> [commit : Commit \cup {None}, enabled : BOOLEAN,
                                   generation : Nat, at : Nat]]
    BY <1>1, <2>1, <2>2 DEF Retarget, QInv, QueueTypeOK, DiscoveryTypeOK
  <2>4. \A e \in Discoverer : e # d => discoverer'[e] = discoverer[e]
    BY <1>1 DEF QInv, QueueTypeOK, DiscoveryTypeOK
  <2>5. discoverer'[d] = Unread /\ Unread.step = "idle"
    BY <1>1 DEF QInv, QueueTypeOK, DiscoveryTypeOK, Unread
  <2>6. DiscoveryTypeOK'
    BY <1>1, <2>3, <2>4, <2>5, UnreadHonest DEF QInv, QueueTypeOK, DiscoveryTypeOK, Readings
  <2>7. Observed'
    <3>1. \A q \in Source : source'[q].at <= head'[q].at
      BY <1>1, <2>2, <2>3 DEF QInv, Observed
    <3>2. ASSUME NEW e \in Discoverer
          PROVE  LET x == discoverer'[e] IN
                 /\ x.step = "listed" => x.target = None
                 /\ x.step # "idle" => x.expected <= source'[x.source].generation
                 /\ x.step # "idle" => x.at <= head'[x.source].at
                 /\ x.step = "decided" /\ x.target # None
                      /\ x.expected = source'[x.source].generation => x.at >= source'[x.source].at
      <4>1. CASE e = d
        BY <4>1, <2>5
      <4>2. CASE e # d /\ discoverer[e].source # s
        BY <1>1, <4>2, <2>3, <2>4, ReadingFacts DEF QInv, Observed
      <4>3. CASE e # d /\ discoverer[e].source = s
        <5>1. /\ source[s].generation \in Nat /\ discoverer[e].expected \in Nat
              /\ discoverer[e].step # "idle" => discoverer[e].expected <= source[s].generation
          BY <1>1, <4>3, SourceFacts, ReadingFacts DEF Readings
        <5> QED  BY <1>1, <4>3, <5>1, <2>3, <2>4 DEF QInv, Observed
      <4> QED  BY <4>1, <4>2, <4>3
    <3> QED  BY <3>1, <3>2 DEF Observed
  <2>8. \A j \in Job :
          job'[j] = IF j[1] # s THEN job[j]
                    ELSE IF j[2] = r.target THEN Requeued(job[j]) ELSE Superseded(job[j])
    BY <2>1 DEF Retarget
  <2>9. ASSUME NEW j \in Job
        PROVE  /\ job'[j] \in JobRow
               /\ job'[j].package = job[j].package /\ job'[j].archive = job[j].archive
               /\ \/ job'[j] = job[j]
                  \/ job'[j].state \in {"queued", "superseded"} /\ job'[j].lease = 0
               /\ j # <<s, r.target>> => job'[j].order = job[j].order
    <3>1. CASE j[1] # s
      BY <2>8, <3>1, HeldFacts
    <3>2. CASE j[1] = s /\ j[2] = r.target
      <4>1. job'[j] = Requeued(job[j]) /\ j = <<s, r.target>>
        BY <2>8, <3>2 DEF Job
      <4> QED  BY <4>1, RequeuedFacts
    <3>3. CASE j[1] = s /\ j[2] # r.target
      BY <2>8, <3>3, SupersededFacts
    <3> QED  BY <3>1, <3>2, <3>3
  <2>10. job' \in [Job -> JobRow]
    <3>1. job' = [j \in Job |-> job'[j]]
      BY <2>1 DEF Retarget
    <3> QED  BY <2>9, <3>1
  <2>11. Rows'
    <3>1. {j \in Job : job'[j].order # 0}
             \subseteq {j \in Job : job[j].order # 0} \cup {<<s, r.target>>}
      BY <2>9
    <3>2. IsFiniteSet({j \in Job : job[j].order # 0} \cup {<<s, r.target>>})
      BY FS_AddElement DEF QInv, Rows
    <3> QED  BY <3>1, <3>2, FS_Subset DEF Rows
  <2>12. Settles
    BY <1>1, <2>9, <2>10, <2>11 DEF Settles, Busied, Held, QInv, Archives
  <2> QED  BY <1>1, <2>6, <2>7, <2>12, HeldFacts, SettlingAtRest
<1> QED  BY <1>2, <1>3

-----------------------------------------------------------------------------
(* The queue alone. *)

(* A lease that runs out frees its job. *)
LEMMA ExpireKeeps ==
  ASSUME QInv, NEW j \in Job, Expire(j)
  PROVE  QInv'
<1>1. left' \in Budget
  BY HeldFacts, SpendKeeps DEF Expire
<1>2. job[j] \in JobRow /\ [job[j] EXCEPT !.live = FALSE] \in JobRow
  BY HeldFacts DEF JobRow
<1>3. /\ job' \in [Job -> JobRow] /\ \A k \in Job : k # j => job'[k] = job[k]
      /\ job'[j] = [job[j] EXCEPT !.live = FALSE]
  BY <1>2 DEF Expire, QInv, QueueTypeOK, JobTypeOK
<1>4. /\ job'[j].order = job[j].order /\ job'[j].package = job[j].package
      /\ job'[j].lease = job[j].lease /\ job'[j].archive = job[j].archive
      /\ job'[j].state = job[j].state /\ job'[j].live = FALSE
  BY <1>2, <1>3 DEF JobRow
<1> QED  BY <1>1, <1>3, <1>4, SettlingOnly DEF Expire, Busied, QInv, Archives

(* A retried job has no lease. *)
LEMMA RetryKeeps ==
  ASSUME QInv, NEW j \in Job, Retry(j)
  PROVE  QInv'
<1>1. left' \in Budget
  BY HeldFacts, SpendKeeps DEF Retry
<1>2. /\ job[j] \in JobRow
      /\ [job[j] EXCEPT !.state = "queued", !.lease = 0, !.live = FALSE] \in JobRow
  BY HeldFacts DEF JobRow, Unfinished
<1>3. /\ job' \in [Job -> JobRow] /\ \A k \in Job : k # j => job'[k] = job[k]
      /\ job'[j] = [job[j] EXCEPT !.state = "queued", !.lease = 0, !.live = FALSE]
  BY <1>2 DEF Retry, QInv, QueueTypeOK, JobTypeOK
<1>4. /\ job'[j].order = job[j].order /\ job'[j].package = job[j].package
      /\ job'[j].lease = 0 /\ job'[j].archive = job[j].archive
      /\ job'[j].state = "queued"
  BY <1>2, <1>3 DEF JobRow
<1> QED  BY <1>1, <1>3, <1>4, SettlingOnly DEF Retry, Busied, Held, QInv, Archives

(* A claim takes a job that nobody holds, under a lease nobody has. *)
LEMMA Claiming ==
  ASSUME QInv, NEW j \in Job, ~Busy, Claimable(j), job' = [job EXCEPT ![j] = Claimed(job[j])],
         leases' = leases + 1
  PROVE  /\ job' \in [Job -> JobRow] /\ \A k \in Job : k # j => job'[k] = job[k]
         /\ job'[j].lease = leases + 1 /\ job'[j].state # "publishing"
         /\ job'[j].package = job[j].package /\ job'[j].archive = job[j].archive
         /\ JobTypeOK' /\ Rows' /\ JobsLeased' /\ Archives'
<1> DEFINE b == job[j]  x == IF b.package = 0 THEN "building" ELSE "uploaded"
           a == [b EXCEPT !.state = x, !.lease = leases + 1, !.live = TRUE]
<1>1. b \in JobRow /\ leases + 1 \in Nat /\ x \in Unfinished
  BY HeldFacts DEF Unfinished
<1>2. a \in JobRow
  BY <1>1 DEF JobRow
<1>3. a.lease = leases + 1 /\ a.state = x /\ a.package = b.package /\ a.archive = b.archive
      /\ a.order = b.order
  BY <1>1 DEF JobRow
<1>4. job' \in [Job -> JobRow] /\ job'[j] = a /\ \A k \in Job : k # j => job'[k] = job[k]
  BY <1>2 DEF QInv, QueueTypeOK, JobTypeOK, Claimed
<1>5. x # "publishing"
  OBVIOUS
<1> HIDE DEF a, x
<1>6. Rows'
  BY <1>3, <1>4, SameRows DEF QInv
<1>7. JobsLeased'
  <2>1. \A k \in Job : job[k].lease \in Nat /\ job[k].package \in Nat
                       /\ job[k].lease <= leases /\ job[k].package <= leases
    BY HeldFacts DEF JobRow, QInv, JobsLeased
  <2>2. \A k \in Job : job'[k].lease <= leases' /\ job'[k].package <= leases'
    BY <1>1, <1>3, <1>4, <2>1, HeldFacts
  <2>3. \A k \in Job : Busied(k)' => k = j
    BY <1>4 DEF Busy, Busied
  <2> QED  BY <2>2, <2>3 DEF JobsLeased
<1>8. Archives'
  BY <1>3, <1>4, <1>5 DEF QInv, Archives
<1>9. JobTypeOK'
  BY <1>1, <1>4 DEF JobTypeOK
<1> QED  BY <1>3, <1>4, <1>5, <1>6, <1>7, <1>8, <1>9

(* A worker that claims a job has a lease of its own. *)
LEMMA ClaimKeeps ==
  ASSUME QInv, NEW w \in Worker, NEW j \in Job, Claim(w, j)
  PROVE  QInv'
<1> DEFINE r == [step |-> "build", job |-> j, lease |-> leases + 1]
<1>1. /\ job' \in [Job -> JobRow] /\ \A k \in Job : k # j => job'[k] = job[k]
      /\ job'[j].lease = leases + 1 /\ leases' = leases + 1
      /\ JobTypeOK' /\ Rows' /\ JobsLeased' /\ Archives'
  BY Claiming DEF Claim
<1>2. worker' = [worker EXCEPT ![w] = r]
  BY DEF Claim
<1>3. worker'[w] = r /\ \A v \in Worker : v # w => worker'[v] = worker[v]
  BY <1>2 DEF QInv, QueueTypeOK, WorkerTypeOK
<1>4. WorkerTypeOK'
  BY <1>2, <1>3, HeldFacts DEF QInv, QueueTypeOK, WorkerTypeOK, Claim
<1>5. DiscoveryTypeOK' /\ Observed' /\ left' \in Budget
  BY HeldFacts DEF QInv, QueueTypeOK, DiscoveryTypeOK, Observed, Claim, discovery
<1>6. WorkersLeased'
  BY <1>1, <1>3, HeldFacts DEF QInv, WorkersLeased
<1>7. Kepts'
  BY <1>1, <1>3, HeldFacts DEF QInv, Kepts, Kept, Claim
<1>8. Mail'
  BY <1>1, <1>3, HeldFacts DEF QInv, Mail, Request, Claim
<1>9. Uploads'
  BY <1>1, <1>3, HeldFacts DEF QInv, Uploads, WorkersLeased, Mail, Kept, Request, Claim
<1> QED  BY <1>1, <1>4, <1>5, <1>6, <1>7, <1>8, <1>9 DEF QInv, QueueTypeOK

(* A claim whose answer is lost is a lease that nobody has. *)
LEMMA ClaimLostKeeps ==
  ASSUME QInv, NEW j \in Job, ClaimLost(j)
  PROVE  QInv'
<1>1. /\ job' \in [Job -> JobRow] /\ \A k \in Job : k # j => job'[k] = job[k]
      /\ job'[j].lease = leases + 1 /\ leases' = leases + 1
      /\ JobTypeOK' /\ Rows' /\ JobsLeased' /\ Archives'
  BY Claiming DEF ClaimLost
<1>2. WorkerTypeOK'
  BY DEF QInv, QueueTypeOK, WorkerTypeOK, ClaimLost, workers
<1>3. DiscoveryTypeOK' /\ Observed'
  BY DEF QInv, QueueTypeOK, DiscoveryTypeOK, Observed, ClaimLost, discovery
<1>4. left' \in Budget
  BY HeldFacts, SpendKeeps DEF ClaimLost
<1>5. WorkersLeased'
  BY <1>1, HeldFacts DEF QInv, WorkersLeased, ClaimLost, workers
<1>6. Kepts'
  BY <1>1, HeldFacts DEF QInv, Kepts, Kept, ClaimLost, workers
<1>7. Mail'
  BY <1>1, HeldFacts DEF QInv, Mail, Request, ClaimLost, workers
<1>8. Uploads'
  BY <1>1, HeldFacts
     DEF QInv, Uploads, WorkersLeased, Mail, Kept, Request, ClaimLost, workers
<1> QED  BY <1>1, <1>2, <1>3, <1>4, <1>5, <1>6, <1>7, <1>8 DEF QInv, QueueTypeOK

-----------------------------------------------------------------------------
(* A worker on its own. *)

(* Steps that leave the jobs, the discoverers and the requests alone. *)
LEMMA WorkersOnly ==
  ASSUME QInv, UNCHANGED <<discovery, job, leases>>, left' \in Budget,
         WorkerTypeOK', WorkersLeased', Kepts', Mail', Uploads'
  PROVE  QInv'
<1>1. DiscoveryTypeOK' /\ Observed'
  BY DEF QInv, QueueTypeOK, DiscoveryTypeOK, Observed, discovery
<1>2. JobTypeOK' /\ Rows' /\ JobsLeased' /\ Archives'
  BY DEF QInv, QueueTypeOK, JobTypeOK, Rows, JobsLeased, Busied, Archives
<1> QED  BY <1>1, <1>2 DEF QInv, QueueTypeOK

(* What a worker that leaves has kept may go with it. *)
LEMMA LeavingOnly ==
  ASSUME QInv, NEW w \in Worker, Leave(w), UNCHANGED <<discovery, job, leases, late>>,
         left' \in Budget, disk' = disk \/ (worker[w].step # "idle" /\ Forget(w))
  PROVE  QInv'
<1>1. /\ disk' \in [Worker -> [Job -> Nat]]
      /\ \A v \in Worker : v # w => disk'[v] = disk[v]
      /\ \A j \in Job : disk'[w][j] = disk[w][j] \/ disk'[w][j] = 0
  <2>1. disk \in [Worker -> [Job -> Nat]]
    BY DEF QInv, QueueTypeOK, WorkerTypeOK
  <2>2. CASE disk' = disk
    BY <2>1, <2>2
  <2>3. CASE worker[w].step # "idle" /\ Forget(w)
    BY <2>1, <2>3, HeldFacts DEF Forget
  <2> QED  BY <2>2, <2>3
<1>2. WorkerTypeOK'
  BY <1>1, Leaving DEF QInv, QueueTypeOK, WorkerTypeOK
<1>3. WorkersLeased'
  BY Leaving DEF QInv, WorkersLeased
<1>4. Kepts'
  <2>1. \A v \in Worker, j \in Job : disk'[v][j] <= leases'
    BY <1>1, HeldFacts DEF QInv, Kepts
  <2>2. \A v \in Worker : worker'[v].step \in {"upload", "complete"} => Kept(v)' # 0
    BY <1>1, Leaving DEF QInv, Kepts, Kept
  <2> QED  BY <2>1, <2>2 DEF Kepts
<1>5. Mail'
  BY Leaving DEF QInv, Mail
<1>6. Uploads'
  BY <1>1, Leaving DEF QInv, Uploads, Kept
<1> QED  BY <1>2, <1>3, <1>4, <1>5, <1>6, WorkersOnly

(* What is built is kept under the lease of the worker. *)
LEMMA BuildKeeps ==
  ASSUME QInv, NEW w \in Worker, Build(w)
  PROVE  QInv'
<1> DEFINE j == worker[w].job  kept == IF Kept(w) = 0 THEN worker[w].lease ELSE Kept(w)
<1>1. /\ j \in Job /\ worker[w].step # "idle" /\ worker[w].step = "build"
      /\ worker[w].lease \in 1 .. leases
      /\ left \in Budget
  BY HeldFacts DEF Build, QInv, WorkersLeased
<1>2. Kept(w) \in Nat /\ Kept(w) <= leases /\ leases \in Nat
  BY <1>1, HeldFacts DEF Kept, QInv, Kepts
<1>3. kept \in Nat /\ kept <= leases /\ kept # 0
  BY <1>1, <1>2
<1>4. disk' = [disk EXCEPT ![w][j] = kept] /\ Goto(w, "upload")
      /\ UNCHANGED <<discovery, job, leases, late, left>>
  BY DEF Build
<1> HIDE DEF kept, j
<1>5. /\ disk' \in [Worker -> [Job -> Nat]] /\ disk'[w][j] = kept
      /\ \A v \in Worker, i \in Job : v # w \/ i # j => disk'[v][i] = disk[v][i]
  BY <1>1, <1>3, <1>4 DEF QInv, QueueTypeOK, WorkerTypeOK
<1>6. WorkerTypeOK'
  BY <1>1, <1>4, <1>5, Going DEF QInv, QueueTypeOK, WorkerTypeOK
<1>7. WorkersLeased'
  BY <1>1, <1>4, Going DEF QInv, WorkersLeased
<1>8. Kepts'
  <2>1. \A v \in Worker, i \in Job : disk'[v][i] <= leases'
    BY <1>3, <1>4, <1>5 DEF QInv, Kepts
  <2>2. \A v \in Worker : worker'[v].step \in {"upload", "complete"} => Kept(v)' # 0
    BY <1>1, <1>3, <1>4, <1>5, Going, HeldFacts DEF QInv, Kepts, Kept, j
  <2> QED  BY <2>1, <2>2 DEF Kepts
<1>9. Mail'
  BY <1>1, <1>4, Going DEF QInv, Mail
<1>10. Uploads'
  BY <1>1, <1>4, <1>5, Going, HeldFacts DEF QInv, Uploads, Kept
<1> QED  BY <1>1, <1>4, <1>6, <1>7, <1>8, <1>9, <1>10, WorkersOnly

(* A failed build keeps nothing and is reported or deferred. *)
LEMMA BuildFailsKeeps ==
  ASSUME QInv, NEW w \in Worker, BuildFails(w)
  PROVE  QInv'
<1>1. PICK step \in {"report", "defer"} : Goto(w, step)
  BY DEF BuildFails
<1>2. /\ worker[w].step = "build" /\ left' \in Budget
      /\ UNCHANGED <<discovery, job, leases, disk, late>>
  BY HeldFacts, SpendKeeps DEF BuildFails
<1>3. /\ worker'[w].step = step /\ worker'[w].job = worker[w].job
      /\ worker'[w].lease = worker[w].lease
      /\ \A v \in Worker : v # w => worker'[v] = worker[v]
  BY <1>1, <1>2, Going
<1>4. WorkerTypeOK'
  BY <1>1, <1>2, Going DEF QInv, QueueTypeOK, WorkerTypeOK
<1>5. WorkersLeased'
  BY <1>2, <1>3 DEF QInv, WorkersLeased
<1>6. Kepts' /\ Mail' /\ Uploads'
  BY <1>2, <1>3 DEF QInv, Kepts, Kept, Mail, Uploads
<1> QED  BY <1>2, <1>4, <1>5, <1>6, WorkersOnly

(* A worker whose lease is refused leaves with what it kept. *)
LEMMA AbandonKeeps ==
  ASSUME QInv, NEW w \in Worker, Abandon(w)
  PROVE  QInv'
  BY LeavingOnly, HeldFacts DEF Abandon

(* A worker that crashes leaves its archive behind. *)
LEMMA CrashKeeps ==
  ASSUME QInv, NEW w \in Worker, Crash(w)
  PROVE  QInv'
  BY LeavingOnly, HeldFacts, SpendKeeps DEF Crash

(* Cleaning up happens between two jobs and removes archives only. *)
LEMMA CleanupKeeps ==
  ASSUME QInv, NEW w \in Worker, Cleanup(w)
  PROVE  QInv'
<1>1. /\ disk' \in [Worker -> [Job -> Nat]]
      /\ \A v \in Worker : v # w => disk'[v] = disk[v]
      /\ \A j \in Job : disk'[w][j] \in {disk[w][j], 0}
  BY HeldFacts DEF QInv, QueueTypeOK, WorkerTypeOK, Cleanup
<1>2. worker[w].step = "idle" /\ UNCHANGED <<discovery, job, leases, worker, late, left>>
  BY DEF Cleanup
<1>3. WorkerTypeOK' /\ WorkersLeased' /\ Mail'
  BY <1>1, <1>2 DEF QInv, QueueTypeOK, WorkerTypeOK, WorkersLeased, Mail
<1>4. Kepts'
  BY <1>1, <1>2, HeldFacts DEF QInv, Kepts, Kept
<1>5. Uploads'
  BY <1>1, <1>2 DEF QInv, Uploads, Kept
<1> QED  BY <1>2, <1>3, <1>4, <1>5, HeldFacts, WorkersOnly

(* A request that nobody waits for any more stays the last one of its lease. *)
LEMMA TimeOutKeeps ==
  ASSUME QInv, NEW w \in Worker, NEW kind, TimeOut(w, kind)
  PROVE  QInv'
<1> DEFINE n == RequestOf(w, kind)
<1>1. /\ kind \in {"upload", "complete", "report", "defer"} /\ worker[w].step = kind
      /\ late' = late \cup {n} /\ left' \in Budget
      /\ UNCHANGED <<discovery, job, leases, disk>>
  BY HeldFacts, SpendKeeps DEF TimeOut
<1>2. /\ worker[w].job \in Job /\ worker[w].lease \in 1 .. leases /\ leases \in Nat
      /\ Kept(w) \in Nat /\ Kept(w) <= leases
      /\ kind \in {"upload", "complete"} => Kept(w) # 0
  BY <1>1, HeldFacts DEF QInv, WorkersLeased, Kepts, Kept
<1>3. /\ n \in Request /\ n.kind = kind /\ n.job = worker[w].job /\ n.lease = worker[w].lease
      /\ n.build = Kept(w)
  BY <1>1, <1>2 DEF RequestOf, Request
<1>4. /\ worker'[w].step \in {"idle", "defer", "report"}
      /\ worker'[w].step # "idle" => kind = "upload" /\ worker'[w].job = worker[w].job
                                     /\ worker'[w].lease = worker[w].lease
      /\ \A v \in Worker : v # w => worker'[v] = worker[v]
      /\ worker' \in [Worker -> [step : {"idle", "build", "upload", "complete", "report", "defer"},
                            job : Job \cup {None}, lease : Nat]]
      /\ \A v \in Worker : worker'[v].step # "idle" => worker'[v].job \in Job
  <2>1. CASE kind = "upload"
    <3>1. Goto(w, "defer") \/ Goto(w, "report")
      BY <2>1 DEF TimeOut
    <3> QED  BY <1>1, <2>1, <3>1, Going
  <2>2. CASE kind # "upload"
    BY <1>1, <2>2, Leaving DEF TimeOut
  <2> QED  BY <2>1, <2>2
<1> HIDE DEF n
<1>5. WorkerTypeOK'
  BY <1>1, <1>3, <1>4 DEF QInv, QueueTypeOK, WorkerTypeOK
<1>6. WorkersLeased'
  BY <1>1, <1>4 DEF QInv, WorkersLeased
<1>7. Kepts'
  BY <1>1, <1>4 DEF QInv, Kepts, Kept
<1>8. Mail'
  <2>1. ASSUME NEW m \in late'
        PROVE  /\ m.lease \in 1 .. leases /\ m.build <= leases
               /\ m.kind = "upload" => m.build # 0
               /\ m.kind = "complete"
                    => \A v \in Worker : worker'[v].step # "idle" => worker'[v].lease # m.lease
    <3>1. CASE m = n
      BY <1>1, <1>2, <1>3, <1>4, <3>1 DEF QInv, WorkersLeased
    <3>2. CASE m \in late
      BY <1>1, <1>4, <3>2 DEF QInv, Mail
    <3> QED  BY <1>1, <3>1, <3>2
  <2>2. ASSUME NEW v \in Worker, worker'[v].step \in {"build", "upload", "complete"},
               NEW m \in late'
        PROVE  m.lease # worker'[v].lease
    BY <1>1, <1>2, <1>3, <1>4, <2>2 DEF QInv, WorkersLeased, Mail
  <2>3. ASSUME NEW m \in late', NEW x \in late', m.kind = "complete", x.kind = "upload"
        PROVE  m.lease # x.lease
    BY <1>1, <1>3, <2>3 DEF QInv, Mail
  <2> QED  BY <1>1, <2>1, <2>2, <2>3 DEF Mail
<1>9. Uploads'
  BY <1>1, <1>3, <1>4 DEF QInv, Uploads, Kept
<1> QED  BY <1>1, <1>5, <1>6, <1>7, <1>8, <1>9, WorkersOnly

-----------------------------------------------------------------------------
(* Requests of workers. *)

(* What serving a request that is not an upload does. *)
LEMMA ServingSettles ==
  ASSUME QInv, NEW m \in Request, m.kind # "upload", job' = Applied(m), leases' = leases
  PROVE  Settles
<1>1. /\ job' \in [Job -> JobRow] /\ \A j \in Job : j # m.job => job'[j] = job[j]
      /\ m.job \in Job
  BY AppliedFacts DEF Request
<1>2. Rows'
  BY <1>1, AppliedFacts, SameRows DEF QInv
<1>3. LET a == job'[m.job]  b == job[m.job] IN
      /\ a.package = b.package /\ a.archive = b.archive /\ (a.lease = b.lease \/ a.lease = 0)
      /\ a.state = "publishing" => a.archive # 0
      /\ a.state \in Held /\ a.live => b.state \in Held /\ b.live
  BY <1>1, AppliedFacts DEF QInv, Archives
<1> QED  BY <1>1, <1>2, <1>3 DEF Settles, Busied, QInv, Archives

(* An upload is the only request that changes packages, that of its lease.   *)
LEMMA Uploading ==
  ASSUME QInv, NEW m \in Request, m.kind = "upload", m.build <= leases,
         job' = Applied(m), leases' = leases
  PROVE  /\ JobTypeOK' /\ Rows' /\ JobsLeased' /\ Archives'
         /\ \A j \in Job : job'[j].lease = job[j].lease
              /\ (job'[j].package # job[j].package
                    => j = m.job /\ job[j].lease = m.lease /\ job'[j].package = m.build)
<1>1. /\ job' \in [Job -> JobRow] /\ \A j \in Job : j # m.job => job'[j] = job[j]
      /\ m.job \in Job
  BY AppliedFacts DEF Request
<1>2. Rows'
  BY <1>1, AppliedFacts, SameRows DEF QInv
<1>3. LET a == job'[m.job]  b == job[m.job] IN
      /\ a.lease = b.lease
      /\ a.state \in Held /\ a.live => b.state \in Held /\ b.live
      /\ a.package # b.package \/ a.archive # b.archive =>
           b.lease = m.lease /\ a.package = m.build /\ a.archive = m.build
      /\ a.state = "publishing" => b.state = "publishing" /\ a.archive = b.archive
  BY <1>1, AppliedFacts
<1>4. JobsLeased'
  BY <1>1, <1>3 DEF QInv, JobsLeased, Busied
<1>5. Archives'
  BY <1>1, <1>3 DEF QInv, Archives
<1> QED  BY <1>1, <1>2, <1>3, <1>4, <1>5, HeldFacts DEF JobTypeOK

(* After its upload the queue stores what the worker has kept. *)
LEMMA UploadKeeps ==
  ASSUME QInv, NEW w \in Worker, Upload(w)
  PROVE  QInv'
<1> DEFINE m == RequestOf(w, "upload")
<1>1. /\ worker[w].step = "upload" /\ Accepts(worker[w].job, worker[w].lease)
      /\ job' = Applied(m) /\ Goto(w, "complete")
      /\ UNCHANGED <<discovery, leases, disk, late, left>>
  BY DEF Upload
<1>2. /\ m \in Request /\ m.kind = "upload" /\ m.job = worker[w].job /\ m.job \in Job
      /\ m.lease = worker[w].lease /\ m.build = Kept(w) /\ m.build <= leases
      /\ worker[w].lease \in 1 .. leases
  BY <1>1, HeldFacts DEF RequestOf, Request, QInv, Kepts, Kept, WorkersLeased
<1>3. job'[m.job].package = m.build
  <2>1. Applied(m)[m.job] = [job[m.job] EXCEPT !.state = "uploaded", !.package = m.build,
                                               !.archive = m.build]
    BY <1>1, <1>2 DEF Applied, Served, QInv, QueueTypeOK, JobTypeOK
  <2> QED  BY <1>1, <1>2, <2>1, HeldFacts DEF JobRow
<1> HIDE DEF m
<1>4. /\ JobTypeOK' /\ Rows' /\ JobsLeased' /\ Archives'
      /\ \A j \in Job : job'[j].lease = job[j].lease
              /\ (job'[j].package # job[j].package
                    => j = m.job /\ job[j].lease = m.lease /\ job'[j].package = m.build)
  BY <1>1, <1>2, Uploading
<1>5. /\ worker'[w].step = "complete" /\ worker'[w].job = worker[w].job
      /\ worker'[w].lease = worker[w].lease
      /\ \A v \in Worker : v # w => worker'[v] = worker[v]
  BY <1>1, Going
<1>6. DiscoveryTypeOK' /\ Observed' /\ left' \in Budget
  BY <1>1, HeldFacts DEF QInv, QueueTypeOK, DiscoveryTypeOK, Observed, discovery
<1>7. WorkerTypeOK'
  BY <1>1, Going DEF QInv, QueueTypeOK, WorkerTypeOK
<1>8. WorkersLeased'
  BY <1>1, <1>5 DEF QInv, WorkersLeased
<1>9. Kepts' /\ Mail'
  BY <1>1, <1>5 DEF QInv, Kepts, Kept, Mail
<1>10. Uploads'
  <2>1. ASSUME NEW v \in Worker, worker'[v].step = "complete",
               job'[worker'[v].job].lease = worker'[v].lease
        PROVE  job'[worker'[v].job].package = disk[v][worker'[v].job]
    <3>1. CASE v = w
      BY <1>2, <1>3, <1>5, <3>1 DEF Kept
    <3>2. CASE v # w
      BY <1>1, <1>2, <1>4, <1>5, <2>1, <3>2, HeldFacts
         DEF QInv, Uploads, WorkersLeased, Kept
    <3> QED  BY <3>1, <3>2
  <2>2. ASSUME NEW x \in late, x.kind = "complete", job'[x.job].lease = x.lease
        PROVE  job'[x.job].package = x.build
    BY <1>1, <1>2, <1>4, <2>2, HeldFacts DEF QInv, Uploads, Mail, Request
  <2> QED  BY <1>1, <2>1, <2>2 DEF Uploads, Kept
<1> QED  BY <1>4, <1>6, <1>7, <1>8, <1>9, <1>10 DEF QInv, QueueTypeOK

(* A run ends with its last request served. *)
LEMMA EndKeeps ==
  ASSUME QInv, NEW w \in Worker, NEW kind, End(w, kind)
  PROVE  QInv'
<1> DEFINE m == RequestOf(w, kind)
<1>1. /\ worker[w].step = kind /\ kind \in {"complete", "report", "defer"}
      /\ job' = Applied(m) /\ Leave(w) /\ (disk' = disk \/ Forget(w))
      /\ UNCHANGED <<discovery, leases, late, left>>
  BY DEF End
<1>2. m \in Request /\ m.kind # "upload"
  <2>0. worker[w].step # "idle"
    BY <1>1
  <2>1. worker[w].job \in Job /\ worker[w].lease \in Nat /\ Kept(w) \in Nat
    BY <2>0, HeldFacts DEF Kept
  <2> QED  BY <1>1, <2>1 DEF RequestOf, Request
<1> HIDE DEF m
<1>3. Settles
  BY <1>1, <1>2, ServingSettles
<1>4. JobTypeOK' /\ Rows' /\ JobsLeased' /\ Archives'
  BY <1>3, Settling
<1>5. /\ disk' \in [Worker -> [Job -> Nat]]
      /\ \A v \in Worker : v # w => disk'[v] = disk[v]
      /\ \A j \in Job : disk'[w][j] = disk[w][j] \/ disk'[w][j] = 0
  <2>1. disk \in [Worker -> [Job -> Nat]]
    BY DEF QInv, QueueTypeOK, WorkerTypeOK
  <2>2. CASE disk' = disk
    BY <2>1, <2>2
  <2>3. CASE Forget(w)
    BY <1>1, <2>1, <2>3, HeldFacts DEF Forget
  <2> QED  BY <1>1, <2>2, <2>3
<1>6. DiscoveryTypeOK' /\ Observed' /\ left' \in Budget
  BY <1>1, HeldFacts DEF QInv, QueueTypeOK, DiscoveryTypeOK, Observed, discovery
<1>7. WorkerTypeOK'
  BY <1>1, <1>5, Leaving DEF QInv, QueueTypeOK, WorkerTypeOK
<1>8. WorkersLeased'
  BY <1>1, Leaving DEF QInv, WorkersLeased
<1>9. Kepts'
  <2>1. \A v \in Worker, j \in Job : disk'[v][j] <= leases'
    BY <1>1, <1>5, HeldFacts DEF QInv, Kepts
  <2>2. \A v \in Worker : worker'[v].step \in {"upload", "complete"} => Kept(v)' # 0
    BY <1>1, <1>5, Leaving DEF QInv, Kepts, Kept
  <2> QED  BY <2>1, <2>2 DEF Kepts
<1>10. Mail'
  BY <1>1, Leaving DEF QInv, Mail
<1>11. Uploads'
  <2>1. ASSUME NEW v \in Worker, worker'[v].step = "complete",
               job'[worker'[v].job].lease = worker'[v].lease
        PROVE  job'[worker'[v].job].package = disk'[v][worker'[v].job]
    <3>1. v # w /\ worker'[v] = worker[v] /\ disk'[v] = disk[v]
      BY <1>1, <1>5, <2>1, Leaving
    <3> QED  BY <2>1, <3>1, <1>3, HeldFacts DEF QInv, WorkersLeased, Uploads, Settles, Kept
  <2>2. ASSUME NEW x \in late, x.kind = "complete", job'[x.job].lease = x.lease
        PROVE  job'[x.job].package = x.build
    BY <2>2, <1>3, HeldFacts DEF QInv, Mail, Uploads, Settles, Request
  <2> QED  BY <1>1, <2>1, <2>2 DEF Uploads, Kept
<1> QED  BY <1>4, <1>6, <1>7, <1>8, <1>9, <1>10, <1>11 DEF QInv, QueueTypeOK

(* A late request is served under the lease it was sent with. *)
LEMMA ServeLateKeeps ==
  ASSUME QInv, NEW m \in late, ServeLate(m)
  PROVE  QInv'
<1>1. /\ job' = Applied(m) /\ late' = late \ {m} /\ UNCHANGED <<discovery, leases, workers, left>>
      /\ m \in Request /\ m.build <= leases
  BY HeldFacts DEF ServeLate, QInv, Mail
<1>2. DiscoveryTypeOK' /\ WorkerTypeOK' /\ Observed' /\ left' \in Budget
  BY <1>1, HeldFacts
     DEF QInv, QueueTypeOK, DiscoveryTypeOK, WorkerTypeOK, Observed, discovery, workers
<1>3. WorkersLeased' /\ Kepts' /\ Mail'
  BY <1>1 DEF QInv, WorkersLeased, Kepts, Kept, Mail, workers
<1>4. JobTypeOK' /\ Rows' /\ JobsLeased' /\ Archives' /\ Uploads'
  <2>1. CASE m.kind # "upload"
    <3>1. Settles
      BY <1>1, <2>1, ServingSettles
    <3>2. ASSUME NEW w \in Worker, worker[w].step = "complete",
                 job'[worker[w].job].lease = worker[w].lease
          PROVE  job'[worker[w].job].package = Kept(w)
      BY <3>1, <3>2, HeldFacts DEF QInv, WorkersLeased, Uploads, Settles
    <3>3. ASSUME NEW x \in late, x.kind = "complete", job'[x.job].lease = x.lease
          PROVE  job'[x.job].package = x.build
      BY <3>1, <3>3, HeldFacts DEF QInv, Mail, Uploads, Settles, Request
    <3>4. Uploads'
      BY <1>1, <3>2, <3>3 DEF Uploads, Kept, workers
    <3> QED  BY <3>1, <3>4, Settling
  <2>2. CASE m.kind = "upload"
    <3>1. /\ JobTypeOK' /\ Rows' /\ JobsLeased' /\ Archives'
          /\ \A j \in Job : job'[j].lease = job[j].lease
              /\ (job'[j].package # job[j].package
                    => j = m.job /\ job[j].lease = m.lease /\ job'[j].package = m.build)
      BY <1>1, <2>2, Uploading
    <3>2. ASSUME NEW w \in Worker, worker[w].step = "complete",
                 job'[worker[w].job].lease = worker[w].lease
          PROVE  job'[worker[w].job].package = Kept(w)
      <4>0. worker[w].step # "idle" /\ worker[w].step \in {"build", "upload", "complete"}
        BY <3>2
      <4>1. worker[w].lease # m.lease
        BY <4>0 DEF QInv, Mail
      <4>2. worker[w].job \in Job
        BY <4>0, HeldFacts
      <4> QED  BY <3>1, <3>2, <4>1, <4>2 DEF QInv, Uploads
    <3>3. ASSUME NEW x \in late, x.kind = "complete", job'[x.job].lease = x.lease
          PROVE  job'[x.job].package = x.build
      BY <2>2, <3>1, <3>3, HeldFacts DEF QInv, Mail, Uploads, Request
    <3>4. Uploads'
      BY <1>1, <3>2, <3>3 DEF Uploads, Kept, workers
    <3> QED  BY <3>1, <3>4
  <2> QED  BY <2>1, <2>2
<1> QED  BY <1>2, <1>3, <1>4 DEF QInv, QueueTypeOK

-----------------------------------------------------------------------------
(* Every step of the queue. *)

(* The invariant holds at the start. *)
LEMMA QueueStart == ASSUME QueueInit PROVE QInv
<1>1. \A j \in Job : job[j] = NoJob
  BY DEF QueueInit
<1>2. NoJob \in JobRow
  BY DEF NoJob, JobRow
<1>3. QueueTypeOK
  <2>1. left \in Budget
    BY BudgetAssumption DEF QueueInit
  <2>2. DiscoveryTypeOK
    BY DEF QueueInit, DiscoveryTypeOK, Unread
  <2>3. JobTypeOK
    BY <1>2 DEF QueueInit, JobTypeOK
  <2>4. WorkerTypeOK
    BY DEF QueueInit, WorkerTypeOK, Idle
  <2> QED  BY <2>1, <2>2, <2>3, <2>4 DEF QueueTypeOK
<1>4. Rows
  <2>1. {j \in Job : job[j].order # 0} = {}
    BY <1>1 DEF NoJob
  <2> QED  BY <2>1, FS_EmptySet DEF Rows
<1>5. JobsLeased
  BY <1>1 DEF JobsLeased, Busied, Held, NoJob, QueueInit
<1>6. WorkersLeased
  BY DEF WorkersLeased, QueueInit, Idle
<1>7. Kepts
  BY DEF Kepts, QueueInit, Idle
<1>8. Mail
  BY DEF Mail, QueueInit, Idle
<1>9. Uploads
  BY DEF Uploads, QueueInit, Idle
<1>10. Archives
  BY <1>1 DEF Archives, NoJob
<1>11. Observed
  BY DEF Observed, QueueInit, Unread
<1> QED  BY <1>3, <1>4, <1>5, <1>6, <1>7, <1>8, <1>9, <1>10, <1>11 DEF QInv

(* Every step of the queue keeps it. *)
LEMMA QueueKeeps == ASSUME QInv, [QueueNext]_queueVars PROVE QInv'
<1>1. ASSUME NEW s \in Source, Push(s) PROVE QInv'
  BY <1>1, PushKeeps
<1>2. ASSUME NEW d \in Discoverer, Discover(d) PROVE QInv'
  BY <1>2, ReadKeeps, ListKeeps, DecideKeeps, ReadListedKeeps, UpdateKeeps, GiveUpKeeps
     DEF Discover
<1>3. ASSUME NEW j \in Job, Expire(j) \/ Retry(j) \/ ClaimLost(j) PROVE QInv'
  BY <1>3, ExpireKeeps, RetryKeeps, ClaimLostKeeps
<1>4. ASSUME NEW w \in Worker, NEW j \in Job, Claim(w, j) PROVE QInv'
  BY <1>4, ClaimKeeps
<1>5. ASSUME NEW w \in Worker, Work(w) PROVE QInv'
  BY <1>5, BuildKeeps, AbandonKeeps, UploadKeeps, EndKeeps DEF Work, Finish
<1>6. ASSUME NEW w \in Worker, Fail(w) PROVE QInv'
  BY <1>6, BuildFailsKeeps, CrashKeeps, TimeOutKeeps DEF Fail
<1>7. ASSUME NEW w \in Worker, Cleanup(w) PROVE QInv'
  BY <1>7, CleanupKeeps
<1>8. ASSUME NEW m \in late, ServeLate(m) PROVE QInv'
  BY <1>8, ServeLateKeeps
<1>9. CASE UNCHANGED queueVars
  <2>1. \A j \in Job : (Busied(j)' <=> Busied(j))
    BY <1>9 DEF Busied, queueVars
  <2>2. DiscoveryTypeOK' /\ Observed' /\ left' \in Budget
    BY <1>9, HeldFacts DEF QInv, QueueTypeOK, DiscoveryTypeOK, Observed, queueVars
  <2> QED  BY <1>9, <2>1, <2>2, DiscoveryOnly DEF queueVars, workers
<1> QED  BY <1>1, <1>2, <1>3, <1>4, <1>5, <1>6, <1>7, <1>8, <1>9 DEF QueueNext

(* The invariant of the queue holds in every reachable state. *)
THEOREM QueueInvariant == QueueSpec => []QInv
<1>1. QueueInit => QInv
  BY QueueStart
<1>2. QInv /\ [QueueNext]_queueVars => QInv'
  BY QueueKeeps
<1> QED  BY <1>1, <1>2, PTL DEF QueueSpec

(* The invariant implies that one job is built at a time. *)
LEMMA QInvOneBuilder == QInv => OneBuilder
<1> SUFFICES ASSUME QInv PROVE OneBuilder
  OBVIOUS
<1> DEFINE busied == {j \in Job : job[j].state \in Held /\ job[j].live}
<1>1. Cardinality(busied) <= 1
  <2>1. CASE busied = {}
    BY <2>1, FS_EmptySet
  <2>2. CASE busied # {}
    <3>1. PICK j : j \in busied
      BY <2>2
    <3>2. busied = {j}
      BY <3>1 DEF QInv, JobsLeased, Busied
    <3>3. Cardinality({j}) = 1
      BY FS_Singleton
    <3> HIDE DEF busied
    <3> QED  BY <3>2, <3>3
  <2> QED  BY <2>1, <2>2
<1> QED  BY <1>1 DEF QInv, WorkersLeased, OneBuilder

(* What a step of the queue does to the jobs. *)
StepOf(m) ==
  /\ m \in Request /\ job' = Applied(m)
  /\ \/ m \in late \ late'
     \/ \E w \in Worker : worker[w].step = m.kind /\ m = RequestOf(w, m.kind)

(* The steps of the queue by what they change: nothing, the target of a    *)
(* source, the row of one job, or what a request asks for. *)
Kinds ==
  \/ UNCHANGED <<source, job>>
  \/ \E d \in Discoverer : Update(d)
  \/ UNCHANGED source /\ \E j \in Job : job' = [job EXCEPT ![j] = job'[j]]
       /\ job[j].state \in {"queued", "failed"} \cup Held
       /\ job'[j].state \in {"queued"} \cup Held
       /\ job'[j].order = job[j].order
  \/ UNCHANGED source /\ \E m \in Request : StepOf(m)

(* There are no other steps. *)
LEMMA StepKinds == ASSUME QInv, [QueueNext]_queueVars PROVE Kinds
<1>1. ASSUME NEW s \in Source, Push(s) PROVE Kinds
  BY <1>1 DEF Kinds, Push
<1>2. ASSUME NEW d \in Discoverer, Discover(d) PROVE Kinds
  BY <1>2 DEF Kinds, Discover, Read, List, Decide, ReadListed, GiveUp, Look
<1>3. ASSUME NEW j \in Job, Expire(j) PROVE Kinds
  <2>1. job' = [job EXCEPT ![j] = [job[j] EXCEPT !.live = FALSE]] /\ job[j].state \in Held
        /\ job[j] \in JobRow
    BY <1>3, HeldFacts DEF Kinds, Expire
  <2>2. job'[j] = [job[j] EXCEPT !.live = FALSE] /\ job'[j].state = job[j].state
        /\ job'[j].order = job[j].order
    BY <2>1 DEF QInv, QueueTypeOK, JobTypeOK, JobRow
  <2> QED  BY <1>3, <2>1, <2>2 DEF Kinds, Expire, discovery
<1>4. ASSUME NEW j \in Job, Retry(j) PROVE Kinds
  <2>1. /\ job' = [job EXCEPT ![j] = [job[j] EXCEPT !.state = "queued", !.lease = 0,
                                                    !.live = FALSE]]
        /\ job[j].state = "failed" /\ job[j] \in JobRow
    BY <1>4, HeldFacts DEF Kinds, Retry
  <2>2. /\ job'[j] = [job[j] EXCEPT !.state = "queued", !.lease = 0, !.live = FALSE]
        /\ job'[j].state = "queued" /\ job'[j].order = job[j].order
    BY <2>1 DEF QInv, QueueTypeOK, JobTypeOK, JobRow
  <2> QED  BY <1>4, <2>1, <2>2 DEF Kinds, Retry, discovery
<1>5. ASSUME NEW j \in Job, Claimable(j), job' = [job EXCEPT ![j] = Claimed(job[j])],
             UNCHANGED source
      PROVE Kinds
  <2>1. job'[j] = Claimed(job[j]) /\ job[j] \in JobRow
    BY <1>5, HeldFacts DEF Kinds, QInv, QueueTypeOK, JobTypeOK
  <2>2. job'[j].state \in Held /\ job'[j].order = job[j].order
    BY <2>1 DEF Claimed, JobRow, Held
  <2> QED  BY <1>5, <2>1, <2>2 DEF Kinds, Claimable
<1>6. ASSUME NEW j \in Job, ClaimLost(j) PROVE Kinds
  BY <1>5, <1>6 DEF ClaimLost, discovery
<1>7. ASSUME NEW w \in Worker, NEW j \in Job, Claim(w, j) PROVE Kinds
  BY <1>5, <1>7 DEF Claim, discovery
<1>8. ASSUME NEW w \in Worker, NEW kind \in {"upload", "complete", "report", "defer"},
             worker[w].step = kind, job' = Applied(RequestOf(w, kind)), UNCHANGED source
      PROVE Kinds
  <2>1. worker[w].job \in Job /\ worker[w].lease \in Nat /\ Kept(w) \in Nat
    BY <1>8, HeldFacts DEF Kinds, Kept
  <2>2. RequestOf(w, kind) \in Request /\ RequestOf(w, kind).kind = kind
    BY <2>1 DEF Kinds, RequestOf, Request
  <2> QED  BY <1>8, <2>2 DEF Kinds, StepOf
<1>9. ASSUME NEW w \in Worker, Work(w) PROVE Kinds
  <2>1. CASE Build(w) \/ Abandon(w)
    BY <2>1 DEF Kinds, Build, Abandon, discovery
  <2>2. CASE Upload(w)
    BY <1>8, <2>2 DEF Upload, discovery
  <2>3. CASE Finish(w)
    <3>1. PICK kind \in {"complete", "report", "defer"} : End(w, kind)
      BY <2>3 DEF Kinds, Finish
    <3> QED  BY <1>8, <3>1 DEF End, discovery
  <2> QED  BY <1>9, <2>1, <2>2, <2>3 DEF Kinds, Work
<1>10. ASSUME NEW w \in Worker, Fail(w) \/ Cleanup(w) PROVE Kinds
  BY <1>10 DEF Kinds, Fail, BuildFails, Crash, TimeOut, Cleanup, discovery
<1>11. ASSUME NEW m \in late, ServeLate(m) PROVE Kinds
  BY <1>11, HeldFacts DEF Kinds, ServeLate, StepOf, discovery
<1>12. CASE UNCHANGED queueVars
  BY <1>12 DEF Kinds, queueVars
<1>13. ASSUME NEW j \in Job, Expire(j) \/ Retry(j) \/ ClaimLost(j) PROVE Kinds
  BY <1>3, <1>4, <1>6, <1>13
<1>14. ASSUME NEW w \in Worker, Work(w) \/ Fail(w) \/ Cleanup(w) PROVE Kinds
  BY <1>9, <1>10, <1>14
<1> QED  BY <1>1, <1>2, <1>7, <1>11, <1>12, <1>13, <1>14 DEF QueueNext

(* The action properties of the queue, as actions. *)
InOrder == \A s \in Source : source'[s] # source[s] /\ source'[s].enabled
                               => source'[s].at >= source[s].at
OwnUpload ==
  \A j \in Job : job[j].state # "publishing" /\ job'[j].state = "publishing"
    => \/ \E w \in Worker : /\ worker[w].job = j /\ worker[w].step = "complete"
                            /\ disk[w][j] = job'[j].package
       \/ \E m \in late \ late' : /\ m.job = j /\ m.kind = "complete"
                                 /\ m.build = job'[j].package
StaysReplaced ==
  \A j \in Job : job[j].state = "superseded" /\ job'[j].state # "superseded"
    => source'[j[1]].generation > source[j[1]].generation

(* The transaction of a new target has none of the forbidden effects. *)
LEMMA Updating ==
  ASSUME QInv, NEW d \in Discoverer, Update(d)
  PROVE  InOrder /\ OwnUpload /\ StaysReplaced
<1> DEFINE r == discoverer[d]  s == r.source
<1>1. r.step = "decided" /\ s \in Source
  BY ReadingFacts DEF Update
<1>2. CASE r.expected # source[s].generation
  BY <1>2 DEF Update, InOrder, OwnUpload, StaysReplaced
<1>3. CASE r.expected = source[s].generation
  <2>1. Retarget(s, r.target, r.at)
    BY <1>3 DEF Update
  <2>2. /\ source'[s] = [commit |-> r.target, enabled |-> r.target # None,
                         generation |-> source[s].generation + 1, at |-> r.at]
        /\ \A q \in Source : q # s => source'[q] = source[q]
    BY <1>1, <2>1 DEF Retarget, QInv, QueueTypeOK, DiscoveryTypeOK
  <2>3. /\ source[s].generation \in Nat /\ source'[s].generation > source[s].generation
        /\ source'[s].at = r.at
    BY <1>1, <2>2, SourceFacts
  <2>4. r.target # None => r.at >= source[s].at
    BY <1>1, <1>3 DEF QInv, Observed
  <2>5. InOrder
    <3>1. source'[s].enabled = (r.target # None)
      BY <2>2
    <3> QED  BY <2>2, <2>3, <2>4, <3>1 DEF InOrder
  <2>6. \A j \in Job :
          job'[j] = IF j[1] # s THEN job[j]
                    ELSE IF j[2] = r.target THEN Requeued(job[j]) ELSE Superseded(job[j])
    BY <2>1 DEF Retarget
  <2>7. StaysReplaced
    <3> SUFFICES ASSUME NEW j \in Job, job'[j] # job[j]
                 PROVE  source'[j[1]].generation > source[j[1]].generation
      BY DEF StaysReplaced
    <3>1. j[1] = s
      BY <2>6
    <3> QED  BY <2>3, <3>1
  <2>8. OwnUpload
    <3> SUFFICES ASSUME NEW j \in Job, job[j].state # "publishing"
                 PROVE  job'[j].state # "publishing"
      BY DEF OwnUpload
    <3> QED  BY <2>6, RequeuedFacts, SupersededFacts
  <2> QED  BY <2>5, <2>7, <2>8
<1> QED  BY <1>2, <1>3

(* Nor has any other step of the queue. *)
LEMMA QueueSteps ==
  ASSUME QInv, [QueueNext]_queueVars
  PROVE  InOrder /\ OwnUpload /\ StaysReplaced
<1>1. CASE UNCHANGED <<source, job>>
  BY <1>1 DEF InOrder, OwnUpload, StaysReplaced
<1>2. CASE \E d \in Discoverer : Update(d)
  BY <1>2, Updating
<1>3. ASSUME UNCHANGED source, NEW j \in Job, job' = [job EXCEPT ![j] = job'[j]],
             job[j].state \in {"queued", "failed"} \cup Held,
             job'[j].state \in {"queued"} \cup Held
      PROVE InOrder /\ OwnUpload /\ StaysReplaced
  <2>1. \A k \in Job : k # j => job'[k] = job[k]
    BY <1>3 DEF QInv, QueueTypeOK, JobTypeOK
  <2>2. job[j].state # "superseded" /\ job'[j].state # "publishing"
    BY <1>3 DEF Held
  <2> QED  BY <1>3, <2>1, <2>2 DEF InOrder, OwnUpload, StaysReplaced
<1>4. ASSUME UNCHANGED source, NEW m \in Request, StepOf(m)
      PROVE InOrder /\ OwnUpload /\ StaysReplaced
  <2>1. /\ m.job \in Job /\ \A j \in Job : j # m.job => job'[j] = job[j]
        /\ job'[m.job] # job[m.job] => job[m.job].state \in Held
    BY <1>4, AppliedFacts DEF StepOf, Request
  <2>2. StaysReplaced
    BY <2>1 DEF StaysReplaced, Held
  <2>3. OwnUpload
    <3> SUFFICES ASSUME job[m.job].state # "publishing", job'[m.job].state = "publishing"
                 PROVE  \/ \E w \in Worker : /\ worker[w].job = m.job
                                             /\ worker[w].step = "complete"
                                             /\ disk[w][m.job] = job'[m.job].package
                        \/ \E x \in late \ late' : /\ x.job = m.job /\ x.kind = "complete"
                                                   /\ x.build = job'[m.job].package
      BY <2>1 DEF OwnUpload
    <3>1. /\ m.kind = "complete" /\ job[m.job].lease = m.lease
          /\ job'[m.job].package = job[m.job].package
      BY <1>4, AppliedFacts DEF StepOf
    <3>2. CASE m \in late \ late'
      BY <3>1, <3>2 DEF QInv, Uploads
    <3>3. ASSUME NEW w \in Worker, worker[w].step = m.kind, m = RequestOf(w, m.kind)
          PROVE  /\ worker[w].job = m.job /\ worker[w].step = "complete"
                 /\ disk[w][m.job] = job'[m.job].package
      <4>1. m.job = worker[w].job /\ m.lease = worker[w].lease
        BY <3>3 DEF RequestOf
      <4> QED  BY <3>1, <3>3, <4>1 DEF QInv, Uploads, Kept
    <3> QED  BY <1>4, <3>2, <3>3 DEF StepOf
  <2> QED  BY <1>4, <2>2, <2>3 DEF InOrder
<1> QED  BY <1>1, <1>2, <1>3, <1>4, StepKinds DEF Kinds

(* The queue is type-correct for every value of the constants. *)
THEOREM QueueTypeCorrect == QueueSpec => []QueueTypeOK
<1>1. QInv => QueueTypeOK
  BY DEF QInv
<1> QED  BY <1>1, QueueInvariant, PTL

(* At most one job is built at a time and no two workers share a lease,    *)
(* however often a lease runs out while its worker goes on (postgres.rs    *)
(* claim). *)
THEOREM QueueOneBuilder == QueueSpec => []OneBuilder
  BY QInvOneBuilder, QueueInvariant, PTL

(* An answer that is older than the target never replaces it, whichever of *)
(* the discoverers gets it (discovery.rs inspect, the generation of        *)
(* update_delivery). *)
THEOREM QueueInOrder == QueueSpec => ObservationsInOrder
<1>1. QInv /\ [QueueNext]_queueVars => [InOrder]_queueVars
  BY QueueSteps
<1> QED  BY <1>1, QueueInvariant, PTL DEF QueueSpec, ObservationsInOrder, InOrder

(* What a complete request offers for publication is what was uploaded     *)
(* under its lease, also if the request is served long after it was sent   *)
(* (postgres.rs complete). *)
THEOREM QueueOwnUpload == QueueSpec => CompletesOwnUpload
<1>1. QInv /\ [QueueNext]_queueVars => [OwnUpload]_queueVars
  BY QueueSteps
<1> QED  BY <1>1, QueueInvariant, PTL DEF QueueSpec, CompletesOwnUpload, OwnUpload

(* A job that a newer target has replaced comes back only with another     *)
(* target: no late request of its old worker revives it (lock_lease). *)
THEOREM QueueStaysReplaced == QueueSpec => ReplacedStaysReplaced
<1>1. QInv /\ [QueueNext]_queueVars => [StaysReplaced]_queueVars
  BY QueueSteps
<1> QED  BY <1>1, QueueInvariant, PTL DEF QueueSpec, ReplacedStaysReplaced, StaysReplaced

-----------------------------------------------------------------------------
(* What a step of the queue leaves alone, for those who publish. *)

(* A job without a row is superseded. *)
Registered == \A j \in Job : job[j].state # "superseded" => job[j].order # 0

(* Jobs that are published or active are left alone by the queue. *)
SettledHold ==
  \A j \in Job :
    /\ job[j].state = "active" \/ job'[j].state = "active" => job'[j] = job[j]
    /\ job[j].state = "publishing" /\ job'[j].state = "publishing" => job'[j] = job[j]
HandsOver(j) == job[j].state # "publishing" /\ job'[j].state = "publishing"
OneHandedOver == \A i, j \in Job : HandsOver(i) /\ HandsOver(j) => i = j

(* A step of the queue leaves alone what is being published or active, and *)
(* hands over one job at a time. *)
LEMMA QueueJobs ==
  ASSUME QInv, Registered, [QueueNext]_queueVars
  PROVE  Registered' /\ SettledHold /\ OneHandedOver
<1>1. CASE UNCHANGED <<source, job>>
  BY <1>1 DEF Registered, SettledHold, HandsOver, OneHandedOver
<1>2. ASSUME NEW d \in Discoverer, Update(d) PROVE Registered' /\ SettledHold /\ OneHandedOver
  <2> DEFINE r == discoverer[d]  s == r.source
  <2>1. CASE r.expected # source[s].generation
    BY <1>2, <2>1 DEF Update, Registered, SettledHold, HandsOver, OneHandedOver
  <2>2. CASE r.expected = source[s].generation
    <3>1. \A j \in Job :
          job'[j] = IF j[1] # s THEN job[j]
                    ELSE IF j[2] = r.target THEN Requeued(job[j]) ELSE Superseded(job[j])
      BY <1>2, <2>2 DEF Update, Retarget
    <3>2. ASSUME NEW j \in Job
          PROVE  /\ job'[j].state # "superseded" => job'[j].order # 0
                 /\ job'[j] = job[j] \/ job'[j].state \in {"queued", "superseded"}
                 /\ job[j].state = "active" => job'[j] = job[j]
      <4>1. CASE job'[j] = job[j]
        BY <4>1 DEF Registered
      <4>2. CASE job'[j] = Requeued(job[j])
        BY <4>2, RequeuedFacts DEF Registered
      <4>3. CASE job'[j] = Superseded(job[j])
        BY <4>3, SupersededFacts DEF Registered, Unfinished
      <4> QED  BY <3>1, <4>1, <4>2, <4>3
    <3> QED  BY <3>2 DEF Registered, SettledHold, HandsOver, OneHandedOver
  <2> QED  BY <2>1, <2>2
<1>3. ASSUME NEW j \in Job, job' = [job EXCEPT ![j] = job'[j]],
             job[j].state \in {"queued", "failed"} \cup Held,
             job'[j].state \in {"queued"} \cup Held, job'[j].order = job[j].order
      PROVE Registered' /\ SettledHold /\ OneHandedOver
  <2>1. \A k \in Job : k # j => job'[k] = job[k]
    BY <1>3 DEF QInv, QueueTypeOK, JobTypeOK
  <2> QED  BY <1>3, <2>1 DEF Registered, Held, SettledHold, HandsOver, OneHandedOver
<1>4. ASSUME NEW m \in Request, StepOf(m) PROVE Registered' /\ SettledHold /\ OneHandedOver
  <2>1. /\ m.job \in Job /\ \A j \in Job : j # m.job => job'[j] = job[j]
        /\ job'[m.job] # job[m.job] => job[m.job].state \in Held
        /\ job'[m.job].order = job[m.job].order
    BY <1>4, AppliedFacts DEF StepOf, Request
  <2>2. job'[m.job].state # "active" \/ job'[m.job] = job[m.job]
    BY <1>4, AppliedFacts DEF StepOf
  <2> QED  BY <2>1, <2>2 DEF Registered, Held, SettledHold, HandsOver, OneHandedOver
<1>5. Kinds
  BY StepKinds
<1> QED  BY <1>1, <1>2, <1>3, <1>4, <1>5 DEF Kinds

===============================================================================
