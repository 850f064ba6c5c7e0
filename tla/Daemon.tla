------------------------------- MODULE Daemon -------------------------------
(***************************************************************************)
(* `paur serve`: the HTTP handlers, the worker and the poller on one       *)
(* database, with a crash at any point, a `paur cleanup work` beside it,   *)
(* and an AUR that moves on by itself.                                     *)
(***************************************************************************)
EXTENDS Api, Worker, Poller, Cleanup

Init ==
    /\ packages = InitPackages
    /\ builds = [b \in BuildIds |-> NoBuild]
    /\ next_build = 1
    /\ repo = [x \in Names \X Variant |-> 0]
    /\ work_dirs = {}
    /\ upstream = [n \in Names |-> 1]
    /\ restarts = 0
    /\ cpc = [c \in Cleaners |-> "idle"] /\ keep = [c \in Cleaners |-> {}]
    (* AppState::new, and tasks that have done nothing yet *)
    /\ boot = "reap"
    /\ wake_lock = {} /\ api_q = <<>> /\ fwd = 0 /\ scan = {} /\ work_q = <<>>
    /\ woken = {}
    /\ cancel_tokens = {} /\ fired = {} /\ log_channels = {}
    /\ hpc = [h \in Handlers |-> "idle"] /\ req = [h \in Handlers |-> NoReq]
    /\ wpc = "idle" /\ job = NoJob
    /\ ppc = "idle" /\ poll = NoPoll

\* The process dies (systemd: Restart=on-failure) and a new one starts.
Crash ==
    /\ restarts < MaxRestarts
    /\ restarts' = restarts + 1
    /\ boot' = "reap"
    /\ wake_lock' = {} /\ api_q' = <<>> /\ fwd' = 0 /\ scan' = {} /\ work_q' = <<>>
    /\ woken' = {}
    /\ cancel_tokens' = {} /\ fired' = {} /\ log_channels' = {}
    /\ hpc' = [h \in Handlers |-> "idle"] /\ req' = [h \in Handlers |-> NoReq]
    /\ wpc' = "idle" /\ job' = NoJob
    /\ ppc' = "idle" /\ poll' = NoPoll
    /\ UNCHANGED <<db_vars, disk_vars, upstream, clean_vars>>

\* A maintainer pushes to the AUR repository.
Push(n) ==
    /\ upstream[n] < MaxRef
    /\ upstream' = [upstream EXCEPT ![n] = @ + 1]
    /\ UNCHANGED <<db_vars, disk_vars, restarts, wake_vars, token_vars, log_channels,
                   api_vars, work_vars, poll_vars, clean_vars>>

Next ==
    \/ \E h \in Handlers : Start(h) \/ Continue(h) \/ drop_handler(h)
    \/ Boot
    \/ Feed
    \/ Process
    \/ PollOnce
    \/ \E c \in Cleaners : CleanupWork(c)
    \/ Crash
    \/ \E n \in Names : Push(n)

Spec == Init /\ [][Next]_vars

(***************************************************************************)
(* Fairness.  Every task of the daemon is a tokio task on a multi-threaded *)
(* runtime: one that can take a step eventually does.  A handler keeps     *)
(* running once its request is in; clients owe us no request, AUR no push, *)
(* nobody a crash.  A killed container exits.  That a container exits by   *)
(* itself is an assumption about the packages (the code has no timeout),   *)
(* so it is kept apart.                                                    *)
(***************************************************************************)
killed_container_exits == job.build \in fired /\ run_in_container_exit

WorkerStep ==
    \/ run_worker_recv
    \/ process_one_claim
    \/ process_one_lookup
    \/ process_one_register
    \/ run_in_container_spawn
    \/ killed_container_exits
    \/ process_one_drop_token
    \/ process_one_finish
    \/ process_one_publish
    \/ process_one_record
    \/ process_one_head
    \/ process_one_set_ref
    \/ process_one_cleanup

TaskFairness ==
    /\ WF_vars(Boot)
    /\ WF_vars(run_scan_send) /\ WF_vars(forward_recv) /\ WF_vars(forward_send)
    /\ WF_vars(WorkerStep)
    /\ WF_vars(PollOnce)
    /\ \A h \in Handlers : WF_vars(Continue(h))

ContainersExit == WF_vars(run_in_container_exit)

HangSpec == Spec /\ TaskFairness
FairSpec == HangSpec /\ ContainersExit

-----------------------------------------------------------------------------
(* Properties *)

TypeDb ==
    /\ packages \in [Names -> PackageRow]
    /\ builds \in [BuildIds -> BuildRow]
    /\ next_build \in 1..(MaxBuilds + 1)
TypeDisk ==
    /\ repo \in [Names \X Variant -> 0..MaxBuilds]
    /\ work_dirs \subseteq BuildIds
TypeEnv ==
    /\ upstream \in [Names -> 1..MaxRef]
    /\ restarts \in 0..MaxRestarts
TypeWake ==
    /\ boot \in {"reap", "install", "scan", "up"}
    /\ wake_lock \subseteq Handlers
    /\ api_q \in Seq(BuildIds) /\ work_q \in Seq(BuildIds)
    /\ fwd \in 0..MaxBuilds
    /\ scan \subseteq BuildIds /\ woken \subseteq BuildIds
TypeMaps ==
    /\ cancel_tokens \subseteq BuildIds /\ fired \subseteq BuildIds
    /\ log_channels \subseteq BuildIds
TypeTasks ==
    /\ hpc \in [Handlers -> HandlerPc] /\ req \in [Handlers -> Req]
    /\ wpc \in WorkerPc /\ job \in Job
    /\ ppc \in PollerPc /\ poll \in Poll
    /\ cpc \in [Cleaners -> CleanerPc] /\ keep \in [Cleaners -> SUBSET BuildIds]

\* Every variable stays within its type: the rows, queues, maps and program
\* counters of all tasks.
TypeOK == TypeDb /\ TypeDisk /\ TypeEnv /\ TypeWake /\ TypeMaps /\ TypeTasks

\* The build process_one has claimed and not yet returned from, or 0.
Holder == IF wpc \in {"idle", "claim"} THEN 0 ELSE job.build

Lifecycle == INSTANCE BuildLifecycle
    WITH Builds <- BuildIds, None <- 0,
         status <- [b \in BuildIds |-> builds[b].status], holder <- Holder

\* Whatever the handlers, the poller, a crash or a second process do in
\* between, the rows only move as BuildLifecycle allows: claimed once, settled
\* by the worker that holds them, reaped only when nobody holds them.
ImplementsLifecycle == Lifecycle!Spec

\* Where an id that was promised a delivery can be.
InFlight(b) ==
    \/ \E h \in Handlers : hpc[h] = "wake_send" /\ req[h].first = b
    \/ InSeq(b, api_q)
    \/ fwd = b
    \/ b \in scan
    \/ InSeq(b, work_q)
    \/ wpc = "claim" /\ job.build = b

\* send_wake may drop an id while the worker is not up, and both the API and
\* the scanner may deliver it: no order of the two loses it.  A build that was
\* woken for and is still queued is on its way to the worker, or the scanner
\* has yet to run.
NoWakeLost ==
    \A b \in woken : builds[b].status = "queued" => boot # "up" \/ InFlight(b)

\* After the reaping, a row says "running" only while the worker is on it.
RunningIsHeld ==
    boot # "reap" => \A b \in BuildIds : builds[b].status = "running" => Holder = b

\* What the repository serves was recorded as a success, and no later cancel,
\* reap or restart changed that (the row may have been deleted since).
PublishedSucceeded ==
    \A x \in Names \X Variant :
        repo[x] # 0 => builds[repo[x]].status \in {"success", "deleted"}

\* process_one gives back everything it registered: when the container runtime
\* answers and no statement fails, an idle worker leaves no cancellation token
\* and no log channel behind, whichever way the build resolved and whoever
\* cancelled it.  (A `?` on run_in_container or on a statement returns early
\* and does leave them.)
NothingLeftBehind == wpc = "idle" => cancel_tokens = {} /\ log_channels = {}

\* The poller does not pile up: however slow an iteration and whatever the API
\* does meanwhile, a package has at most one live build the poller asked for.
OnePollBuild ==
    \A a, b \in BuildIds :
        /\ builds[a].status \in Live /\ builds[b].status \in Live
        /\ builds[a].trigger = "poll" /\ builds[b].trigger = "poll"
        /\ builds[a].pid = builds[b].pid
        => a = b

-----------------------------------------------------------------------------
(* The inductive invariant behind the safety properties *)

\* The steps of process_one between the claim and the end of finish_build, and
\* those after it on the success path.
BeforeFinish == {"lookup", "register", "spawn", "building", "drop_token", "finish"}
AfterSuccess == {"publish", "record", "head", "set_ref"}

\* The locals a suspended handler will use are there.
HandlerLocals ==
    \A h \in Handlers :
        /\ hpc[h] \in {"wake", "wake_send"} => req[h].first \in BuildIds
        /\ hpc[h] = "cancel_token" => req[h].build \in BuildIds
        /\ hpc[h] \notin {"idle", "cancel_token"} => req[h].name \in Names
        /\ hpc[h] \in {"add_variants", "variants_set"} => ParseOK(req[h])

PollerLocals == ppc = "enqueue" => poll.at \in Names

WorkerLocals ==
    /\ wpc # "idle" => WakeInstalled /\ job.build \in BuildIds
    /\ wpc \notin {"idle", "claim", "lookup"} => job.name \in Names
    /\ wpc \in {"drop_token", "finish"} => job.outcome \in Terminal

\* The row of the build the worker is on: until finish_build it is running,
\* unless it was cancelled or deleted under the worker; after a success only a
\* deletion changes it.
HeldRow ==
    /\ wpc \in BeforeFinish =>
          /\ builds[job.build].status \in {"running", "cancelled", "deleted"}
          /\ builds[job.build].status # "deleted" => builds[job.build].pid = job.pid
    /\ wpc \in AfterSuccess => builds[job.build].status \in {"success", "deleted"}

\* AUTOINCREMENT: ids from next_build on have never been used.
FreshIds == \A b \in BuildIds : b >= next_build => builds[b] = NoBuild

\* REFERENCES packages(id) ON DELETE CASCADE: a row's package exists.
ForeignKeys ==
    \A b \in BuildIds : builds[b].status \notin {"absent", "deleted"} =>
                           ForeignKeyOK(packages, builds[b].pid)

\* No step of any task, and no crash, takes the daemon out of this: suspended
\* tasks have the locals they will use, the row the worker is on is in the
\* state its program counter implies, and the tables keep their constraints.
IInv ==
    /\ TypeOK
    /\ HandlerLocals
    /\ PollerLocals
    /\ WorkerLocals
    /\ HeldRow
    /\ FreshIds
    /\ ForeignKeys
    /\ PublishedSucceeded

-----------------------------------------------------------------------------
(* Liveness *)

\* Every id that was woken for, or that a boot found queued, leaves the queue,
\* also when the daemon dies in between.
WokenIsClaimed ==
    \A b \in BuildIds :
        (b \in woken /\ builds[b].status = "queued") ~> (builds[b].status # "queued")

\* The same, of a daemon whose containers all end by themselves: one that never
\* ends keeps the only worker and everything behind it.
WokenWhenExit == ContainersExit => WokenIsClaimed

\* A cancel that finds the token registered while the container runs gets the
\* worker off that build, even if the container never ends by itself.
CancelKills ==
    \A b \in BuildIds :
        (/\ wpc = "building" /\ job.build = b /\ b \in cancel_tokens
         /\ \E h \in Handlers : hpc[h] = "cancel_token" /\ req[h].build = b)
        ~> (Holder # b)

\* Every build that is queued is eventually taken from the queue (api.rs: "the
\* package is built for each enabled variant before any other queued work").
EveryBuildRuns ==
    \A b \in BuildIds :
        (builds[b].status = "queued") ~> (builds[b].status # "queued")

-----------------------------------------------------------------------------
(* Statements of the code's comments that the runs refute *)

\* A cancelled build stays cancelled (api.rs, cancel_build: "even if the worker
\* is mid-claim and didn't insert its token yet, the row is already `cancelled`
\* and the next claim attempt will skip it").
CancelledStays ==
    [][\A b \in BuildIds : builds[b].status = "cancelled"
                             => builds'[b].status \in {"cancelled", "deleted"}]_vars

\* A build that is cancelled gets off the worker (queries.rs, cancel_build: the
\* worker is signalled "so it can kill the container").
CancelledIsReleased ==
    \A b \in BuildIds :
        (builds[b].status = "cancelled" /\ Holder = b) ~> (Holder # b)

\* A package that is not registered is in no repository (api.rs,
\* delete_package: "so the next `pacman -Sy` won't see the package").
DeletedIsUnlisted ==
    \A n \in Names : packages[n].id = 0 => \A v \in Variant : repo[<<n, v>>] = 0

\* The ref the worker records is the one its container built (worker.rs: "the
\* recorded value is the one that produced this build").
RecordedRefWasBuilt ==
    [][process_one_set_ref => job.head = job.cloned]_vars

\* `paur cleanup work` leaves the directory of a running container alone
\* (main.rs: "Skips any build that is currently `running` so a live container
\* is not disrupted").
LiveDirKept == wpc = "building" => job.build \in work_dirs
=============================================================================
