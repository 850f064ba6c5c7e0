-------------------------- MODULE DaemonRefinement --------------------------
(***************************************************************************)
(* Daemon implements BuildLifecycle: under the mapping of Daemon's         *)
(* Lifecycle instance, every step of the daemon is a step of the lifecycle *)
(* or leaves the statuses and the holder alone.                            *)
(***************************************************************************)
EXTENDS DaemonProofs

(* A step of the lifecycle under the refinement mapping.                    *)
LStep == [Lifecycle!Next]_(Lifecycle!lvars)

(* A step that leaves the table alone and at most takes the worker off its  *)
(* build is a Release or no step at all.                                    *)
LEMMA Quiet ==
    ASSUME UNCHANGED builds, Holder' = Holder \/ Holder' = 0
    PROVE  LStep
  BY DEF LStep, Lifecycle!Next, Lifecycle!lvars, Lifecycle!Release

(* ... which covers every step that does not touch builds or the worker.    *)
LEMMA Elsewhere ==
    ASSUME UNCHANGED <<builds, work_vars>>
    PROVE  LStep
  BY Quiet DEF Holder, work_vars

(* The insert of a build is Queue.                                          *)
LEMMA EnqueueIsQueue ==
    ASSUME IInv, NEW i, NEW t, NEW v, Enqueue(i, t, v), UNCHANGED work_vars
    PROVE  LStep
<1>1. /\ builds \in [BuildIds -> BuildRow] /\ next_build \in BuildIds
      /\ builds[next_build].status = "absent"
  BY DEF IInv, TypeOK, TypeDb, FreshIds, NoBuild, Enqueue, CanEnqueue, BuildIds
<1>2. PICK b \in BuildIds : b = next_build
  BY <1>1
<1>3. \A c \in BuildIds : builds'[c].status = IF c = b THEN "queued" ELSE builds[c].status
  BY <1>1, <1>2 DEF Enqueue, enqueue_build
<1>4. Lifecycle!Queue(b)
  <2>1. Holder' = Holder
    BY DEF Holder, work_vars
  <2>2. [c \in BuildIds |-> builds'[c].status]
          = [[c \in BuildIds |-> builds[c].status] EXCEPT ![b] = "queued"]
    BY <1>3
  <2> QED
    BY <1>1, <1>2, <2>1, <2>2 DEF Lifecycle!Queue
<1> QED
  BY <1>4 DEF LStep, Lifecycle!Next

(* cancel_build is Cancel.                                                  *)
LEMMA CancelIsCancel ==
    ASSUME IInv, NEW h \in Handlers, NEW r \in Requests, cancel_build_row(h, r)
    PROVE  LStep
<1>1. r.build \in BuildIds /\ builds[r.build].status \in Live /\ builds \in [BuildIds -> BuildRow]
  BY RequestsOK DEF RequestsOK, cancel_build_row, Receive, Cancellable, IInv, TypeOK, TypeDb
<1>2. \A c \in BuildIds : builds'[c].status = IF c = r.build THEN "cancelled" ELSE builds[c].status
  BY <1>1 DEF cancel_build_row, cancel_build
<1>3. Lifecycle!Cancel(r.build)
  BY <1>1, <1>2 DEF Lifecycle!Cancel, Holder, work_vars, cancel_build_row, api_rest, Live
<1> QED
  BY <1>1, <1>3 DEF LStep, Lifecycle!Next

(* The row of a package goes, and its builds with it: Delete.               *)
LEMMA DeleteIsDelete ==
    ASSUME IInv, NEW h \in Handlers, delete_package_row(h)
    PROVE  LStep
<1>1. CASE UNCHANGED builds
  BY <1>1, Elsewhere DEF delete_package_row, api_rest
<1>2. ASSUME NEW i, builds' = CascadeDelete(builds, i)
      PROVE  LStep
  <2> DEFINE S == {b \in BuildIds : builds[b].pid = i /\ builds[b].status # "absent"}
  <2>1. \A b \in BuildIds : builds'[b].status = IF b \in S THEN "deleted" ELSE builds[b].status
    BY <1>2 DEF CascadeDelete, NoBuild
  <2>2. PICK T \in SUBSET BuildIds : T = S
    OBVIOUS
  <2>3. Holder' = Holder
    BY DEF Holder, work_vars, delete_package_row, api_rest
  <2>4. Lifecycle!Delete(T)
    BY <2>1, <2>2, <2>3 DEF Lifecycle!Delete
  <2> QED
    BY <2>4 DEF LStep, Lifecycle!Next
<1> QED
  BY <1>1, <1>2 DEF delete_package_row

(* The start-up reaping is Reap: the worker does not run before it.         *)
LEMMA ReapIsReap ==
    ASSUME IInv, run_reap
    PROVE  LStep
<1>1. Holder = 0 /\ Holder' = Holder
  BY DEF IInv, WorkerLocals, WakeInstalled, run_reap, Holder, work_vars
<1>2. \A c \in BuildIds : builds'[c].status = IF builds[c].status = "running" THEN "failed"
                                                                             ELSE builds[c].status
  <2>1. builds \in [BuildIds -> BuildRow]
    BY DEF IInv, TypeOK, TypeDb
  <2> QED
    BY <2>1, ReapRows DEF run_reap
<1>3. Lifecycle!Reap
  BY <1>1, <1>2 DEF Lifecycle!Reap
<1> QED
  BY <1>3 DEF LStep, Lifecycle!Next

(* A successful claim is Claim.                                             *)
LEMMA ClaimIsClaim ==
    ASSUME IInv, process_one_claim
    PROVE  LStep
<1>1. CASE ~Claimable(builds, job.build)
  BY <1>1, Quiet DEF process_one_claim, Return, ToStep, Holder
<1>2. CASE Claimable(builds, job.build)
  <2>1. PICK b \in BuildIds : b = job.build
    BY DEF IInv, WorkerLocals, process_one_claim, AtStep
  <2>2. job \in Job /\ builds \in [BuildIds -> BuildRow]
    BY DEF IInv, TypeOK, TypeDb, TypeTasks
  <2>3. Holder = 0 /\ Holder' = b
    BY <1>2, <2>1, <2>2 DEF process_one_claim, AtStep, ToStep, Holder, Job
  <2>4. \A c \in BuildIds : builds'[c].status = IF c = b THEN "running" ELSE builds[c].status
    <3>1. builds' = claim_build_by_id(builds, b)
      BY <1>2, <2>1 DEF process_one_claim
    <3> QED
      BY <2>2, <3>1, ClaimRows
  <2>5. Lifecycle!Claim(b)
    BY <1>2, <2>1, <2>3, <2>4 DEF Lifecycle!Claim, Claimable
  <2> QED
    BY <2>5 DEF LStep, Lifecycle!Next
<1> QED
  BY <1>1, <1>2

(* finish_build is Settle, unless the row was deleted under the worker.     *)
LEMMA FinishIsSettle ==
    ASSUME IInv, process_one_finish
    PROVE  LStep
<1>1. PICK b \in BuildIds : b = job.build
  BY DEF IInv, WorkerLocals, process_one_finish, AtStep
<1>2. /\ job.outcome \in Terminal /\ builds \in [BuildIds -> BuildRow]
      /\ builds[b].status \in {"running", "cancelled", "deleted"}
  BY <1>1 DEF IInv, TypeOK, TypeDb, WorkerLocals, HeldRow, BeforeFinish, process_one_finish, AtStep
<1>3. Holder = b /\ Holder' = b
  BY <1>1 DEF process_one_finish, AtStep, ToStep, Holder
<1>4. CASE builds[b].status = "deleted"
  BY <1>1, <1>3, <1>4, Quiet DEF process_one_finish, finish_build
<1>5. CASE builds[b].status # "deleted"
  <2>1. PICK s \in Terminal : s = job.outcome
    BY <1>2
  <2>2. \A c \in BuildIds : builds'[c].status = IF c = b THEN s ELSE builds[c].status
    BY <1>1, <1>2, <1>5, <2>1 DEF process_one_finish, finish_build
  <2>3. b # 0
    BY DEF BuildIds
  <2>4. Lifecycle!Settle(s)
    BY <1>2, <1>3, <1>5, <2>2, <2>3 DEF Lifecycle!Settle
  <2> QED
    BY <2>4 DEF LStep, Lifecycle!Next, Lifecycle!Ended, Terminal
<1> QED
  BY <1>4, <1>5

(* record_pkg does not touch the status.                                    *)
LEMMA RecordIsQuiet ==
    ASSUME IInv, process_one_record
    PROVE  LStep
<1>1. job.build \in BuildIds /\ builds \in [BuildIds -> BuildRow]
  BY DEF IInv, TypeOK, TypeDb, WorkerLocals, process_one_record, AtStep
<1>2. \A c \in BuildIds : builds'[c].status = builds[c].status
  <2>1. CASE builds' = record_pkg(builds, job.build)
    <3>1. PICK b \in BuildIds : b = job.build
      BY <1>1
    <3>2. builds' = record_pkg(builds, b) /\ builds \in [BuildIds -> BuildRow]
      BY <1>1, <2>1, <3>1
    <3> QED
      BY <3>2, RecordRows
  <2>2. CASE builds' = builds
    BY <2>2
  <2> QED
    BY <2>1, <2>2 DEF process_one_record
<1>3. Holder' = Holder
  BY DEF process_one_record, AtStep, ToStep, Holder
<1>4. [c \in BuildIds |-> builds'[c].status] = [c \in BuildIds |-> builds[c].status]
  BY <1>2
<1> QED
  BY <1>3, <1>4 DEF LStep, Lifecycle!lvars

(* The other steps of process_one keep its build or let go of it.           *)
LEMMA ProcessIsQuiet ==
    ASSUME IInv,
           \/ run_worker_recv \/ process_one_claim_error \/ process_one_lookup
           \/ process_one_register \/ run_in_container_spawn \/ run_in_container_exit
           \/ run_in_container_error \/ process_one_drop_token \/ process_one_finish_error
           \/ process_one_publish \/ process_one_head \/ process_one_set_ref
           \/ process_one_cleanup
    PROVE  LStep
<1> USE DEF AtStep, ToStep, Return, Holder, db_vars
<1>0. job \in Job
  BY DEF IInv, TypeOK, TypeTasks
<1>1. CASE \/ run_worker_recv \/ process_one_claim_error \/ process_one_finish_error
           \/ process_one_cleanup \/ run_in_container_error
  BY <1>1, Quiet DEF run_worker_recv, process_one_claim_error, process_one_finish_error,
                     process_one_cleanup, run_in_container_error
<1>2. CASE process_one_lookup
  BY <1>0, <1>2, Quiet DEF process_one_lookup, Job
<1>3. CASE process_one_register \/ process_one_drop_token
  BY <1>3, Quiet DEF process_one_register, process_one_drop_token
<1>4. CASE run_in_container_spawn \/ run_in_container_exit
  BY <1>0, <1>4, Quiet DEF run_in_container_spawn, run_in_container_exit, Job
<1>5. CASE process_one_publish \/ process_one_set_ref
  BY <1>5, Quiet DEF process_one_publish, process_one_set_ref
<1>6. CASE process_one_head
  BY <1>0, <1>6, Quiet DEF process_one_head, Job
<1> QED
  BY <1>1, <1>2, <1>3, <1>4, <1>5, <1>6

LEMMA HandlerRefines ==
    ASSUME IInv, NEW h \in Handlers, Start(h) \/ Continue(h) \/ drop_handler(h)
    PROVE  LStep
<1> USE DEF api_rest, db_vars
<1>1. ASSUME NEW r \in Requests,
             \/ add_package_upsert(h, r) \/ rebuild_package(h, r) \/ set_package_auto(h, r)
             \/ set_package_variants_read(h, r) \/ delete_package_read(h, r)
      PROVE  LStep
  BY <1>1, Elsewhere DEF add_package_upsert, rebuild_package, set_package_auto,
                         set_package_variants_read, delete_package_read
<1>2. ASSUME NEW r \in Requests, cancel_build_row(h, r) PROVE LStep
  BY <1>2, CancelIsCancel
<1>3. CASE enqueue_one(h)
  BY <1>3, EnqueueIsQueue DEF enqueue_one
<1>4. CASE delete_package_row(h)
  BY <1>4, DeleteIsDelete
<1>5. CASE \/ send_wake_lock(h) \/ send_wake_send(h) \/ statement_error(h)
           \/ add_package_variants(h) \/ add_package_read(h) \/ set_package_variants_write(h)
           \/ delete_package_repo(h) \/ cancel_build_token(h) \/ drop_handler(h)
  BY <1>5, Elsewhere DEF send_wake_lock, send_wake_send, statement_error, add_package_variants,
       add_package_read, set_package_variants_write, delete_package_repo, cancel_build_token,
       drop_handler
<1> QED
  BY <1>1, <1>2, <1>3, <1>4, <1>5 DEF Start, Continue

LEMMA StepRefines ==
    ASSUME IInv, [Next]_vars
    PROVE  LStep
<1> USE DEF db_vars
<1>1. ASSUME NEW h \in Handlers, Start(h) \/ Continue(h) \/ drop_handler(h) PROVE LStep
  BY <1>1, HandlerRefines
<1>2. CASE Boot \/ Feed
  <2>1. CASE run_reap
    BY <2>1, ReapIsReap
  <2>2. CASE run_install \/ run_scan \/ run_scan_send \/ forward_recv \/ forward_send
    BY <2>2, Elsewhere DEF run_install, run_scan, run_scan_send, forward_recv, forward_send
  <2> QED
    BY <1>2, <2>1, <2>2 DEF Boot, Feed
<1>3. CASE Process
  BY <1>3, ClaimIsClaim, FinishIsSettle, RecordIsQuiet, ProcessIsQuiet DEF Process
<1>4. CASE PollOnce
  <2>1. CASE poll_once_enqueue
    BY <2>1, EnqueueIsQueue DEF poll_once_enqueue, poll_rest
  <2>2. ASSUME NEW n \in Names, poll_once_skip(n) \/ poll_once_moved(n) PROVE LStep
    BY <2>2, Elsewhere DEF poll_once_skip, poll_once_moved, poll_rest
  <2>3. CASE poll_once_packages \/ poll_once_queued \/ poll_once_running \/ poll_once_error
             \/ poll_once_done
    BY <2>3, Elsewhere DEF poll_once_packages, poll_once_queued, poll_once_running,
                           poll_once_error, poll_once_done, poll_rest
  <2> QED
    BY <1>4, <2>1, <2>2, <2>3 DEF PollOnce
<1>5. ASSUME NEW c \in Cleaners, CleanupWork(c) PROVE LStep
  BY <1>5, Elsewhere DEF CleanupWork, run_cleanup_work_list, run_cleanup_work_remove,
                         run_cleanup_work_done, clean_rest
<1>6. CASE Crash
  BY <1>6, Quiet DEF Crash, Holder
<1>7. ASSUME NEW n \in Names, Push(n) PROVE LStep
  BY <1>7, Elsewhere DEF Push
<1>8. CASE UNCHANGED vars
  BY <1>8, Elsewhere DEF vars
<1> QED
  BY <1>1, <1>2, <1>3, <1>4, <1>5, <1>6, <1>7, <1>8 DEF Next

LEMMA InitRefines == Init => Lifecycle!Init
  BY DEF Init, Lifecycle!Init, Holder, NoBuild

-----------------------------------------------------------------------------
(* Theorems *)

\* The daemon implements BuildLifecycle: with any number of clients, packages
\* and crashes, a row is claimed once and from "queued", settled only by the
\* worker that holds it, cancelled only while live, and reaped only while the
\* worker is on nothing.
THEOREM Refinement == Spec => ImplementsLifecycle
<1>1. IInv /\ [Next]_vars => LStep
  BY StepRefines
<1> QED
  BY <1>1, InitRefines, Invariance, PTL DEF Spec, ImplementsLifecycle, Lifecycle!Spec, LStep

-----------------------------------------------------------------------------
(* A row says "running" only while the worker is on it, as long as no `?`   *)
(* of process_one strikes between the claim and finish_build.               *)

(* What a step of another task leaves of the worker.                        *)
LEMMA WorkerFrame ==
    ASSUME [Next]_vars
    PROVE  /\ UNCHANGED work_vars \/ Process \/ Crash
           /\ UNCHANGED boot \/ run_reap \/ boot # "reap" \/ Crash
<1> USE DEF api_rest, db_vars, wake_vars, poll_rest, clean_rest, wake_path
<1>1. ASSUME NEW h \in Handlers, Start(h) PROVE UNCHANGED <<work_vars, boot>>
  <2>1. PICK r \in Requests :
          \/ add_package_upsert(h, r) \/ rebuild_package(h, r) \/ set_package_auto(h, r)
          \/ set_package_variants_read(h, r) \/ delete_package_read(h, r)
          \/ cancel_build_row(h, r)
    BY <1>1 DEF Start
  <2> QED
    BY <2>1 DEF add_package_upsert, rebuild_package, set_package_auto,
                set_package_variants_read, delete_package_read, cancel_build_row
<1>2. ASSUME NEW h \in Handlers, Continue(h) \/ drop_handler(h) PROVE UNCHANGED <<work_vars, boot>>
  BY <1>2 DEF Continue, send_wake_lock, send_wake_send, enqueue_one, statement_error,
       add_package_variants, add_package_read, set_package_variants_write, delete_package_repo,
       delete_package_row, cancel_build_token, drop_handler
<1>3. CASE Boot \/ Feed
  BY <1>3 DEF Boot, Feed, run_reap, run_install, run_scan, run_scan_send, forward_recv, forward_send
<1>4. CASE Process
  <2>1. UNCHANGED boot
    BY <1>4 DEF Process, run_worker_recv, process_one_claim, process_one_claim_error,
         process_one_lookup, process_one_register, run_in_container_spawn, run_in_container_exit,
         run_in_container_error, process_one_drop_token, process_one_finish,
         process_one_finish_error, process_one_publish, process_one_record, process_one_head,
         process_one_set_ref, process_one_cleanup
  <2> QED
    BY <1>4, <2>1
<1>5. CASE PollOnce
  BY <1>5 DEF PollOnce, poll_once_packages, poll_once_queued, poll_once_running, poll_once_skip,
       poll_once_moved, poll_once_enqueue, poll_once_error, poll_once_done
<1>6. ASSUME NEW c \in Cleaners, CleanupWork(c) PROVE UNCHANGED <<work_vars, boot>>
  BY <1>6 DEF CleanupWork, run_cleanup_work_list, run_cleanup_work_remove, run_cleanup_work_done
<1>7. ASSUME NEW n \in Names, Push(n) PROVE UNCHANGED <<work_vars, boot>>
  BY <1>7 DEF Push
<1>8. CASE UNCHANGED vars
  BY <1>8 DEF vars
<1> QED
  BY <1>1, <1>2, <1>3, <1>4, <1>5, <1>6, <1>7, <1>8 DEF Next

(* Work dirs come and go with process_one and with cleanup processes only.  *)
LEMMA DirFrame ==
    ASSUME [Next]_vars, ~Process, Cleaners = {}
    PROVE  UNCHANGED work_dirs
<1> USE DEF api_rest, disk_vars, poll_rest
<1>1. ASSUME NEW h \in Handlers, Start(h) PROVE UNCHANGED work_dirs
  <2>1. PICK r \in Requests :
          \/ add_package_upsert(h, r) \/ rebuild_package(h, r) \/ set_package_auto(h, r)
          \/ set_package_variants_read(h, r) \/ delete_package_read(h, r)
          \/ cancel_build_row(h, r)
    BY <1>1 DEF Start
  <2> QED
    BY <2>1 DEF add_package_upsert, rebuild_package, set_package_auto,
                set_package_variants_read, delete_package_read, cancel_build_row
<1>2. ASSUME NEW h \in Handlers, Continue(h) \/ drop_handler(h) PROVE UNCHANGED work_dirs
  BY <1>2 DEF Continue, send_wake_lock, send_wake_send, enqueue_one, statement_error,
       add_package_variants, add_package_read, set_package_variants_write, delete_package_repo,
       delete_package_row, cancel_build_token, drop_handler
<1>3. CASE Boot \/ Feed
  BY <1>3 DEF Boot, Feed, run_reap, run_install, run_scan, run_scan_send, forward_recv, forward_send
<1>4. CASE PollOnce
  BY <1>4 DEF PollOnce, poll_once_packages, poll_once_queued, poll_once_running, poll_once_skip,
       poll_once_moved, poll_once_enqueue, poll_once_error, poll_once_done
<1>5. CASE Crash \/ (\E n \in Names : Push(n)) \/ UNCHANGED vars
  BY <1>5 DEF Crash, Push, vars
<1> QED
  BY <1>1, <1>2, <1>3, <1>4, <1>5 DEF Next

(* Past finish_build the row is settled.                                    *)
Settled == wpc = "cleanup" => builds[job.build].status # "running"

HInv == RunningIsHeld /\ Settled /\ LiveDirKept

(* Runs without what makes process_one return early: a statement or the     *)
(* container runtime fails, or a cleanup takes the work dir away.           *)
NoEarlyReturn == "db" \notin Faults /\ "container" \notin Faults /\ Cleaners = {}

(* The worker lets go of a build only when its row no longer says running.  *)
LEMMA LetsGo ==
    ASSUME NoEarlyReturn, IInv, Settled, LiveDirKept, Process, Holder # 0, Holder' = 0
    PROVE  builds[Holder].status # "running"
<1> USE DEF AtStep, ToStep, Return, Holder
<1>0. /\ job \in Job /\ wpc \notin {"idle", "claim"} /\ job.build \in BuildIds /\ job.build # 0
  BY DEF IInv, TypeOK, TypeTasks, WorkerLocals, BuildIds
<1>1. CASE process_one_lookup
  <2>1. wpc = "lookup" /\ (wpc' = "register" => job'.build = job.build)
    BY <1>0, <1>1 DEF process_one_lookup, Job
  <2>2. ~ForeignKeyOK(packages, job.pid)
    BY <1>0, <1>1, <2>1 DEF process_one_lookup, NoEarlyReturn
  <2>3. builds[job.build].status \in {"running", "cancelled", "deleted"}
        /\ (builds[job.build].status # "deleted" => builds[job.build].pid = job.pid)
    BY <2>1 DEF IInv, HeldRow, BeforeFinish
  <2>4. builds[job.build].status = "running" => ForeignKeyOK(packages, builds[job.build].pid)
    BY <1>0 DEF IInv, ForeignKeys
  <2> QED
    BY <1>0, <2>2, <2>3, <2>4
<1>2. CASE process_one_cleanup
  BY <1>0, <1>2 DEF process_one_cleanup, Settled
<1>3. CASE \/ run_worker_recv \/ process_one_claim \/ process_one_claim_error
           \/ process_one_finish_error \/ run_in_container_error
  BY <1>0, <1>3 DEF run_worker_recv, process_one_claim, process_one_claim_error,
       process_one_finish_error, run_in_container_error, NoEarlyReturn, LiveDirKept
<1>4. CASE process_one_register \/ process_one_drop_token \/ process_one_finish
           \/ process_one_record \/ process_one_publish \/ process_one_set_ref
  BY <1>0, <1>4 DEF process_one_register, process_one_drop_token, process_one_finish,
       process_one_record, process_one_publish, process_one_set_ref
<1>5. CASE run_in_container_spawn \/ run_in_container_exit \/ process_one_head
  BY <1>0, <1>5 DEF run_in_container_spawn, run_in_container_exit, process_one_head, Job
<1> QED
  BY <1>1, <1>2, <1>3, <1>4, <1>5 DEF Process

(* Only a claim makes a row say "running", and it makes the worker hold it. *)
LEMMA RunningStep ==
    ASSUME LStep, NEW b \in BuildIds, builds'[b].status = "running"
    PROVE  \/ Holder = 0 /\ Holder' = b
           \/ builds[b].status = "running" /\ (Holder' = Holder \/ Holder' = 0 \/ Holder = 0)
<1> DEFINE st == [c \in BuildIds |-> builds[c].status]
<1>0. st[b] = builds[b].status /\ st'[b] = "running"
  OBVIOUS
<1>1. CASE UNCHANGED Lifecycle!lvars
  BY <1>0, <1>1 DEF Lifecycle!lvars
<1>2. ASSUME NEW c \in BuildIds, Lifecycle!Queue(c) \/ Lifecycle!Cancel(c)
      PROVE  builds[b].status = "running" /\ Holder' = Holder
  BY <1>0, <1>2 DEF Lifecycle!Queue, Lifecycle!Cancel
<1>3. ASSUME NEW c \in BuildIds, Lifecycle!Claim(c)
      PROVE  Holder = 0 /\ (Holder' = b \/ builds[b].status = "running")
  BY <1>0, <1>3 DEF Lifecycle!Claim
<1>4. ASSUME NEW s \in Lifecycle!Ended, Lifecycle!Settle(s)
      PROVE  builds[b].status = "running" /\ Holder' = Holder
  BY <1>0, <1>4 DEF Lifecycle!Settle, Lifecycle!Ended
<1>5. CASE Lifecycle!Release
  BY <1>0, <1>5 DEF Lifecycle!Release
<1>6. CASE Lifecycle!Reap
  BY <1>0, <1>6 DEF Lifecycle!Reap
<1>7. ASSUME NEW S \in SUBSET BuildIds, Lifecycle!Delete(S)
      PROVE  builds[b].status = "running" /\ Holder' = Holder
  BY <1>0, <1>7 DEF Lifecycle!Delete
<1> QED
  BY <1>1, <1>2, <1>3, <1>4, <1>5, <1>6, <1>7 DEF LStep, Lifecycle!Next

(* finish_build and everything after it leave the row settled.              *)
LEMMA SettledStep ==
    ASSUME IInv, HInv, [Next]_vars
    PROVE  Settled'
<1> SUFFICES ASSUME wpc' = "cleanup" PROVE builds'[job'.build].status # "running"
  BY DEF Settled
<1>0. job \in Job
  BY DEF IInv, TypeOK, TypeTasks
<1>1. CASE UNCHANGED work_vars
  <2>1. wpc = "cleanup" /\ job' = job /\ job.build \in BuildIds /\ builds[job.build].status # "running"
    BY <1>1 DEF work_vars, HInv, Settled, IInv, WorkerLocals
  <2>2. Holder = job.build /\ job.build # 0
    BY <2>1 DEF Holder, BuildIds
  <2> QED
    BY <2>1, <2>2, StepRefines, RunningStep
<1>2. CASE process_one_finish
  <2>1. /\ job' = job /\ job.build \in BuildIds /\ job.outcome \in Terminal
    BY <1>2 DEF process_one_finish, AtStep, ToStep, IInv, WorkerLocals
  <2>2. builds'[job.build].status \in Terminal \cup {"deleted"}
    <3>1. builds \in [BuildIds -> BuildRow]
      BY DEF IInv, TypeOK, TypeDb
    <3> QED
      BY <1>2, <2>1, <3>1, FinishRows DEF process_one_finish
  <2> QED
    BY <2>1, <2>2 DEF Terminal
<1>3. CASE process_one_publish \/ process_one_head \/ process_one_set_ref
  <2>1. job'.build = job.build /\ UNCHANGED builds /\ wpc \in AfterSuccess
    BY <1>0, <1>3 DEF process_one_publish, process_one_head, process_one_set_ref, AtStep, ToStep,
         AfterSuccess, db_vars, Job
  <2> QED
    BY <2>1 DEF IInv, HeldRow
<1>4. CASE Process
  <2>1. process_one_finish \/ process_one_publish \/ process_one_head \/ process_one_set_ref
    BY <1>4 DEF Process, run_worker_recv, process_one_claim, process_one_claim_error,
         process_one_lookup, process_one_register, run_in_container_spawn, run_in_container_exit,
         run_in_container_error, process_one_drop_token, process_one_finish_error,
         process_one_record, process_one_cleanup, ToStep, Return
  <2> QED
    BY <2>1, <1>2, <1>3
<1> QED
  BY <1>1, <1>4, WorkerFrame DEF Crash

(* Without a cleanup process, only process_one removes a work dir.          *)
LEMMA DirStep ==
    ASSUME NoEarlyReturn, IInv, HInv, [Next]_vars
    PROVE  LiveDirKept'
<1> SUFFICES ASSUME wpc' = "building" PROVE job'.build \in work_dirs'
  BY DEF LiveDirKept
<1>0. job \in Job
  BY DEF IInv, TypeOK, TypeTasks
<1>1. CASE Process
  <2>1. run_in_container_spawn
    BY <1>1 DEF Process, run_worker_recv, process_one_claim, process_one_claim_error,
         process_one_lookup, process_one_register, run_in_container_exit,
         run_in_container_error, process_one_drop_token, process_one_finish,
         process_one_finish_error, process_one_publish, process_one_record, process_one_head,
         process_one_set_ref, process_one_cleanup, ToStep, Return
  <2> QED
    BY <1>0, <2>1 DEF run_in_container_spawn, ToStep, Job
<1>2. CASE ~Process /\ UNCHANGED work_vars
  <2>1. UNCHANGED work_dirs
    BY <1>2, DirFrame DEF NoEarlyReturn
  <2> QED
    BY <1>2, <2>1 DEF HInv, LiveDirKept, work_vars
<1> QED
  BY <1>1, <1>2, WorkerFrame DEF Crash

LEMMA HeldStep ==
    ASSUME NoEarlyReturn, IInv, HInv, [Next]_vars
    PROVE  HInv'
<1>1. RunningIsHeld'
  <2> SUFFICES ASSUME boot' # "reap", NEW b \in BuildIds, builds'[b].status = "running"
               PROVE  Holder' = b
    BY DEF RunningIsHeld
  <2>0. b # 0
    BY DEF BuildIds
  <2>1. CASE run_reap
    <3>1. builds \in [BuildIds -> BuildRow]
      BY DEF IInv, TypeOK, TypeDb
    <3> QED
      BY <2>1, <3>1, ReapRows DEF run_reap
  <2>2. CASE boot # "reap"
    <3>1. builds[b].status = "running" => Holder = b
      BY <2>2 DEF HInv, RunningIsHeld
    <3>2. \/ Holder = 0 /\ Holder' = b
          \/ builds[b].status = "running" /\ (Holder' = Holder \/ Holder' = 0 \/ Holder = 0)
      BY StepRefines, RunningStep
    <3>3. ASSUME Holder = b, Holder' = 0, builds[b].status = "running" PROVE FALSE
      <4>1. Process \/ UNCHANGED work_vars
        BY WorkerFrame DEF Crash
      <4>2. CASE UNCHANGED work_vars
        BY <4>2, <3>3, <2>0 DEF work_vars, Holder
      <4>3. CASE Process
        BY <4>3, <3>3, <2>0, LetsGo DEF HInv
      <4> QED
        BY <4>1, <4>2, <4>3
    <3> QED
      BY <2>0, <3>1, <3>2, <3>3
  <2> QED
    BY <2>1, <2>2, WorkerFrame DEF Crash
<1>2. Settled'
  BY SettledStep
<1>3. LiveDirKept'
  BY DirStep
<1> QED
  BY <1>1, <1>2, <1>3 DEF HInv

\* When no statement and no container runtime call fails, and no cleanup process
\* runs beside the daemon, a row says "running" only while the worker is on it:
\* every way out of process_one has settled the row, or found it cancelled or
\* deleted, and a restart reaps what a crash left.
THEOREM RunningHeld ==
    ASSUME NoEarlyReturn
    PROVE  Spec => []RunningIsHeld
<1>1. Init => HInv
  BY DEF Init, HInv, RunningIsHeld, Settled, LiveDirKept
<1>2. IInv /\ HInv /\ [Next]_vars => HInv'
  BY HeldStep
<1>3. HInv => RunningIsHeld
  BY DEF HInv
<1> QED
  BY <1>1, <1>2, <1>3, Invariance, PTL DEF Spec
=============================================================================
