---------------------------- MODULE DaemonProofs ----------------------------
(***************************************************************************)
(* Proofs about Daemon, for every set of packages and requests, every      *)
(* choice of faults and all bounds: the inductive invariant IInv, and the  *)
(* safety properties that follow from it.                                  *)
(***************************************************************************)
EXTENDS Daemon, TLAPS

USE DbBounds, DaemonBounds DEF DbBounds, DaemonBounds

-----------------------------------------------------------------------------
(* The values tasks and tables are reset to are well typed. *)
LEMMA Defaults ==
    /\ NoBuild \in BuildRow
    /\ NoPackage \in PackageRow
    /\ NoReq \in Req
    /\ NoJob \in Job
    /\ NoPoll \in Poll
<1>1. NoBuild \in BuildRow
  BY DEF NoBuild, BuildRow, Variant, Trigger, Status, Live, Terminal
<1>2. NoPackage \in PackageRow
  BY DEF NoPackage, PackageRow, Ref
<1>3. NoReq \in Req
  BY DEF NoReq, Req, Op
<1>4. NoJob \in Job
  BY DEF NoJob, Job, Variant, Ref
<1>5. NoPoll \in Poll
  BY <1>2 DEF NoPoll, Poll
<1> QED
  BY <1>1, <1>2, <1>3, <1>4, <1>5

(* What run_worker knows of a build before the claim: its id.               *)
LEMMA FreshJob ==
    ASSUME NEW b \in BuildIds
    PROVE  /\ [NoJob EXCEPT !.build = b] \in Job
           /\ [NoJob EXCEPT !.build = b].build = b
<1>1. b \in 0..MaxBuilds
  BY DEF BuildIds
<1> QED
  BY <1>1, Defaults DEF Job

(* An UPDATE of one row leaves every other row alone.                       *)
LEMMA ClaimRows ==
    ASSUME NEW bs \in [BuildIds -> BuildRow], NEW b \in BuildIds
    PROVE  LET r == claim_build_by_id(bs, b)
           IN  /\ r \in [BuildIds -> BuildRow]
               /\ r[b].status = "running" /\ r[b].pid = bs[b].pid
               /\ \A c \in BuildIds \ {b} : r[c] = bs[c]
  BY DEF claim_build_by_id, BuildRow, Status, Live

LEMMA CancelRows ==
    ASSUME NEW bs \in [BuildIds -> BuildRow], NEW b \in BuildIds
    PROVE  LET r == cancel_build(bs, b)
           IN  /\ r \in [BuildIds -> BuildRow]
               /\ r[b].status = "cancelled" /\ r[b].pid = bs[b].pid
               /\ \A c \in BuildIds \ {b} : r[c] = bs[c]
  BY DEF cancel_build, BuildRow, Status, Terminal

LEMMA FinishRows ==
    ASSUME NEW bs \in [BuildIds -> BuildRow], NEW b \in BuildIds, NEW s \in Terminal
    PROVE  LET r == finish_build(bs, b, s)
           IN  /\ r \in [BuildIds -> BuildRow]
               /\ r[b].status = (IF bs[b].status = "deleted" THEN "deleted" ELSE s)
               /\ r[b].pid = bs[b].pid
               /\ \A c \in BuildIds \ {b} : r[c] = bs[c]
  BY DEF finish_build, BuildRow, Status, Terminal

LEMMA RecordRows ==
    ASSUME NEW bs \in [BuildIds -> BuildRow], NEW b \in BuildIds
    PROVE  LET r == record_pkg(bs, b)
           IN  /\ r \in [BuildIds -> BuildRow]
               /\ r[b].status = bs[b].status /\ r[b].pid = bs[b].pid
               /\ \A c \in BuildIds \ {b} : r[c] = bs[c]
  BY DEF record_pkg, BuildRow

LEMMA SetRefRows ==
    ASSUME NEW pk \in [Names -> PackageRow], NEW i, NEW ref \in Ref
    PROVE  LET r == set_last_ref(pk, i, ref)
           IN  /\ r \in [Names -> PackageRow]
               /\ \A n \in Names : r[n].id = pk[n].id
  BY DEF set_last_ref, PackageRow

(* reap_stale_running fails the running rows and leaves the others alone.   *)
LEMMA ReapRows ==
    ASSUME NEW bs \in [BuildIds -> BuildRow]
    PROVE  LET r == reap_stale_running(bs)
           IN  /\ r \in [BuildIds -> BuildRow]
               /\ \A b \in BuildIds : bs[b].status = "running" =>
                                       r[b].status = "failed" /\ r[b].pid = bs[b].pid
               /\ \A b \in BuildIds : bs[b].status # "running" => r[b] = bs[b]
  BY DEF reap_stale_running, BuildRow, Status, Live, Terminal

(* ON DELETE CASCADE empties the rows of one package and no other.          *)
LEMMA CascadeRows ==
    ASSUME NEW bs \in [BuildIds -> BuildRow], NEW i
    PROVE  LET r == CascadeDelete(bs, i)
           IN  /\ r \in [BuildIds -> BuildRow]
               /\ \A b \in BuildIds : \/ r[b] = bs[b] /\ (bs[b].pid # i \/ bs[b].status = "absent")
                                      \/ /\ bs[b].pid = i /\ bs[b].status # "absent"
                                         /\ r[b].status = "deleted"
<1>1. [NoBuild EXCEPT !.status = "deleted"] \in BuildRow
  BY Defaults DEF BuildRow, Status, Live, Terminal
<1>2. [NoBuild EXCEPT !.status = "deleted"].status = "deleted"
  BY DEF NoBuild
<1> QED
  BY <1>1, <1>2 DEF CascadeDelete

(* What a step that leaves a group of variables alone keeps of IInv.        *)
LEMMA Frame ==
    ASSUME IInv
    PROVE  /\ UNCHANGED db_vars => TypeDb' /\ FreshIds' /\ ForeignKeys'
           /\ UNCHANGED disk_vars => TypeDisk'
           /\ UNCHANGED <<repo, builds>> => PublishedSucceeded'
           /\ UNCHANGED env_vars => TypeEnv'
           /\ UNCHANGED wake_vars => TypeWake'
           /\ UNCHANGED <<token_vars, log_channels>> => TypeMaps'
           /\ UNCHANGED api_vars => HandlerLocals'
           /\ UNCHANGED poll_vars => PollerLocals'
           /\ UNCHANGED <<boot, work_vars>> => WorkerLocals'
           /\ UNCHANGED <<builds, work_vars>> => HeldRow'
<1>1. UNCHANGED db_vars => TypeDb' /\ FreshIds' /\ ForeignKeys'
  BY DEF IInv, TypeOK, TypeDb, FreshIds, ForeignKeys, ForeignKeyOK, db_vars
<1>2. UNCHANGED disk_vars => TypeDisk'
  BY DEF IInv, TypeOK, TypeDisk, disk_vars
<1>3. UNCHANGED <<repo, builds>> => PublishedSucceeded'
  BY DEF IInv, PublishedSucceeded
<1>4. UNCHANGED env_vars => TypeEnv'
  BY DEF IInv, TypeOK, TypeEnv, env_vars
<1>5. UNCHANGED wake_vars => TypeWake'
  BY DEF IInv, TypeOK, TypeWake, wake_vars
<1>6. UNCHANGED <<token_vars, log_channels>> => TypeMaps'
  BY DEF IInv, TypeOK, TypeMaps, token_vars
<1>7. UNCHANGED api_vars => HandlerLocals'
  BY DEF IInv, HandlerLocals, api_vars, ParseOK
<1>8. UNCHANGED poll_vars => PollerLocals'
  BY DEF IInv, PollerLocals, poll_vars
<1>9. UNCHANGED <<boot, work_vars>> => WorkerLocals'
  BY DEF IInv, WorkerLocals, work_vars, WakeInstalled
<1>10. UNCHANGED <<builds, work_vars>> => HeldRow'
  BY DEF IInv, HeldRow, work_vars
<1> QED
  BY <1>1, <1>2, <1>3, <1>4, <1>5, <1>6, <1>7, <1>8, <1>9, <1>10

LEMMA InitIInv == Init => IInv
<1> SUFFICES ASSUME Init PROVE IInv
  OBVIOUS
<1>1. TypeDb /\ TypeDisk /\ TypeEnv
  BY Defaults, InitPackagesOK DEF Init, TypeDb, TypeDisk, TypeEnv, InitPackagesOK
<1>2. TypeWake /\ TypeMaps
  BY DEF Init, TypeWake, TypeMaps
<1>3. TypeTasks
  BY Defaults DEF Init, TypeTasks, HandlerPc, WorkerPc, PollerPc, CleanerPc
<1>4. HandlerLocals /\ PollerLocals /\ WorkerLocals /\ HeldRow
  BY DEF Init, HandlerLocals, PollerLocals, WorkerLocals, HeldRow, BeforeFinish, AfterSuccess
<1>5. FreshIds /\ ForeignKeys /\ PublishedSucceeded
  BY DEF Init, FreshIds, ForeignKeys, PublishedSucceeded, NoBuild
<1> QED
  BY <1>1, <1>2, <1>3, <1>4, <1>5 DEF IInv, TypeOK

-----------------------------------------------------------------------------
(* The worker.  A step that only moves the program counter and the job      *)
(* record keeps IInv if the new pair agrees with the row.                   *)
LEMMA WorkerMove ==
    ASSUME IInv, UNCHANGED <<db_vars, repo, env_vars, wake_vars, api_vars, poll_vars, clean_vars>>,
           TypeDisk', TypeMaps',
           wpc' \in WorkerPc, job' \in Job, WorkerLocals', HeldRow'
    PROVE  IInv'
<1>1. TypeTasks'
  BY DEF IInv, TypeOK, TypeTasks, api_vars, poll_vars, clean_vars
<1> QED
  BY <1>1, Frame DEF IInv, TypeOK, db_vars

(* A boot or feed step only touches the wake path.                          *)
LEMMA FeedMove ==
    ASSUME IInv, UNCHANGED <<db_vars, disk_vars, env_vars, token_vars, log_channels,
                             api_vars, work_vars, poll_vars, clean_vars>>,
           TypeWake', WorkerLocals'
    PROVE  IInv'
<1>1. TypeTasks'
  BY DEF IInv, TypeOK, TypeTasks, api_vars, work_vars, poll_vars, clean_vars
<1> QED
  BY <1>1, Frame DEF IInv, TypeOK, db_vars, disk_vars, token_vars

(* Start-up and the wake path keep IInv.                                    *)
LEMMA BootFeedStep ==
    ASSUME IInv, Boot \/ Feed
    PROVE  IInv'
<1> USE DEF wake_vars, work_rest
<1>1. CASE run_reap
  <2>1. wpc = "idle"
    BY <1>1 DEF run_reap, IInv, WorkerLocals, WakeInstalled
  <2>2. /\ builds' \in [BuildIds -> BuildRow]
        /\ \A b \in BuildIds : builds[b].status = "running" =>
                                builds'[b].status = "failed" /\ builds'[b].pid = builds[b].pid
        /\ \A b \in BuildIds : builds[b].status # "running" => builds'[b] = builds[b]
    BY <1>1, ReapRows DEF run_reap, IInv, TypeOK, TypeDb
  <2>3. TypeDb' /\ FreshIds'
    BY <1>1, <2>2 DEF run_reap, IInv, TypeOK, TypeDb, FreshIds, NoBuild
  <2>4. ForeignKeys'
    BY <1>1, <2>2 DEF run_reap, IInv, ForeignKeys, ForeignKeyOK
  <2>5. PublishedSucceeded'
    BY <1>1, <2>2 DEF run_reap, IInv, TypeOK, TypeDisk, PublishedSucceeded, disk_vars, BuildIds
  <2>6. TypeWake' /\ TypeTasks'
    BY <1>1 DEF run_reap, IInv, TypeOK, TypeWake, TypeTasks, api_vars, work_vars, poll_vars, clean_vars
  <2>7. WorkerLocals' /\ HeldRow'
    BY <1>1, <2>1 DEF run_reap, WorkerLocals, HeldRow, work_vars, BeforeFinish, AfterSuccess
  <2> QED
    BY <1>1, <2>3, <2>4, <2>5, <2>6, <2>7, Frame DEF run_reap, IInv, TypeOK
<1>2. CASE run_install
  BY <1>2, FeedMove DEF run_install, IInv, TypeOK, TypeWake, WorkerLocals, WakeInstalled, work_vars
<1>3. CASE run_scan
  BY <1>3, FeedMove DEF run_scan, IInv, TypeOK, TypeWake, WorkerLocals, WakeInstalled, work_vars,
                        list_builds
<1>4. CASE run_scan_send
  BY <1>4, FeedMove DEF run_scan_send, IInv, TypeOK, TypeWake, WorkerLocals, WakeInstalled, work_vars
<1>5. CASE forward_recv
  BY <1>5, FeedMove DEF forward_recv, IInv, TypeOK, TypeWake, WorkerLocals, WakeInstalled, work_vars,
                        BuildIds
<1>6. CASE forward_send
  BY <1>6, FeedMove DEF forward_send, IInv, TypeOK, TypeWake, WorkerLocals, WakeInstalled, work_vars,
                        BuildIds
<1> QED
  BY <1>1, <1>2, <1>3, <1>4, <1>5, <1>6 DEF Boot, Feed

(* process_one keeps IInv, whichever of its exits it takes.                 *)
LEMMA ProcessStep ==
    ASSUME IInv, Process
    PROVE  IInv'
<1> USE DEF wake_path, wake_vars, work_rest, AtStep
<1>0. /\ TypeDb /\ TypeDisk /\ TypeMaps /\ wpc \in WorkerPc /\ job \in Job /\ WorkerLocals /\ HeldRow
      /\ upstream \in [Names -> 1..MaxRef] /\ work_q \in Seq(BuildIds)
  BY DEF IInv, TypeOK, TypeTasks, TypeEnv, TypeWake
\* Returning forgets the job.
<1>r. ASSUME Return PROVE wpc' \in WorkerPc /\ job' \in Job /\ WorkerLocals' /\ HeldRow'
  BY <1>r, Defaults DEF Return, ToStep, WorkerPc, WorkerLocals, HeldRow, BeforeFinish, AfterSuccess
<1>1. CASE run_worker_recv
  <2>0. wpc' = "claim" /\ job' \in Job /\ job'.build \in BuildIds
    <3>1. Head(work_q) \in BuildIds
      BY <1>1, <1>0 DEF run_worker_recv
    <3> QED
      BY <1>1, <3>1, FreshJob DEF run_worker_recv, ToStep
  <2>1. wpc' \in WorkerPc /\ job' \in Job /\ WorkerLocals' /\ HeldRow'
    BY <1>1, <2>0 DEF run_worker_recv, WorkerPc, WorkerLocals, HeldRow, BeforeFinish,
         AfterSuccess, WakeInstalled
  <2>2. TypeWake' /\ TypeTasks'
    BY <1>1, <2>1 DEF run_worker_recv, IInv, TypeOK, TypeWake, TypeTasks, api_vars, poll_vars, clean_vars
  <2> QED
    BY <1>1, <2>1, <2>2, Frame DEF run_worker_recv, IInv, TypeOK, db_vars, disk_vars
<1>2. CASE process_one_claim
  <2>1. CASE ~Claimable(builds, job.build)
    BY <1>2, <2>1, <1>r, WorkerMove, Frame DEF process_one_claim, db_vars, disk_vars
  <2>2. CASE Claimable(builds, job.build)
    <3>1. job.build \in BuildIds /\ builds[job.build].status = "queued"
      BY <1>0, <1>2, <2>2 DEF process_one_claim, WorkerLocals, Claimable
    <3>2. /\ builds' \in [BuildIds -> BuildRow]
          /\ builds'[job.build].status = "running" /\ builds'[job.build].pid = builds[job.build].pid
          /\ \A c \in BuildIds \ {job.build} : builds'[c] = builds[c]
      <4>1. builds' = claim_build_by_id(builds, job.build) /\ builds \in [BuildIds -> BuildRow]
        BY <1>0, <1>2, <2>2 DEF process_one_claim, TypeDb
      <4> QED
        BY <3>1, <4>1, ClaimRows
    <3>3. TypeDb' /\ FreshIds'
      BY <1>2, <3>1, <3>2 DEF process_one_claim, IInv, TypeOK, TypeDb, FreshIds, NoBuild
    <3>4. ForeignKeys'
      BY <1>2, <3>1, <3>2 DEF process_one_claim, IInv, ForeignKeys, ForeignKeyOK
    <3>5. PublishedSucceeded'
      BY <1>2, <3>1, <3>2 DEF process_one_claim, IInv, TypeOK, TypeDisk, PublishedSucceeded, disk_vars, BuildIds
    <3>6. /\ wpc' = "lookup" /\ job' \in Job /\ job'.build = job.build
          /\ job'.pid = builds[job.build].pid
      BY <1>0, <1>2, <2>2, <3>1 DEF process_one_claim, ToStep, Job, TypeDb, BuildRow
    <3>7. WorkerLocals' /\ HeldRow'
      BY <1>0, <1>2, <3>1, <3>2, <3>6 DEF process_one_claim, WorkerLocals, HeldRow, BeforeFinish,
           AfterSuccess, WakeInstalled
    <3>8. TypeTasks'
      BY <1>2, <3>6 DEF process_one_claim, IInv, TypeOK, TypeTasks, WorkerPc, api_vars, poll_vars, clean_vars
    <3> QED
      BY <1>2, <3>3, <3>4, <3>5, <3>7, <3>8, Frame DEF process_one_claim, IInv, TypeOK
  <2> QED
    BY <2>1, <2>2
<1>3. CASE process_one_claim_error
  BY <1>3, <1>r, WorkerMove, Frame DEF process_one_claim_error, disk_vars
<1>4. CASE process_one_lookup
  <2>1. CASE Return
    BY <1>4, <2>1, <1>r, WorkerMove, Frame DEF process_one_lookup, disk_vars
  <2>2. CASE \E n \in Names : ToStep("register", [job EXCEPT !.name = n])
    <3>1. PICK n \in Names : ToStep("register", [job EXCEPT !.name = n])
      BY <2>2
    <3>2. wpc' \in WorkerPc /\ job' \in Job /\ WorkerLocals' /\ HeldRow'
      BY <1>4, <1>0, <3>1 DEF process_one_lookup, ToStep, WorkerPc, Job, WorkerLocals, HeldRow, BeforeFinish,
           AfterSuccess, WakeInstalled, db_vars
    <3> QED
      BY <1>4, <3>2, WorkerMove, Frame DEF process_one_lookup, disk_vars
  <2> QED
    BY <1>4, <2>1, <2>2 DEF process_one_lookup
<1>5. CASE process_one_register
  <2>1. wpc' \in WorkerPc /\ job' \in Job /\ WorkerLocals' /\ HeldRow'
    BY <1>5, <1>0 DEF process_one_register, ToStep, WorkerPc, WorkerLocals, HeldRow, BeforeFinish,
         AfterSuccess, WakeInstalled, db_vars
  <2>2. TypeMaps'
    BY <1>5, <1>0 DEF process_one_register, TypeMaps, WorkerLocals
  <2> QED
    BY <1>5, <2>1, <2>2, WorkerMove, Frame DEF process_one_register, disk_vars
<1>6. CASE run_in_container_spawn
  <2>0. wpc' = "building" /\ job' \in Job /\ job'.build = job.build /\ job'.name = job.name
        /\ job'.pid = job.pid
    <3>1. upstream[job.name] \in Ref
      BY <1>0, <1>6 DEF run_in_container_spawn, WorkerLocals, Ref
    <3> QED
      BY <1>0, <1>6, <3>1 DEF run_in_container_spawn, ToStep, Job
  <2>1. wpc' \in WorkerPc /\ job' \in Job /\ WorkerLocals' /\ HeldRow'
    BY <1>6, <1>0, <2>0 DEF run_in_container_spawn, WorkerPc, WorkerLocals, HeldRow, BeforeFinish,
         AfterSuccess, WakeInstalled, db_vars
  <2>2. TypeMaps' /\ TypeDisk'
    BY <1>6, <1>0 DEF run_in_container_spawn, TypeMaps, TypeDisk, WorkerLocals, token_vars
  <2> QED
    BY <1>6, <2>1, <2>2, WorkerMove DEF run_in_container_spawn
<1>7. CASE run_in_container_exit
  <2>1. wpc' \in WorkerPc /\ job' \in Job /\ WorkerLocals' /\ HeldRow'
    BY <1>7, <1>0 DEF run_in_container_exit, ToStep, WorkerPc, WorkerLocals, HeldRow, BeforeFinish,
         AfterSuccess, WakeInstalled, db_vars, Job, Terminal
  <2> QED
    BY <1>7, <2>1, WorkerMove, Frame DEF run_in_container_exit, disk_vars
<1>8. CASE run_in_container_error
  <2>1. TypeDisk'
    BY <1>8, <1>0 DEF run_in_container_error, TypeDisk, WorkerLocals
  <2> QED
    BY <1>8, <2>1, <1>r, WorkerMove, Frame DEF run_in_container_error
<1>9. CASE process_one_drop_token
  <2>1. wpc' \in WorkerPc /\ job' \in Job /\ WorkerLocals' /\ HeldRow'
    BY <1>9, <1>0 DEF process_one_drop_token, ToStep, WorkerPc, WorkerLocals, HeldRow, BeforeFinish,
         AfterSuccess, WakeInstalled, db_vars
  <2>2. TypeMaps'
    BY <1>9, <1>0 DEF process_one_drop_token, TypeMaps
  <2> QED
    BY <1>9, <2>1, <2>2, WorkerMove, Frame DEF process_one_drop_token, disk_vars
<1>10. CASE process_one_finish
  <2>1. /\ job.build \in BuildIds /\ job.outcome \in Terminal
        /\ builds[job.build].status \in {"running", "cancelled", "deleted"}
    BY <1>0, <1>10 DEF process_one_finish, WorkerLocals, HeldRow, BeforeFinish
  <2>2. /\ builds' \in [BuildIds -> BuildRow]
        /\ builds'[job.build].pid = builds[job.build].pid
        /\ builds'[job.build].status = (IF builds[job.build].status = "deleted" THEN "deleted"
                                        ELSE job.outcome)
        /\ \A c \in BuildIds \ {job.build} : builds'[c] = builds[c]
    BY <1>0, <1>10, <2>1, FinishRows DEF process_one_finish, TypeDb
  <2>3. TypeDb' /\ FreshIds'
    <3>1. ~(job.build >= next_build)
      BY <2>1 DEF IInv, FreshIds, NoBuild
    <3> QED
      BY <1>10, <2>1, <2>2, <3>1 DEF process_one_finish, IInv, TypeOK, TypeDb, FreshIds
  <2>4. ForeignKeys'
    BY <1>10, <2>1, <2>2 DEF process_one_finish, IInv, ForeignKeys, ForeignKeyOK
  <2>5. PublishedSucceeded'
    BY <1>10, <2>1, <2>2 DEF process_one_finish, IInv, TypeOK, TypeDisk, PublishedSucceeded, disk_vars, BuildIds
  <2>6. WorkerLocals' /\ HeldRow'
    BY <1>0, <1>10, <2>1, <2>2 DEF process_one_finish, ToStep, WorkerLocals, HeldRow, BeforeFinish,
         AfterSuccess, WakeInstalled
  <2>7. TypeTasks'
    BY <1>10 DEF process_one_finish, ToStep, IInv, TypeOK, TypeTasks, WorkerPc, api_vars, poll_vars, clean_vars
  <2> QED
    BY <1>10, <2>3, <2>4, <2>5, <2>6, <2>7, Frame DEF process_one_finish, IInv, TypeOK
<1>11. CASE process_one_finish_error
  BY <1>11, <1>r, WorkerMove, Frame DEF process_one_finish_error, disk_vars
<1>12. CASE process_one_publish
  <2>1. /\ job.build \in BuildIds /\ job.name \in Names /\ job.variant \in Variant
        /\ builds[job.build].status \in {"success", "deleted"}
    BY <1>0, <1>12 DEF process_one_publish, WorkerLocals, HeldRow, AfterSuccess, Job
  <2>2. TypeDisk' /\ PublishedSucceeded'
    <3>1. CASE UNCHANGED repo
      BY <1>12, <3>1, Frame DEF process_one_publish, disk_vars, db_vars
    <3>2. CASE repo' = [repo EXCEPT ![<<job.name, job.variant>>] = job.build]
      BY <1>0, <1>12, <2>1, <3>2 DEF process_one_publish, IInv, TypeDisk, PublishedSucceeded, BuildIds, db_vars
    <3> QED
      BY <1>12, <3>1, <3>2 DEF process_one_publish
  <2>3. wpc' \in WorkerPc /\ job' \in Job /\ WorkerLocals' /\ HeldRow'
    BY <1>12, <1>0 DEF process_one_publish, ToStep, WorkerPc, WorkerLocals, HeldRow, BeforeFinish,
         AfterSuccess, WakeInstalled, db_vars
  <2>4. TypeTasks'
    BY <1>12, <2>3 DEF process_one_publish, IInv, TypeOK, TypeTasks, api_vars, poll_vars, clean_vars
  <2> QED
    BY <1>12, <2>2, <2>3, <2>4, Frame DEF process_one_publish, IInv, TypeOK
<1>13. CASE process_one_record
  <2>1. job.build \in BuildIds /\ builds[job.build].status \in {"success", "deleted"}
    BY <1>0, <1>13 DEF process_one_record, WorkerLocals, HeldRow, AfterSuccess
  <2>2. /\ builds' \in [BuildIds -> BuildRow]
        /\ \A c \in BuildIds : builds'[c].status = builds[c].status /\ builds'[c].pid = builds[c].pid
        /\ \A c \in BuildIds \ {job.build} : builds'[c] = builds[c]
    <3>1. builds \in [BuildIds -> BuildRow]
      BY <1>0 DEF TypeDb
    <3>2. CASE builds' = record_pkg(builds, job.build)
      BY <2>1, <3>1, <3>2, RecordRows
    <3>3. CASE builds' = builds
      BY <3>1, <3>3
    <3> QED
      BY <1>13, <3>2, <3>3 DEF process_one_record
  <2>3. TypeDb' /\ FreshIds'
    BY <1>13, <2>1, <2>2 DEF process_one_record, IInv, TypeOK, TypeDb, FreshIds, NoBuild
  <2>4. ForeignKeys'
    BY <1>13, <2>2 DEF process_one_record, IInv, ForeignKeys, ForeignKeyOK
  <2>5. PublishedSucceeded'
    BY <1>13, <2>2 DEF process_one_record, IInv, TypeOK, TypeDisk, PublishedSucceeded, disk_vars, BuildIds
  <2>6. WorkerLocals' /\ HeldRow'
    BY <1>0, <1>13, <2>1, <2>2 DEF process_one_record, ToStep, WorkerLocals, HeldRow, BeforeFinish,
         AfterSuccess, WakeInstalled
  <2>7. TypeTasks'
    BY <1>13 DEF process_one_record, ToStep, IInv, TypeOK, TypeTasks, WorkerPc, api_vars, poll_vars, clean_vars
  <2> QED
    BY <1>13, <2>3, <2>4, <2>5, <2>6, <2>7, Frame DEF process_one_record, IInv, TypeOK
<1>14. CASE process_one_head
  <2>0. wpc' \in {"set_ref", "cleanup"} /\ job' \in Job /\ job'.build = job.build
        /\ job'.name = job.name
    <3>1. upstream[job.name] \in Ref
      BY <1>0, <1>14 DEF process_one_head, WorkerLocals, Ref
    <3> QED
      BY <1>0, <1>14, <3>1 DEF process_one_head, ToStep, Job
  <2>1. wpc' \in WorkerPc /\ job' \in Job /\ WorkerLocals' /\ HeldRow'
    BY <1>14, <1>0, <2>0 DEF process_one_head, WorkerPc, WorkerLocals, HeldRow, BeforeFinish,
         AfterSuccess, WakeInstalled, db_vars
  <2> QED
    BY <1>14, <2>1, WorkerMove, Frame DEF process_one_head, disk_vars
<1>15. CASE process_one_set_ref
  <2>1. /\ packages' \in [Names -> PackageRow]
        /\ \A n \in Names : packages'[n].id = packages[n].id
    <3>1. job.head \in Ref
      BY <1>0 DEF Job
    <3> QED
      BY <1>0, <1>15, <3>1, SetRefRows DEF process_one_set_ref, TypeDb
  <2>2. TypeDb' /\ FreshIds' /\ ForeignKeys'
    BY <1>15, <2>1 DEF process_one_set_ref, IInv, TypeOK, TypeDb, FreshIds, ForeignKeys, ForeignKeyOK
  <2>3. wpc' \in WorkerPc /\ job' \in Job /\ WorkerLocals' /\ HeldRow'
    BY <1>15, <1>0 DEF process_one_set_ref, ToStep, WorkerPc, WorkerLocals, HeldRow, BeforeFinish,
         AfterSuccess, WakeInstalled
  <2>4. TypeTasks'
    BY <1>15, <2>3 DEF process_one_set_ref, IInv, TypeOK, TypeTasks, api_vars, poll_vars, clean_vars
  <2> QED
    BY <1>15, <2>2, <2>3, <2>4, Frame DEF process_one_set_ref, IInv, TypeOK, disk_vars
<1>16. CASE process_one_cleanup
  <2>1. TypeDisk' /\ TypeMaps'
    BY <1>16, <1>0 DEF process_one_cleanup, TypeDisk, TypeMaps, token_vars
  <2> QED
    BY <1>16, <2>1, <1>r, WorkerMove DEF process_one_cleanup
<1> QED
  BY <1>1, <1>2, <1>3, <1>4, <1>5, <1>6, <1>7, <1>8, <1>9, <1>10, <1>11, <1>12, <1>13, <1>14,
     <1>15, <1>16 DEF Process

-----------------------------------------------------------------------------
(* The handlers. *)

(* The statements on packages never take an id away from a row that has one,*)
(* but for delete_package.                                                  *)
LEMMA UpsertRows ==
    ASSUME NEW pk \in [Names -> PackageRow], NEW n \in Names, NEW i \in PkgIds,
           NEW auto \in BOOLEAN
    PROVE  LET r == upsert_package(pk, n, auto, i)
           IN  /\ r \in [Names -> PackageRow]
               /\ \A m \in Names : pk[m].id # 0 => r[m].id = pk[m].id
<1>1. CASE pk[n].id # 0
  BY <1>1 DEF upsert_package, PackageRow
<1>2. CASE pk[n].id = 0
  <2>1. [id |-> i, auto |-> auto, variants |-> {"default"}, last_ref |-> 0] \in PackageRow
    BY DEF PackageRow, PkgIds, Variant, Ref
  <2> QED
    BY <1>2, <2>1 DEF upsert_package
<1> QED
  BY <1>1, <1>2

LEMMA SetVariantsRows ==
    ASSUME NEW pk \in [Names -> PackageRow], NEW n \in Names, NEW vs \in SUBSET Variant
    PROVE  LET r == set_variants(pk, n, vs)
           IN  /\ r \in [Names -> PackageRow]
               /\ \A m \in Names : pk[m].id # 0 => r[m].id = pk[m].id
<1>1. vs \cup {"default"} \in SUBSET Variant
  BY DEF Variant
<1> QED
  BY <1>1 DEF set_variants, PackageRow

(* ... so builds keep their packages.                                       *)
LEMMA PackagesGrow ==
    ASSUME IInv, packages' \in [Names -> PackageRow], UNCHANGED <<builds, next_build>>,
           \A n \in Names : packages[n].id # 0 => packages'[n].id = packages[n].id
    PROVE  TypeDb' /\ FreshIds' /\ ForeignKeys'
<1>1. TypeDb' /\ FreshIds'
  BY DEF IInv, TypeOK, TypeDb, FreshIds
<1>2. ForeignKeys'
  BY DEF IInv, ForeignKeys, ForeignKeyOK
<1> QED
  BY <1>1, <1>2

(* The insert of a build only touches a row nobody has ever used.           *)
LEMMA EnqueueRows ==
    ASSUME IInv, NEW i \in 0..MaxPkgIds, NEW t \in Trigger, NEW v \in Variant, Enqueue(i, t, v),
           UNCHANGED <<repo, work_vars>>
    PROVE  TypeDb' /\ FreshIds' /\ ForeignKeys' /\ PublishedSucceeded' /\ HeldRow'
<1>1. /\ builds \in [BuildIds -> BuildRow] /\ next_build \in BuildIds
      /\ builds[next_build].status = "absent"
  BY DEF IInv, TypeOK, TypeDb, FreshIds, NoBuild, Enqueue, CanEnqueue, BuildIds
<1>2. /\ builds' \in [BuildIds -> BuildRow]
      /\ builds'[next_build].pid = i
      /\ \A c \in BuildIds \ {next_build} : builds'[c] = builds[c]
  BY <1>1 DEF Enqueue, enqueue_build, BuildRow, Status, Live
<1>3. TypeDb' /\ FreshIds'
  BY <1>1, <1>2 DEF IInv, TypeOK, TypeDb, FreshIds, Enqueue, BuildIds
<1>4. ForeignKeys'
  BY <1>1, <1>2 DEF IInv, ForeignKeys, ForeignKeyOK, Enqueue
<1>5. PublishedSucceeded'
  BY <1>1, <1>2 DEF IInv, TypeOK, TypeDisk, PublishedSucceeded, BuildIds
<1>6. HeldRow'
  BY <1>1, <1>2 DEF IInv, HeldRow, WorkerLocals, work_vars, BeforeFinish, AfterSuccess
<1> QED
  BY <1>3, <1>4, <1>5, <1>6

(* A handler that suspends at pc with the locals r.                         *)
LEMMA GotoLocals ==
    ASSUME IInv, NEW h \in Handlers, NEW pc \in HandlerPc, NEW r \in Req, Goto(h, pc, r),
           pc \in {"wake", "wake_send"} => r.first \in BuildIds,
           pc = "cancel_token" => r.build \in BuildIds,
           pc \notin {"idle", "cancel_token"} => r.name \in Names,
           pc \in {"add_variants", "variants_set"} => ParseOK(r)
    PROVE  hpc' \in [Handlers -> HandlerPc] /\ req' \in [Handlers -> Req] /\ HandlerLocals'
<1>1. hpc \in [Handlers -> HandlerPc] /\ req \in [Handlers -> Req] /\ HandlerLocals
  BY DEF IInv, TypeOK, TypeTasks
<1>2. hpc' \in [Handlers -> HandlerPc] /\ req' \in [Handlers -> Req]
  BY <1>1 DEF Goto
<1>3. ASSUME NEW k \in Handlers
      PROVE  /\ k = h => hpc'[k] = pc /\ req'[k] = r
             /\ k # h => hpc'[k] = hpc[k] /\ req'[k] = req[k]
  BY <1>1 DEF Goto
<1>4. HandlerLocals'
  BY <1>1, <1>3 DEF HandlerLocals, ParseOK
<1> QED
  BY <1>2, <1>4

LEMMA RespondLocals ==
    ASSUME IInv, NEW h \in Handlers, Respond(h)
    PROVE  hpc' \in [Handlers -> HandlerPc] /\ req' \in [Handlers -> Req] /\ HandlerLocals'
  BY GotoLocals, Defaults DEF Respond, HandlerPc

(* A handler's step keeps IInv if it keeps the parts of it that handlers    *)
(* can reach.                                                               *)
LEMMA HandlerMove ==
    ASSUME IInv, UNCHANGED <<env_vars, boot, log_channels, work_vars, poll_vars, clean_vars>>,
           TypeDb', FreshIds', ForeignKeys', PublishedSucceeded', HeldRow',
           TypeDisk', TypeWake', TypeMaps',
           hpc' \in [Handlers -> HandlerPc], req' \in [Handlers -> Req], HandlerLocals'
    PROVE  IInv'
<1>1. TypeTasks'
  BY DEF IInv, TypeOK, TypeTasks, work_vars, poll_vars, clean_vars
<1> QED
  BY <1>1, Frame DEF IInv, TypeOK

(* NextVariant returns a member of a set that has one.                      *)
LEMMA NextVariantIn ==
    ASSUME NEW vs \in SUBSET Variant
    PROVE  NextVariant(vs) \in Variant
  BY DEF NextVariant, Variant

(* The first step of every handler keeps IInv.                              *)
LEMMA StartStep ==
    ASSUME IInv, NEW h \in Handlers, NEW r \in Requests,
           \/ add_package_upsert(h, r) \/ rebuild_package(h, r) \/ set_package_auto(h, r)
           \/ set_package_variants_read(h, r) \/ delete_package_read(h, r)
           \/ cancel_build_row(h, r)
    PROVE  IInv'
<1> USE DEF api_rest, wake_vars, Receive
<1>0. /\ r \in Req /\ packages \in [Names -> PackageRow] /\ builds \in [BuildIds -> BuildRow]
      /\ r.op = "cancel" => r.build \in BuildIds
      /\ r.op # "cancel" => r.name \in Names
  BY RequestsOK DEF RequestsOK, IInv, TypeOK, TypeDb
<1>v. ASSUME ParseOK(r) PROVE parse_variants_field(r) \in SUBSET Variant
  BY <1>v, <1>0 DEF ParseOK, parse_variants_field, Req, Variant
<1>1. CASE add_package_upsert(h, r)
  <2>1. r.name \in Names /\ r.auto \in BOOLEAN
    BY <1>0, <1>1 DEF add_package_upsert, Req
  <2>2. PICK i \in PkgIds :
          /\ packages' = upsert_package(packages, r.name, r.auto, i)
          /\ IF ParseOK(r) THEN Goto(h, "add_variants", [r EXCEPT !.pid = i]) ELSE Respond(h)
    BY <1>1 DEF add_package_upsert
  <2>3. TypeDb' /\ FreshIds' /\ ForeignKeys'
    <3>1. packages' = upsert_package(packages, r.name, r.auto, i)
      BY <2>2
    <3>2. /\ packages' \in [Names -> PackageRow]
          /\ \A n \in Names : packages[n].id # 0 => packages'[n].id = packages[n].id
      BY <1>0, <2>1, <3>1, UpsertRows
    <3> QED
      BY <1>1, <3>2, PackagesGrow DEF add_package_upsert
  <2>4. hpc' \in [Handlers -> HandlerPc] /\ req' \in [Handlers -> Req] /\ HandlerLocals'
    <3>1. CASE ParseOK(r)
      <4>1. /\ [r EXCEPT !.pid = i] \in Req /\ [r EXCEPT !.pid = i].name \in Names
            /\ ParseOK([r EXCEPT !.pid = i])
        <5>1. i \in 0..MaxPkgIds
          BY DEF PkgIds
        <5>2. [r EXCEPT !.pid = i] \in Req
          BY <1>0, <5>1 DEF Req
        <5>3. [r EXCEPT !.pid = i].name = r.name /\ [r EXCEPT !.pid = i].variants = r.variants
          BY <1>0 DEF Req
        <5> QED
          BY <2>1, <3>1, <5>2, <5>3 DEF ParseOK
      <4> QED
        BY <2>2, <3>1, <4>1, GotoLocals DEF HandlerPc
    <3>2. CASE ~ParseOK(r)
      BY <2>2, <3>2, RespondLocals
    <3> QED
      BY <3>1, <3>2
  <2> QED
    BY <1>1, <2>3, <2>4, HandlerMove, Frame DEF add_package_upsert, disk_vars, token_vars
<1>2. CASE rebuild_package(h, r)
  <2>1. [r EXCEPT !.pid = packages[r.name].id, !.todo = packages[r.name].variants] \in Req
    BY <1>0, <1>2 DEF rebuild_package, Req, PackageRow
  <2>2. hpc' \in [Handlers -> HandlerPc] /\ req' \in [Handlers -> Req] /\ HandlerLocals'
    <3>1. r.name \in Names /\ Goto(h, "enqueue", [r EXCEPT !.pid = packages[r.name].id, !.todo = packages[r.name].variants])
      BY <1>0, <1>2 DEF rebuild_package
    <3>2. [r EXCEPT !.pid = packages[r.name].id, !.todo = packages[r.name].variants].name = r.name
      BY <1>0 DEF Req
    <3> QED
      BY <2>1, <3>1, <3>2, GotoLocals DEF HandlerPc
  <2> QED
    BY <1>2, <2>2, HandlerMove, Frame DEF rebuild_package, disk_vars, token_vars, db_vars
<1>3. CASE set_package_auto(h, r)
  <2>1. r.name \in Names /\ r.auto \in BOOLEAN
    BY <1>0, <1>3 DEF set_package_auto, Req
  <2>2. /\ packages' \in [Names -> PackageRow]
        /\ \A n \in Names : packages[n].id # 0 => packages'[n].id = packages[n].id
    BY <1>0, <1>3, <2>1 DEF set_package_auto, set_auto_rebuild, PackageRow
  <2>3. TypeDb' /\ FreshIds' /\ ForeignKeys'
    BY <1>3, <2>2, PackagesGrow DEF set_package_auto
  <2>4. hpc' \in [Handlers -> HandlerPc] /\ req' \in [Handlers -> Req] /\ HandlerLocals'
    BY <1>3, RespondLocals DEF set_package_auto
  <2> QED
    BY <1>3, <2>3, <2>4, HandlerMove, Frame DEF set_package_auto, disk_vars, token_vars
<1>4. CASE set_package_variants_read(h, r)
  <2> DEFINE q == [r EXCEPT !.pid = packages[r.name].id,
                            !.todo = parse_variants_field(r) \ packages[r.name].variants]
  <2>1. q \in Req /\ q.name \in Names /\ ParseOK(q)
    BY <1>0, <1>4, <1>v DEF set_package_variants_read, Req, PackageRow, ParseOK
  <2>2. Goto(h, "variants_set", q)
    BY <1>4 DEF set_package_variants_read
  <2>3. hpc' \in [Handlers -> HandlerPc] /\ req' \in [Handlers -> Req] /\ HandlerLocals'
    <3> HIDE DEF q
    <3> QED
      BY <2>1, <2>2, GotoLocals DEF HandlerPc
  <2> QED
    BY <1>4, <2>3, HandlerMove, Frame DEF set_package_variants_read, disk_vars, token_vars, db_vars
<1>5. CASE delete_package_read(h, r)
  <2> DEFINE q == [r EXCEPT !.todo = Variant]
  <2>1. q \in Req /\ q.name \in Names
    BY <1>0, <1>5 DEF delete_package_read, Req
  <2>2. Goto(h, "delete_repo", q)
    BY <1>5 DEF delete_package_read
  <2>3. hpc' \in [Handlers -> HandlerPc] /\ req' \in [Handlers -> Req] /\ HandlerLocals'
    <3> HIDE DEF q
    <3> QED
      BY <2>1, <2>2, GotoLocals DEF HandlerPc
  <2> QED
    BY <1>5, <2>3, HandlerMove, Frame DEF delete_package_read, disk_vars, token_vars, db_vars
<1>6. CASE cancel_build_row(h, r)
  <2>1. r.build \in BuildIds /\ builds[r.build].status \in Live
    BY <1>0, <1>6 DEF cancel_build_row, Cancellable
  <2>2. /\ builds' \in [BuildIds -> BuildRow]
        /\ builds'[r.build].status = "cancelled" /\ builds'[r.build].pid = builds[r.build].pid
        /\ \A c \in BuildIds \ {r.build} : builds'[c] = builds[c]
    <3>1. builds' = cancel_build(builds, r.build)
      BY <1>6 DEF cancel_build_row
    <3> QED
      BY <1>0, <2>1, <3>1, CancelRows
  <2>3. TypeDb' /\ FreshIds'
    <3>1. ~(r.build >= next_build)
      BY <2>1 DEF IInv, FreshIds, NoBuild, Live
    <3> QED
      BY <1>6, <2>2, <3>1 DEF cancel_build_row, IInv, TypeOK, TypeDb, FreshIds
  <2>4. ForeignKeys'
    BY <1>6, <2>1, <2>2 DEF cancel_build_row, IInv, ForeignKeys, ForeignKeyOK, Live
  <2>5. PublishedSucceeded'
    BY <1>6, <2>1, <2>2 DEF cancel_build_row, IInv, TypeOK, TypeDisk, PublishedSucceeded, disk_vars, BuildIds, Live
  <2>6. HeldRow'
    BY <1>6, <2>1, <2>2 DEF cancel_build_row, IInv, WorkerLocals, HeldRow, BeforeFinish, AfterSuccess, work_vars, Live
  <2>7. hpc' \in [Handlers -> HandlerPc] /\ req' \in [Handlers -> Req] /\ HandlerLocals'
    BY <1>0, <1>6, <2>1, GotoLocals DEF cancel_build_row, HandlerPc
  <2> QED
    BY <1>6, <2>3, <2>4, <2>5, <2>6, <2>7, HandlerMove, Frame DEF cancel_build_row, disk_vars, token_vars
<1> QED
  BY <1>1, <1>2, <1>3, <1>4, <1>5, <1>6

(* After a wake, set_package_variants starts over with the next variant.    *)
LEMMA ForgetFirst ==
    ASSUME NEW r \in Req
    PROVE  [r EXCEPT !.first = 0] \in Req /\ [r EXCEPT !.first = 0].name = r.name
<1>1. ASSUME NEW b \in 0..MaxBuilds
      PROVE  [r EXCEPT !.first = b] \in Req /\ [r EXCEPT !.first = b].name = r.name
  BY DEF Req
<1>2. 0 \in 0..MaxBuilds
  OBVIOUS
<1> QED
  BY <1>1, <1>2

(* Every later step of a handler keeps IInv, and so does dropping it.       *)
LEMMA ContinueStep ==
    ASSUME IInv, NEW h \in Handlers, Continue(h) \/ drop_handler(h)
    PROVE  IInv'
<1> USE DEF api_rest, wake_vars
<1> DEFINE Moved == hpc' \in [Handlers -> HandlerPc] /\ req' \in [Handlers -> Req] /\ HandlerLocals'
<1>0. /\ req[h] \in Req /\ packages \in [Names -> PackageRow] /\ builds \in [BuildIds -> BuildRow]
      /\ hpc[h] \in {"wake", "wake_send"} => req[h].first \in BuildIds
      /\ hpc[h] = "cancel_token" => req[h].build \in BuildIds
      /\ hpc[h] \notin {"idle", "cancel_token"} => req[h].name \in Names
      /\ hpc[h] \in {"add_variants", "variants_set"} => ParseOK(req[h])
      /\ TypeDb /\ TypeDisk /\ TypeWake /\ TypeMaps
  BY DEF IInv, TypeOK, TypeTasks, TypeDb, HandlerLocals
<1>v. ASSUME ParseOK(req[h]) PROVE parse_variants_field(req[h]) \in SUBSET Variant
  BY <1>v, <1>0 DEF ParseOK, parse_variants_field, Req, Variant
\* The variants handler goes back to its loop after a wake.
<1>b. ASSUME Goto(h, "enqueue", [req[h] EXCEPT !.first = 0]), req[h].name \in Names
      PROVE  Moved
  <2>1. [req[h] EXCEPT !.first = 0] \in Req /\ [req[h] EXCEPT !.first = 0].name \in Names
    BY <1>0, <1>b, ForgetFirst
  <2> QED
    BY <1>b, <2>1, GotoLocals DEF HandlerPc
<1>1. CASE send_wake_lock(h)
  <2>1. Moved
    <3>1. CASE Goto(h, "wake_send", req[h])
      BY <1>0, <1>1, <3>1, GotoLocals DEF send_wake_lock, HandlerPc
    <3>2. CASE Goto(h, "enqueue", [req[h] EXCEPT !.first = 0])
      BY <1>0, <1>1, <1>b, <3>2 DEF send_wake_lock
    <3>3. CASE Respond(h)
      BY <3>3, RespondLocals
    <3> QED
      BY <1>1, <3>1, <3>2, <3>3 DEF send_wake_lock
  <2>2. TypeWake'
    BY <1>0, <1>1 DEF send_wake_lock, TypeWake
  <2> QED
    BY <1>1, <2>1, <2>2, HandlerMove, Frame DEF send_wake_lock, disk_vars, token_vars, db_vars
<1>2. CASE send_wake_send(h)
  <2>1. Moved
    <3>2. CASE Goto(h, "enqueue", [req[h] EXCEPT !.first = 0])
      BY <1>0, <1>2, <1>b, <3>2 DEF send_wake_send
    <3>3. CASE Respond(h)
      BY <3>3, RespondLocals
    <3> QED
      BY <1>2, <3>2, <3>3 DEF send_wake_send
  <2>2. TypeWake'
    BY <1>0, <1>2 DEF send_wake_send, TypeWake
  <2> QED
    BY <1>2, <2>1, <2>2, HandlerMove, Frame DEF send_wake_send, disk_vars, token_vars, db_vars
<1>3. CASE enqueue_one(h)
  <2> DEFINE v == NextVariant(req[h].todo)
             r == [req[h] EXCEPT !.todo  = @ \ {v},
                                 !.first = IF @ = 0 THEN next_build ELSE @]
             t == IF req[h].op = "rebuild" THEN "rebuild" ELSE "manual"
             pc == IF r.op = "variants" \/ r.todo = {} THEN "wake" ELSE "enqueue"
  <2>1. /\ v \in Variant /\ t \in Trigger /\ req[h].pid \in 0..MaxPkgIds /\ req[h].name \in Names
        /\ hpc[h] = "enqueue" /\ next_build \in BuildIds /\ pc \in HandlerPc
        /\ pc \in {"wake", "enqueue"}
    BY <1>0, <1>3, NextVariantIn DEF enqueue_one, Req, Trigger, Enqueue, CanEnqueue, HandlerPc
  <2>2. Enqueue(req[h].pid, t, v) /\ Goto(h, pc, r)
    BY <1>3 DEF enqueue_one
  <2>3. r \in Req /\ r.first \in BuildIds /\ r.name = req[h].name
    <3> DEFINE f == IF req[h].first = 0 THEN next_build ELSE req[h].first
               vs == req[h].todo \ {v}
    <3>1. vs \in SUBSET Variant /\ f \in BuildIds /\ f \in 0..MaxBuilds
      <4>1. req[h].todo \in SUBSET Variant /\ req[h].first \in 0..MaxBuilds
        BY <1>0 DEF Req
      <4> QED
        BY <2>1, <4>1 DEF BuildIds
    <3>2. r = [req[h] EXCEPT !.todo = vs, !.first = f]
      <4> HIDE DEF v
      <4> QED
        BY <1>0 DEF Req
    <3> HIDE DEF r, f, vs
    <3> QED
      BY <1>0, <3>1, <3>2 DEF Req
  <2> HIDE DEF v, r, t, pc
  <2>4. TypeDb' /\ FreshIds' /\ ForeignKeys' /\ PublishedSucceeded' /\ HeldRow'
    BY <1>3, <2>1, <2>2, EnqueueRows DEF enqueue_one, disk_vars
  <2>5. Moved
    BY <2>1, <2>2, <2>3, GotoLocals
  <2> QED
    BY <1>3, <2>4, <2>5, HandlerMove, Frame DEF enqueue_one, disk_vars, token_vars
<1>4. CASE statement_error(h)
  <2>1. Moved
    BY <1>4, RespondLocals DEF statement_error
  <2> QED
    BY <1>4, <2>1, HandlerMove, Frame DEF statement_error, disk_vars, token_vars, db_vars
<1>5. CASE add_package_variants(h)
  <2>1. Moved
    BY <1>0, <1>5, GotoLocals DEF add_package_variants, HandlerPc
  <2>2. TypeDb' /\ FreshIds' /\ ForeignKeys'
    <3>1. packages' = set_variants(packages, req[h].name, parse_variants_field(req[h]))
      BY <1>5 DEF add_package_variants
    <3>2. /\ packages' \in [Names -> PackageRow]
          /\ \A n \in Names : packages[n].id # 0 => packages'[n].id = packages[n].id
      BY <1>0, <1>5, <1>v, <3>1, SetVariantsRows DEF add_package_variants
    <3> QED
      BY <1>5, <3>2, PackagesGrow DEF add_package_variants
  <2> QED
    BY <1>5, <2>1, <2>2, HandlerMove, Frame DEF add_package_variants, disk_vars, token_vars
<1>6. CASE add_package_read(h)
  <2> DEFINE q == [req[h] EXCEPT !.todo = packages[req[h].name].variants]
  <2>1. q \in Req /\ q.name \in Names
    BY <1>0, <1>6 DEF add_package_read, Req, PackageRow
  <2>2. Moved
    <3> HIDE DEF q
    <3>1. Respond(h) \/ Goto(h, "enqueue", q)
      BY <1>6 DEF add_package_read, q
    <3> QED
      BY <2>1, <3>1, GotoLocals, RespondLocals DEF HandlerPc
  <2> QED
    BY <1>6, <2>2, HandlerMove, Frame DEF add_package_read, disk_vars, token_vars, db_vars
<1>7. CASE set_package_variants_write(h)
  <2>1. Moved
    BY <1>0, <1>7, GotoLocals, RespondLocals DEF set_package_variants_write, HandlerPc
  <2>2. TypeDb' /\ FreshIds' /\ ForeignKeys'
    <3>1. packages' = set_variants(packages, req[h].name, parse_variants_field(req[h]))
      BY <1>7 DEF set_package_variants_write
    <3>2. /\ packages' \in [Names -> PackageRow]
          /\ \A n \in Names : packages[n].id # 0 => packages'[n].id = packages[n].id
      BY <1>0, <1>7, <1>v, <3>1, SetVariantsRows DEF set_package_variants_write
    <3> QED
      BY <1>7, <3>2, PackagesGrow DEF set_package_variants_write
  <2> QED
    BY <1>7, <2>1, <2>2, HandlerMove, Frame DEF set_package_variants_write, disk_vars, token_vars
<1>8. CASE delete_package_repo(h)
  <2> DEFINE v == NextVariant(req[h].todo)
             r == [req[h] EXCEPT !.todo = @ \ {v}]
  <2>1. v \in Variant /\ req[h].name \in Names
    BY <1>0, <1>8, NextVariantIn DEF delete_package_repo, Req
  <2>2. r \in Req /\ r.name = req[h].name
    BY <1>0 DEF Req
  <2>3. /\ Goto(h, IF r.todo = {} THEN "delete_row" ELSE "delete_repo", r)
        /\ repo' = [repo EXCEPT ![<<req[h].name, v>>] = 0] \/ repo' = repo
    BY <1>8 DEF delete_package_repo
  <2>4. Moved
    <3> HIDE DEF r
    <3> QED
      BY <2>1, <2>2, <2>3, GotoLocals DEF HandlerPc
  <2>5. TypeDisk' /\ PublishedSucceeded'
    <3> HIDE DEF v
    <3>1. UNCHANGED <<work_dirs, builds>>
      BY <1>8 DEF delete_package_repo, db_vars
    <3>2. CASE repo' = [repo EXCEPT ![<<req[h].name, v>>] = 0]
      BY <1>0, <2>1, <3>1, <3>2 DEF IInv, TypeDisk, PublishedSucceeded
    <3>3. CASE repo' = repo
      BY <3>1, <3>3, Frame DEF disk_vars
    <3> QED
      BY <2>3, <3>2, <3>3
  <2> QED
    BY <1>8, <2>4, <2>5, HandlerMove, Frame DEF delete_package_repo, db_vars
<1>9. CASE delete_package_row(h)
  <2> DEFINE n == req[h].name
             i == packages[n].id
  <2>1. n \in Names
    BY <1>0, <1>9 DEF delete_package_row
  <2>2. Moved
    BY <1>9, RespondLocals DEF delete_package_row
  <2>3. /\ packages' \in [Names -> PackageRow]
        /\ \A m \in Names \ {n} : packages'[m] = packages[m]
    BY <1>0, <1>9, <2>1, Defaults DEF delete_package_row, delete_package
  <2>4. /\ builds' \in [BuildIds -> BuildRow]
        /\ \A b \in BuildIds :
              \/ builds'[b] = builds[b] /\ (builds[b].pid # i \/ builds[b].status = "absent" \/ i = 0)
              \/ builds[b].status # "absent" /\ builds'[b].status = "deleted"
    <3>1. CASE i = 0
      BY <1>0, <1>9, <3>1 DEF delete_package_row
    <3>2. CASE i # 0
      <4>1. builds' = CascadeDelete(builds, i)
        BY <1>9, <3>2 DEF delete_package_row
      <4> HIDE DEF i
      <4> QED
        BY <1>0, <4>1, CascadeRows
    <3> QED
      BY <3>1, <3>2
  <2>5. TypeDb'
    BY <1>0, <1>9, <2>3, <2>4 DEF delete_package_row, TypeDb
  <2>6. FreshIds'
    BY <1>9, <2>4 DEF delete_package_row, IInv, FreshIds, NoBuild
  <2>7. ForeignKeys'
    BY <2>3, <2>4 DEF IInv, ForeignKeys, ForeignKeyOK
  <2>8. PublishedSucceeded'
    BY <1>9, <2>4 DEF delete_package_row, IInv, TypeOK, TypeDisk, PublishedSucceeded, disk_vars, BuildIds
  <2>9. HeldRow'
    BY <1>9, <2>4 DEF delete_package_row, IInv, WorkerLocals, HeldRow, BeforeFinish, AfterSuccess, work_vars
  <2> QED
    BY <1>9, <2>2, <2>5, <2>6, <2>7, <2>8, <2>9, HandlerMove, Frame
       DEF delete_package_row, disk_vars, token_vars
<1>10. CASE cancel_build_token(h)
  <2>1. Moved
    BY <1>10, RespondLocals DEF cancel_build_token
  <2>2. TypeMaps'
    BY <1>0, <1>10 DEF cancel_build_token, TypeMaps
  <2> QED
    BY <1>10, <2>1, <2>2, HandlerMove, Frame DEF cancel_build_token, disk_vars, db_vars
<1>11. CASE drop_handler(h)
  <2>1. Moved
    BY <1>11, RespondLocals DEF drop_handler
  <2>2. TypeWake'
    BY <1>0, <1>11 DEF drop_handler, TypeWake
  <2> QED
    BY <1>11, <2>1, <2>2, HandlerMove, Frame DEF drop_handler, disk_vars, token_vars, db_vars
<1> QED
  BY <1>1, <1>2, <1>3, <1>4, <1>5, <1>6, <1>7, <1>8, <1>9, <1>10, <1>11 DEF Continue

-----------------------------------------------------------------------------
(* The poller, cleanup processes, a crash and the AUR. *)

LEMMA PollStep ==
    ASSUME IInv, PollOnce
    PROVE  IInv'
<1> USE DEF poll_rest
<1>0. /\ packages \in [Names -> PackageRow] /\ builds \in [BuildIds -> BuildRow]
      /\ poll \in Poll /\ ppc \in PollerPc /\ PollerLocals
  BY DEF IInv, TypeOK, TypeDb, TypeTasks
\* All an iteration changes besides the insert is its own locals.
<1>m. ASSUME ppc' \in PollerPc, poll' \in Poll, PollerLocals', UNCHANGED poll_rest,
             TypeDb', FreshIds', ForeignKeys', PublishedSucceeded', HeldRow'
      PROVE  IInv'
  <2>1. TypeTasks'
    BY <1>m DEF IInv, TypeOK, TypeTasks, api_vars, work_vars, clean_vars
  <2> QED
    BY <1>m, <2>1, Frame DEF IInv, TypeOK, wake_vars
<1>n. ASSUME ppc' \in PollerPc, poll' \in Poll, PollerLocals', UNCHANGED poll_rest,
             UNCHANGED db_vars
      PROVE  IInv'
  BY <1>n, <1>m, Frame DEF db_vars, disk_vars
<1>1. CASE poll_once_packages
  <2>1. poll' \in Poll
    BY <1>0, <1>1 DEF poll_once_packages, Poll, NoPoll
  <2> QED
    BY <1>1, <2>1, <1>n DEF poll_once_packages, PollerLocals, PollerPc
<1>p. StatusPids(builds, "queued") \in SUBSET (0..MaxPkgIds)
      /\ StatusPids(builds, "running") \in SUBSET (0..MaxPkgIds)
  BY <1>0 DEF StatusPids, list_builds, BuildRow
<1>2. CASE poll_once_queued \/ poll_once_running
  <2>1. poll' \in Poll
    BY <1>0, <1>2, <1>p DEF poll_once_queued, poll_once_running, Poll
  <2> QED
    BY <1>2, <2>1, <1>n DEF poll_once_queued, poll_once_running, PollerLocals, PollerPc
<1>3. ASSUME NEW n \in Names, poll_once_skip(n) PROVE IInv'
  <2>1. poll' \in Poll
    BY <1>0, <1>3 DEF poll_once_skip, Poll
  <2> QED
    BY <1>0, <1>3, <2>1, <1>n DEF poll_once_skip, PollerLocals
<1>4. ASSUME NEW n \in Names, poll_once_moved(n) PROVE IInv'
  <2>1. poll' \in Poll /\ poll'.at = n
    BY <1>0, <1>4 DEF poll_once_moved, Poll
  <2> QED
    BY <1>4, <2>1, <1>n DEF poll_once_moved, PollerLocals, PollerPc
<1>5. CASE poll_once_enqueue
  <2>1. poll' \in Poll
    BY <1>0, <1>5 DEF poll_once_enqueue, Poll
  <2>2. poll.rows[poll.at].id \in 0..MaxPkgIds
    BY <1>0, <1>5 DEF poll_once_enqueue, PollerLocals, Poll, PackageRow
  <2>3. "poll" \in Trigger /\ "default" \in Variant
    BY DEF Trigger, Variant
  <2>4. TypeDb' /\ FreshIds' /\ ForeignKeys' /\ PublishedSucceeded' /\ HeldRow'
    BY <1>5, <2>2, <2>3, EnqueueRows DEF poll_once_enqueue, disk_vars
  <2> QED
    BY <1>5, <2>1, <2>4, <1>m DEF poll_once_enqueue, PollerLocals, PollerPc
<1>6. CASE poll_once_error
  BY <1>6, <1>n, Defaults DEF poll_once_error, PollerLocals, PollerPc
<1>7. CASE poll_once_done
  BY <1>7, <1>n, Defaults DEF poll_once_done, PollerLocals, PollerPc
<1> QED
  BY <1>1, <1>2, <1>3, <1>4, <1>5, <1>6, <1>7 DEF PollOnce

LEMMA CleanupStep ==
    ASSUME IInv, NEW c \in Cleaners, CleanupWork(c)
    PROVE  IInv'
<1> USE DEF clean_rest
<1>0. /\ cpc \in [Cleaners -> CleanerPc] /\ keep \in [Cleaners -> SUBSET BuildIds] /\ TypeDisk
      /\ IInv
  BY DEF IInv, TypeOK, TypeTasks
<1>1. cpc' \in [Cleaners -> CleanerPc] /\ keep' \in [Cleaners -> SUBSET BuildIds]
  BY <1>0 DEF CleanupWork, run_cleanup_work_list, run_cleanup_work_remove, run_cleanup_work_done,
              CleanerPc, list_builds
<1>2. TypeDisk' /\ UNCHANGED <<repo, clean_rest>>
  BY <1>0 DEF CleanupWork, run_cleanup_work_list, run_cleanup_work_remove, run_cleanup_work_done,
              TypeDisk, disk_vars
<1>3. TypeTasks'
  BY <1>1, <1>2 DEF IInv, TypeOK, TypeTasks, api_vars, work_vars, poll_vars
<1> QED
  BY <1>2, <1>3, Frame DEF IInv, TypeOK, db_vars, wake_vars

LEMMA CrashStep ==
    ASSUME IInv, Crash
    PROVE  IInv'
<1>1. TypeEnv' /\ TypeWake' /\ TypeMaps'
  BY DEF Crash, IInv, TypeOK, TypeEnv, TypeWake, TypeMaps
<1>2. TypeTasks'
  BY Defaults DEF Crash, IInv, TypeOK, TypeTasks, HandlerPc, WorkerPc, PollerPc, clean_vars
<1>3. HandlerLocals' /\ PollerLocals' /\ WorkerLocals' /\ HeldRow'
  BY DEF Crash, HandlerLocals, PollerLocals, WorkerLocals, HeldRow, BeforeFinish, AfterSuccess
<1> QED
  BY <1>1, <1>2, <1>3, Frame DEF Crash, IInv, TypeOK, db_vars, disk_vars

LEMMA PushStep ==
    ASSUME IInv, NEW n \in Names, Push(n)
    PROVE  IInv'
<1>1. TypeEnv'
  BY DEF Push, IInv, TypeOK, TypeEnv
<1>2. TypeTasks'
  BY DEF Push, IInv, TypeOK, TypeTasks, api_vars, work_vars, poll_vars, clean_vars
<1> QED
  BY <1>1, <1>2, Frame DEF Push, IInv, TypeOK, db_vars, disk_vars, wake_vars

LEMMA StutterStep ==
    ASSUME IInv, UNCHANGED vars
    PROVE  IInv'
<1>1. TypeTasks'
  BY DEF vars, IInv, TypeOK, TypeTasks, api_vars, work_vars, poll_vars, clean_vars
<1> QED
  BY <1>1, Frame DEF vars, IInv, TypeOK, db_vars, disk_vars, wake_vars

LEMMA NextIInv == IInv /\ [Next]_vars => IInv'
<1> SUFFICES ASSUME IInv, [Next]_vars PROVE IInv'
  OBVIOUS
<1>1. ASSUME NEW h \in Handlers, Start(h) PROVE IInv'
  BY <1>1, StartStep DEF Start
<1>2. ASSUME NEW h \in Handlers, Continue(h) \/ drop_handler(h) PROVE IInv'
  BY <1>2, ContinueStep
<1>3. CASE Boot \/ Feed
  BY <1>3, BootFeedStep
<1>4. CASE Process
  BY <1>4, ProcessStep
<1>5. CASE PollOnce
  BY <1>5, PollStep
<1>6. ASSUME NEW c \in Cleaners, CleanupWork(c) PROVE IInv'
  BY <1>6, CleanupStep
<1>7. CASE Crash
  BY <1>7, CrashStep
<1>8. ASSUME NEW n \in Names, Push(n) PROVE IInv'
  BY <1>8, PushStep
<1>9. CASE UNCHANGED vars
  BY <1>9, StutterStep
<1> QED
  BY <1>1, <1>2, <1>3, <1>4, <1>5, <1>6, <1>7, <1>8, <1>9 DEF Next

-----------------------------------------------------------------------------
(* Theorems *)

\* The daemon never leaves IInv: whatever handlers, worker, poller, cleanup
\* processes and crashes do, suspended tasks have the locals they will use and
\* the tables agree with the worker's program counter.
THEOREM Invariance == Spec => []IInv
  BY InitIInv, NextIInv, PTL DEF Spec

\* Type correctness of every task and table.
THEOREM TypeCorrect == Spec => []TypeOK
<1>1. IInv => TypeOK
  BY DEF IInv
<1> QED
  BY <1>1, Invariance, PTL

\* What the repository serves was recorded as a success by finish_build, and no
\* cancel, reap or restart changes that row afterwards.
THEOREM PublishedSafe == Spec => []PublishedSucceeded
<1>1. IInv => PublishedSucceeded
  BY DEF IInv
<1> QED
  BY <1>1, Invariance, PTL
=============================================================================
