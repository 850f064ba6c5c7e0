------------------------------- MODULE Worker -------------------------------
(***************************************************************************)
(* The build worker (crates/paur-daemon/src/worker.rs): the start-up of    *)
(* worker::run, the wake path that feeds it, and process_one, cut at its   *)
(* awaits.  A `?` in process_one ends it on the spot: whatever the rest of *)
(* the function would have released stays.                                 *)
(***************************************************************************)
EXTENDS DaemonState

work_rest == <<env_vars, api_vars, poll_vars, clean_vars>>

-----------------------------------------------------------------------------
(* worker::run *)

run_reap ==
    /\ boot = "reap"
    /\ builds' = reap_stale_running(builds)
    /\ boot' = "install"
    /\ UNCHANGED <<packages, next_build, wake_lock, api_q, fwd, scan, work_q, woken,
                   token_vars, log_channels, disk_vars, work_vars, work_rest>>

\* *state.wake.lock().await = Some(api_tx)
run_install ==
    /\ boot = "install"
    /\ wake_lock = {}
    /\ boot' = "scan"
    /\ UNCHANGED <<db_vars, wake_lock, api_q, fwd, scan, work_q, woken, token_vars,
                   log_channels, disk_vars, work_vars, work_rest>>

\* Mutant: no start-up scan.
run_without_scan ==
    /\ boot = "scan"
    /\ boot' = "up"
    /\ UNCHANGED <<db_vars, wake_lock, api_q, fwd, scan, work_q, woken, token_vars,
                   log_channels, disk_vars, work_vars, work_rest>>

\* The scanner's one query.  If it fails the task ends and sends nothing.
run_scan ==
    /\ boot = "scan"
    /\ boot' = "up"
    /\ \/ /\ scan' = list_builds(builds, "queued")
          /\ woken' = woken \cup list_builds(builds, "queued")
       \/ "db" \in Faults /\ UNCHANGED <<scan, woken>>
    /\ UNCHANGED <<db_vars, wake_lock, api_q, fwd, work_q, token_vars, log_channels,
                   disk_vars, work_vars, work_rest>>

\* list_builds is ORDER BY queued_at DESC, id DESC: newest first.
NewestFirst(b, s) == b \in s /\ \A c \in s : c <= b

run_scan_send ==
    /\ \E b \in scan :
          /\ NewestFirst(b, scan)
          /\ Len(work_q) < WakeCap
          /\ work_q' = Append(work_q, b)
          /\ scan' = scan \ {b}
    /\ UNCHANGED <<db_vars, boot, wake_lock, api_q, fwd, woken, token_vars, log_channels,
                   disk_vars, work_vars, work_rest>>

forward_recv ==
    /\ fwd = 0
    /\ api_q # <<>>
    /\ fwd' = Head(api_q)
    /\ api_q' = Tail(api_q)
    /\ UNCHANGED <<db_vars, boot, wake_lock, scan, work_q, woken, token_vars, log_channels,
                   disk_vars, work_vars, work_rest>>

\* Mutant: try_send, which drops the id when the channel is full.
forward_try_send ==
    /\ fwd # 0
    /\ work_q' = IF Len(work_q) < WakeCap THEN Append(work_q, fwd) ELSE work_q
    /\ fwd' = 0
    /\ UNCHANGED <<db_vars, boot, wake_lock, api_q, scan, woken, token_vars, log_channels,
                   disk_vars, work_vars, work_rest>>

forward_send ==
    /\ fwd # 0
    /\ Len(work_q) < WakeCap
    /\ work_q' = Append(work_q, fwd)
    /\ fwd' = 0
    /\ UNCHANGED <<db_vars, boot, wake_lock, api_q, scan, woken, token_vars, log_channels,
                   disk_vars, work_vars, work_rest>>

-----------------------------------------------------------------------------
(* run_worker and process_one *)

AtStep(pc) == wpc = pc
ToStep(pc, j) == wpc' = pc /\ job' = j

\* process_one returns, with Ok or with the error run_worker logs.
Return == ToStep("idle", NoJob)

\* Variables only the wake path changes once the id has been received.
wake_path == <<boot, wake_lock, api_q, fwd, scan, work_q, woken>>

run_worker_recv ==
    /\ AtStep("idle")
    /\ WakeInstalled
    /\ work_q # <<>>
    /\ work_q' = Tail(work_q)
    /\ ToStep("claim", [NoJob EXCEPT !.build = Head(work_q)])
    /\ UNCHANGED <<db_vars, boot, wake_lock, api_q, fwd, scan, woken, token_vars,
                   log_channels, disk_vars, work_rest>>

process_one_claim ==
    /\ AtStep("claim")
    /\ IF Claimable(builds, job.build)
       THEN /\ builds' = claim_build_by_id(builds, job.build)
            /\ ToStep("lookup", [job EXCEPT !.pid = builds[job.build].pid,
                                            !.variant = builds[job.build].variant])
       ELSE UNCHANGED builds /\ Return         \* nothing to do
    /\ UNCHANGED <<packages, next_build, wake_path, token_vars, log_channels,
                   disk_vars, work_rest>>

process_one_claim_error ==
    /\ "db" \in Faults
    /\ AtStep("claim")
    /\ Return
    /\ UNCHANGED <<db_vars, wake_path, token_vars, log_channels, disk_vars, work_rest>>

\* list_packages().find(id): the package that holds the id now, if any.
process_one_lookup ==
    /\ AtStep("lookup")
    /\ \/ \E n \in Names : packages[n].id = job.pid
                           /\ ToStep("register", [job EXCEPT !.name = n])
       \/ ~ForeignKeyOK(packages, job.pid) /\ Return
       \/ "db" \in Faults /\ Return
    /\ UNCHANGED <<db_vars, wake_path, token_vars, log_channels, disk_vars, work_rest>>

process_one_register ==
    /\ AtStep("register")
    /\ cancel_tokens' = cancel_tokens \cup {job.build}
    /\ ToStep("spawn", job)
    /\ UNCHANGED <<db_vars, wake_path, fired, log_channels, disk_vars, work_rest>>

\* run_in_container: the work dir is made, the container started, and the
\* AUR repository cloned in it; its output opens the log channel.
run_in_container_spawn ==
    /\ AtStep("spawn")
    /\ work_dirs' = work_dirs \cup {job.build}
    /\ log_channels' = log_channels \cup {job.build}
    /\ ToStep("building", [job EXCEPT !.cloned = upstream[job.name]])
    /\ UNCHANGED <<db_vars, wake_path, token_vars, repo, work_rest>>

\* select! { biased; cancelled => kill, child.wait() => ... }: a fired token
\* wins over an exit that has not been observed yet.  A success lists out/.
run_in_container_exit ==
    /\ AtStep("building")
    /\ \E o \in {"success", "failed", "cancelled"} :
          /\ (o = "cancelled") <=> (job.build \in fired)
          /\ o = "success" => job.build \in work_dirs
          /\ ToStep("drop_token", [job EXCEPT !.outcome = o])
    /\ UNCHANGED <<db_vars, wake_path, token_vars, log_channels, disk_vars, work_rest>>

\* run_in_container(...).await? : spawn or wait failed, or out/ is gone.
run_in_container_error ==
    /\ \/ /\ AtStep("spawn")
          /\ "container" \in Faults
          /\ work_dirs' = work_dirs \cup {job.build}
       \/ /\ AtStep("building")
          /\ "container" \in Faults \/ job.build \notin work_dirs \cup fired
          /\ UNCHANGED work_dirs
    /\ Return
    /\ UNCHANGED <<db_vars, wake_path, token_vars, log_channels, repo, work_rest>>

\* Mutant: the entry stays in the map.
process_one_keep_token ==
    /\ AtStep("drop_token")
    /\ ToStep("finish", job)
    /\ UNCHANGED <<db_vars, wake_path, token_vars, log_channels, disk_vars, work_rest>>

process_one_drop_token ==
    /\ AtStep("drop_token")
    /\ cancel_tokens' = cancel_tokens \ {job.build}
    /\ ToStep("finish", job)
    /\ UNCHANGED <<db_vars, wake_path, fired, log_channels, disk_vars, work_rest>>

\* Mutant: the artifacts are published whatever the outcome.
process_one_finish_publish ==
    /\ AtStep("finish")
    /\ builds' = finish_build(builds, job.build, job.outcome)
    /\ ToStep("publish", job)
    /\ UNCHANGED <<packages, next_build, wake_path, token_vars, log_channels,
                   disk_vars, work_rest>>

process_one_finish ==
    /\ AtStep("finish")
    /\ builds' = finish_build(builds, job.build, job.outcome)
    /\ ToStep(IF job.outcome = "success" THEN "publish" ELSE "cleanup", job)
    /\ UNCHANGED <<packages, next_build, wake_path, token_vars, log_channels,
                   disk_vars, work_rest>>

process_one_finish_error ==
    /\ "db" \in Faults
    /\ AtStep("finish")
    /\ Return
    /\ UNCHANGED <<db_vars, wake_path, token_vars, log_channels, disk_vars, work_rest>>

\* publish_artifacts copies from out/, runs repo-add, then signs.  A failure at
\* any of these is logged and the status left alone.
process_one_publish ==
    LET published == [repo EXCEPT ![<<job.name, job.variant>>] = job.build]
    IN /\ AtStep("publish")
       /\ \/ /\ job.build \in work_dirs
             /\ repo' = published
             /\ ToStep("record", job)
          \/ /\ "publish" \in Faults
             /\ repo' \in {repo, published}
             /\ ToStep("cleanup", job)
          \/ /\ job.build \notin work_dirs
             /\ UNCHANGED repo
             /\ ToStep("cleanup", job)
       /\ UNCHANGED <<db_vars, wake_path, token_vars, log_channels, work_dirs, work_rest>>

\* Skipped without a .SRCINFO version; an error is dropped by .ok().
process_one_record ==
    /\ AtStep("record")
    /\ builds' \in {record_pkg(builds, job.build), builds}
    /\ ToStep("head", job)
    /\ UNCHANGED <<packages, next_build, wake_path, token_vars, log_channels,
                   disk_vars, work_rest>>

\* latest_ref, after the publish, then set_last_ref by package id.
process_one_head ==
    /\ AtStep("head")
    /\ \/ ToStep("set_ref", [job EXCEPT !.head = upstream[job.name]])
       \/ "aur" \in Faults /\ ToStep("cleanup", job)
    /\ UNCHANGED <<db_vars, wake_path, token_vars, log_channels, disk_vars, work_rest>>

process_one_set_ref ==
    /\ AtStep("set_ref")
    /\ \/ packages' = set_last_ref(packages, job.pid, job.head)
       \/ "db" \in Faults /\ UNCHANGED packages \* let _ =
    /\ ToStep("cleanup", job)
    /\ UNCHANGED <<builds, next_build, wake_path, token_vars, log_channels,
                   disk_vars, work_rest>>

process_one_cleanup ==
    /\ AtStep("cleanup")
    /\ log_channels' = log_channels \ {job.build}
    /\ work_dirs' = work_dirs \ {job.build}
    /\ Return
    /\ UNCHANGED <<db_vars, wake_path, token_vars, repo, work_rest>>

Boot    == run_reap \/ run_install \/ run_scan
Feed    == run_scan_send \/ forward_recv \/ forward_send
Process ==
    \/ run_worker_recv
    \/ process_one_claim
    \/ process_one_claim_error
    \/ process_one_lookup
    \/ process_one_register
    \/ run_in_container_spawn
    \/ run_in_container_exit
    \/ run_in_container_error
    \/ process_one_drop_token
    \/ process_one_finish
    \/ process_one_finish_error
    \/ process_one_publish
    \/ process_one_record
    \/ process_one_head
    \/ process_one_set_ref
    \/ process_one_cleanup

WorkerPc == {"idle", "claim", "lookup", "register", "spawn", "building", "drop_token",
             "finish", "publish", "record", "head", "set_ref", "cleanup"}
=============================================================================
