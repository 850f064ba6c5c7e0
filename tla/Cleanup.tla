------------------------------ MODULE Cleanup -------------------------------
(***************************************************************************)
(* `paur cleanup work` (run_cleanup_work in crates/paur-daemon/src/main.rs)*)
(* a second process, which may run beside the daemon: it lists the running *)
(* builds once and then removes every work directory not in that list.     *)
(***************************************************************************)
EXTENDS DaemonState

clean_rest == <<db_vars, env_vars, wake_vars, token_vars, log_channels, api_vars,
                work_vars, poll_vars>>

run_cleanup_work_list(c) ==
    /\ cpc[c] = "idle"
    /\ cpc' = [cpc EXCEPT ![c] = "removing"]
    /\ keep' = [keep EXCEPT ![c] = list_builds(builds, "running")]
    /\ UNCHANGED <<disk_vars, clean_rest>>

run_cleanup_work_remove(c) ==
    /\ cpc[c] = "removing"
    /\ \E d \in work_dirs \ keep[c] : work_dirs' = work_dirs \ {d}
    /\ UNCHANGED <<repo, cpc, keep, clean_rest>>

run_cleanup_work_done(c) ==
    /\ cpc[c] = "removing"
    /\ cpc' = [cpc EXCEPT ![c] = "idle"]
    /\ keep' = [keep EXCEPT ![c] = {}]
    /\ UNCHANGED <<disk_vars, clean_rest>>

CleanupWork(c) ==
    \/ run_cleanup_work_list(c)
    \/ run_cleanup_work_remove(c)
    \/ run_cleanup_work_done(c)

CleanerPc == {"idle", "removing"}
=============================================================================
