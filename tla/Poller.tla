------------------------------- MODULE Poller -------------------------------
(***************************************************************************)
(* The AUR poller (crates/paur-daemon/src/poller.rs).  One iteration lists *)
(* the packages, then the live builds, and then asks AUR about one package *)
(* after the other, deciding each against those two snapshots.  Nothing    *)
(* here sends a wake.                                                      *)
(***************************************************************************)
EXTENDS DaemonState

poll_rest == <<disk_vars, env_vars, wake_vars, token_vars, log_channels, api_vars,
               work_vars, clean_vars>>

\* list_packages.  An iteration with no auto_rebuild package does nothing.
poll_once_packages ==
    /\ ppc = "idle"
    /\ \E n \in Names : packages[n].auto
    /\ ppc' = "queued"
    /\ poll' = [NoPoll EXCEPT !.rows = packages,
                              !.todo = {n \in Names : packages[n].auto}]
    /\ UNCHANGED <<db_vars, poll_rest>>

\* The live builds are read in two statements, the queued ones first: a build
\* claimed between the two is in the second.
StatusPids(bs, s) == {bs[b].pid : b \in list_builds(bs, s)}

\* Mutant: the running builds first.
poll_once_running_first ==
    /\ ppc = "queued"
    /\ ppc' = "running"
    /\ poll' = [poll EXCEPT !.live = StatusPids(builds, "running")]
    /\ UNCHANGED <<db_vars, poll_rest>>

poll_once_queued ==
    /\ ppc = "queued"
    /\ ppc' = "running"
    /\ poll' = [poll EXCEPT !.live = StatusPids(builds, "queued")]
    /\ UNCHANGED <<db_vars, poll_rest>>

poll_once_running ==
    /\ ppc = "running"
    /\ ppc' = "check"
    /\ poll' = [poll EXCEPT !.live = @ \cup StatusPids(builds, "running")]
    /\ UNCHANGED <<db_vars, poll_rest>>

\* `continue`: a live build, an AUR failure, or a ref that has not moved.
Skip(n) == \/ poll.rows[n].id \in poll.live
           \/ "aur" \in Faults
           \/ upstream[n] = poll.rows[n].last_ref

poll_once_skip(n) ==
    /\ ppc = "check"
    /\ n \in poll.todo
    /\ Skip(n)
    /\ poll' = [poll EXCEPT !.todo = @ \ {n}]
    /\ UNCHANGED <<db_vars, ppc, poll_rest>>

\* The ref has moved: the next statement is the insert for n.
poll_once_moved(n) ==
    /\ ppc = "check"
    /\ n \in poll.todo
    /\ poll.rows[n].id \notin poll.live
    /\ upstream[n] # poll.rows[n].last_ref
    /\ ppc' = "enqueue"
    /\ poll' = [poll EXCEPT !.todo = @ \ {n}, !.at = n]
    /\ UNCHANGED <<db_vars, poll_rest>>

poll_once_enqueue ==
    /\ ppc = "enqueue"
    /\ Enqueue(poll.rows[poll.at].id, "poll", "default")
    /\ ppc' = "check"
    /\ poll' = [poll EXCEPT !.at = ""]
    /\ UNCHANGED poll_rest

\* `?`: a statement failed, or the package of the build to insert is gone; the
\* iteration ends.
poll_once_error ==
    /\ \/ "db" \in Faults /\ ppc \in {"queued", "running", "enqueue"}
       \/ ppc = "enqueue" /\ ~ForeignKeyOK(packages, poll.rows[poll.at].id)
    /\ ppc' = "idle"
    /\ poll' = NoPoll
    /\ UNCHANGED <<db_vars, poll_rest>>

poll_once_done ==
    /\ ppc = "check"
    /\ poll.todo = {}
    /\ ppc' = "idle"
    /\ poll' = NoPoll
    /\ UNCHANGED <<db_vars, poll_rest>>

PollOnce ==
    \/ poll_once_packages
    \/ poll_once_queued
    \/ poll_once_running
    \/ \E n \in Names : poll_once_skip(n) \/ poll_once_moved(n)
    \/ poll_once_enqueue
    \/ poll_once_error
    \/ poll_once_done

PollerPc == {"idle", "queued", "running", "check", "enqueue"}
=============================================================================
