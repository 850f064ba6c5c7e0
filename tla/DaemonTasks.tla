---------------------------- MODULE DaemonTasks -----------------------------
(***************************************************************************)
(* What the tasks owe each other, whatever they do in between.  No wake is *)
(* lost: an id a handler or the start-up scanner undertook to deliver stays*)
(* on its way to the worker until its row leaves the queue.  process_one   *)
(* gives back the token and the log channel it registered.  And the poller *)
(* never has two live builds of one package.                               *)
(***************************************************************************)
EXTENDS DaemonRefinement

(***************************************************************************)
(* Wakes                                                                   *)
(***************************************************************************)


(* Runs in which nothing takes an id off the path for good: a failing scan  *)
(* or claim, or a handler dropped while it waits for room in the channel.   *)
NoDrop == "db" \notin Faults /\ "disconnect" \notin Faults

(* The ids on the path, and those handlers remember, have been handed out,  *)
(* so no insert makes one of them queued again.                             *)
Issued ==
    /\ \A b \in woken : builds[b].status # "absent"
    /\ \A h \in Handlers : req[h].first # 0 => builds[req[h].first].status # "absent"

WInv == NoWakeLost /\ Issued

-----------------------------------------------------------------------------
(* Only an insert queues a row, and only one that was absent.               *)
LEMMA QueuedStep ==
    ASSUME LStep, NEW b \in BuildIds
    PROVE  /\ builds'[b].status = "queued" => builds[b].status \in {"queued", "absent"}
           /\ builds[b].status # "absent" => builds'[b].status # "absent"
<1> DEFINE st == [c \in BuildIds |-> builds[c].status]
<1>0. st[b] = builds[b].status /\ st'[b] = builds'[b].status
  OBVIOUS
<1>1. CASE UNCHANGED Lifecycle!lvars \/ Lifecycle!Release
  BY <1>0, <1>1 DEF Lifecycle!lvars, Lifecycle!Release
<1>2. ASSUME NEW c \in BuildIds, Lifecycle!Queue(c) \/ Lifecycle!Cancel(c) \/ Lifecycle!Claim(c)
      PROVE  /\ builds'[b].status = "queued" => builds[b].status \in {"queued", "absent"}
             /\ builds[b].status # "absent" => builds'[b].status # "absent"
  BY <1>0, <1>2 DEF Lifecycle!Queue, Lifecycle!Cancel, Lifecycle!Claim
<1>3. ASSUME NEW s \in Lifecycle!Ended, Lifecycle!Settle(s)
      PROVE  /\ builds'[b].status = "queued" => builds[b].status \in {"queued", "absent"}
             /\ builds[b].status # "absent" => builds'[b].status # "absent"
  BY <1>0, <1>3 DEF Lifecycle!Settle, Lifecycle!Ended
<1>4. CASE Lifecycle!Reap
  BY <1>0, <1>4 DEF Lifecycle!Reap
<1>5. ASSUME NEW S \in SUBSET BuildIds, Lifecycle!Delete(S)
      PROVE  /\ builds'[b].status = "queued" => builds[b].status \in {"queued", "absent"}
             /\ builds[b].status # "absent" => builds'[b].status # "absent"
  BY <1>0, <1>5 DEF Lifecycle!Delete
<1> QED
  BY <1>1, <1>2, <1>3, <1>4, <1>5 DEF LStep, Lifecycle!Next

LEMMA InAppend ==
    ASSUME NEW S, NEW s \in Seq(S), NEW e \in S, NEW x
    PROVE  InSeq(x, Append(s, e)) <=> InSeq(x, s) \/ x = e
<1>1. /\ Len(Append(s, e)) = Len(s) + 1 /\ Append(s, e)[Len(s) + 1] = e
      /\ \A i \in 1..Len(s) : Append(s, e)[i] = s[i]
      /\ Len(s) \in Nat
  OBVIOUS
<1> QED
  BY <1>1 DEF InSeq

LEMMA InTail ==
    ASSUME NEW S, NEW s \in Seq(S), s # <<>>, NEW x, InSeq(x, s)
    PROVE  x = Head(s) \/ InSeq(x, Tail(s))
<1>1. Len(Tail(s)) = Len(s) - 1 /\ \A i \in 1..Len(Tail(s)) : Tail(s)[i] = s[i + 1]
  OBVIOUS
<1>2. PICK i \in 1..Len(s) : s[i] = x
  BY DEF InSeq
<1>3. CASE i = 1
  BY <1>2, <1>3
<1>4. CASE i # 1
  <2>1. i - 1 \in 1..Len(Tail(s)) /\ Tail(s)[i - 1] = x
    BY <1>1, <1>2, <1>4
  <2> QED
    BY <2>1 DEF InSeq
<1> QED
  BY <1>3, <1>4

-----------------------------------------------------------------------------
(* Steps that do not touch the path.                                        *)

(* A handler that waits for room in the channel stays where it is, the      *)
(* channels and the sender too, and the worker keeps an id it is to claim.  *)
PathKept ==
    /\ UNCHANGED wake_vars
    /\ \A h \in Handlers : hpc[h] = "wake_send" => hpc'[h] = hpc[h] /\ req'[h] = req[h]
    /\ wpc = "claim" => UNCHANGED work_vars

LEMMA KeptInFlight ==
    ASSUME PathKept, NEW b, InFlight(b)
    PROVE  InFlight(b)'
  BY DEF PathKept, InFlight, wake_vars, work_vars, InSeq

(* The steps that do.                                                       *)
PathStep ==
    \/ \E h \in Handlers : send_wake_lock(h) \/ send_wake_send(h)
    \/ Boot \/ Feed \/ run_worker_recv \/ process_one_claim \/ Crash

(* A handler that is not waiting for room moves on without the path.        *)
LEMMA OtherHandler ==
    ASSUME IInv, NEW h \in Handlers, NEW pc, NEW r, hpc[h] # "wake_send", Goto(h, pc, r),
           UNCHANGED <<wake_vars, work_vars>>
    PROVE  PathKept
<1>1. hpc \in [Handlers -> HandlerPc] /\ req \in [Handlers -> Req]
  BY DEF IInv, TypeOK, TypeTasks
<1> QED
  BY <1>1 DEF Goto, PathKept

LEMMA PathFrame ==
    ASSUME NoDrop, IInv, [Next]_vars, ~PathStep
    PROVE  PathKept
<1> USE DEF api_rest, wake_vars, poll_rest, clean_rest
<1>1. ASSUME NEW h \in Handlers, NEW r \in Requests,
             \/ add_package_upsert(h, r) \/ rebuild_package(h, r) \/ set_package_auto(h, r)
             \/ set_package_variants_read(h, r) \/ delete_package_read(h, r)
             \/ cancel_build_row(h, r)
      PROVE  PathKept
  <2>1. hpc[h] # "wake_send" /\ UNCHANGED <<wake_vars, work_vars>>
    BY <1>1 DEF add_package_upsert, rebuild_package, set_package_auto, set_package_variants_read,
         delete_package_read, cancel_build_row, Receive
  <2>2. \E pc, q : Goto(h, pc, q)
    BY <1>1 DEF add_package_upsert, rebuild_package, set_package_auto, set_package_variants_read,
         delete_package_read, cancel_build_row, Respond
  <2> QED
    BY <2>1, <2>2, OtherHandler
<1>2. ASSUME NEW h \in Handlers,
             \/ enqueue_one(h) \/ statement_error(h) \/ add_package_variants(h)
             \/ add_package_read(h) \/ set_package_variants_write(h)
             \/ delete_package_repo(h) \/ delete_package_row(h) \/ cancel_build_token(h)
      PROVE  PathKept
  <2>1. hpc[h] # "wake_send" /\ UNCHANGED <<wake_vars, work_vars>>
    BY <1>2 DEF enqueue_one, statement_error, add_package_variants, add_package_read,
         set_package_variants_write, delete_package_repo, delete_package_row, cancel_build_token
  <2>2. \E pc, q : Goto(h, pc, q)
    BY <1>2 DEF enqueue_one, statement_error, add_package_variants, add_package_read,
         set_package_variants_write, delete_package_repo, delete_package_row, cancel_build_token,
         Respond
  <2> QED
    BY <2>1, <2>2, OtherHandler
<1>3. ASSUME NEW h \in Handlers, drop_handler(h) PROVE FALSE
  BY <1>3 DEF drop_handler, NoDrop
<1>4. CASE Process
  <2>1. wpc # "claim"
    BY <1>4 DEF Process, PathStep, run_worker_recv, process_one_claim, process_one_claim_error,
         process_one_lookup, process_one_register, run_in_container_spawn, run_in_container_exit,
         run_in_container_error, process_one_drop_token, process_one_finish,
         process_one_finish_error, process_one_publish, process_one_record, process_one_head,
         process_one_set_ref, process_one_cleanup, AtStep, NoDrop
  <2>2. UNCHANGED <<wake_vars, api_vars>>
    BY <1>4 DEF Process, PathStep, process_one_claim_error,
         process_one_lookup, process_one_register, run_in_container_spawn, run_in_container_exit,
         run_in_container_error, process_one_drop_token, process_one_finish,
         process_one_finish_error, process_one_publish, process_one_record, process_one_head,
         process_one_set_ref, process_one_cleanup, wake_path, work_rest
  <2> QED
    BY <2>1, <2>2 DEF PathKept, api_vars
<1>5. CASE PollOnce
  <2>1. UNCHANGED <<wake_vars, api_vars, work_vars>>
    BY <1>5 DEF PollOnce, poll_once_packages, poll_once_queued, poll_once_running, poll_once_skip,
         poll_once_moved, poll_once_enqueue, poll_once_error, poll_once_done
  <2> QED
    BY <2>1 DEF PathKept, api_vars
<1>6. ASSUME NEW c \in Cleaners, CleanupWork(c) PROVE PathKept
  BY <1>6 DEF CleanupWork, run_cleanup_work_list, run_cleanup_work_remove, run_cleanup_work_done,
       PathKept, api_vars
<1>7. CASE (\E n \in Names : Push(n)) \/ UNCHANGED vars
  BY <1>7 DEF Push, vars, PathKept, api_vars
<1> QED
  BY <1>1, <1>2, <1>3, <1>4, <1>5, <1>6, <1>7 DEF Next, PathStep, Start, Continue

-----------------------------------------------------------------------------
(* Handed-out ids stay handed out.                                          *)

(* A handler's remembered id changes only to 0 or to the row it inserted.   *)
LEMMA FirstStep ==
    ASSUME IInv, [Next]_vars, NEW k \in Handlers
    PROVE  \/ req'[k].first = 0 \/ req'[k].first = req[k].first
           \/ req'[k].first \in BuildIds /\ builds'[req'[k].first].status = "queued"
<1> USE DEF api_rest, poll_rest, clean_rest, work_rest
<1> DEFINE OK == \/ req'[k].first = 0 \/ req'[k].first = req[k].first
                 \/ req'[k].first \in BuildIds /\ builds'[req'[k].first].status = "queued"
<1>0. req \in [Handlers -> Req] /\ builds \in [BuildIds -> BuildRow]
  BY DEF IInv, TypeOK, TypeTasks, TypeDb
<1>a. ASSUME NEW h \in Handlers, Respond(h) PROVE OK
  BY <1>0, <1>a DEF Respond, Goto, NoReq
<1>b. ASSUME NEW h \in Handlers, NEW pc, NEW r, Goto(h, pc, r), r.first \in {0, req[h].first}
      PROVE  OK
  BY <1>0, <1>b DEF Goto
<1>1. ASSUME NEW h \in Handlers, NEW r \in Requests,
             \/ add_package_upsert(h, r) \/ rebuild_package(h, r) \/ set_package_auto(h, r)
             \/ set_package_variants_read(h, r) \/ delete_package_read(h, r)
             \/ cancel_build_row(h, r)
      PROVE  OK
  <2>0. r \in Req /\ r.first = 0
    BY RequestsOK DEF RequestsOK
  <2>1. CASE add_package_upsert(h, r)
    BY <1>a, <1>b, <2>0, <2>1 DEF add_package_upsert, Req
  <2>2. CASE rebuild_package(h, r)
    BY <1>a, <1>b, <2>0, <2>2 DEF rebuild_package, Req
  <2>3. CASE set_package_auto(h, r) \/ cancel_build_row(h, r)
    BY <1>a, <1>b, <2>0, <2>3 DEF set_package_auto, cancel_build_row
  <2>4. CASE set_package_variants_read(h, r)
    BY <1>a, <1>b, <2>0, <2>4 DEF set_package_variants_read, Req
  <2>5. CASE delete_package_read(h, r)
    BY <1>a, <1>b, <2>0, <2>5 DEF delete_package_read, Req
  <2> QED
    BY <1>1, <2>1, <2>2, <2>3, <2>4, <2>5
<1>2. ASSUME NEW h \in Handlers,
             \/ statement_error(h) \/ add_package_variants(h) \/ add_package_read(h)
             \/ set_package_variants_write(h) \/ delete_package_repo(h)
             \/ delete_package_row(h) \/ cancel_build_token(h) \/ drop_handler(h)
             \/ send_wake_lock(h) \/ send_wake_send(h)
      PROVE  OK
  <2>0. req[h] \in Req
    BY <1>0
  <2>1. CASE statement_error(h) \/ delete_package_row(h) \/ cancel_build_token(h) \/ drop_handler(h)
    BY <1>a, <2>1 DEF statement_error, delete_package_row, cancel_build_token, drop_handler
  <2>2. CASE add_package_variants(h) \/ set_package_variants_write(h)
    BY <1>a, <1>b, <2>0, <2>2 DEF add_package_variants, set_package_variants_write
  <2>3. CASE add_package_read(h)
    BY <1>a, <1>b, <2>0, <2>3 DEF add_package_read, Req
  <2>4. CASE delete_package_repo(h)
    BY <1>a, <1>b, <2>0, <2>4 DEF delete_package_repo, Req
  <2>5. CASE send_wake_lock(h)
    BY <1>a, <1>b, <2>0, <2>5 DEF send_wake_lock, Req
  <2>6. CASE send_wake_send(h)
    BY <1>a, <1>b, <2>0, <2>6 DEF send_wake_send, Req
  <2> QED
    BY <1>2, <2>1, <2>2, <2>3, <2>4, <2>5, <2>6
<1>3. ASSUME NEW h \in Handlers, enqueue_one(h) PROVE OK
  <2>0. req[h] \in Req /\ next_build \in BuildIds
    BY <1>0, <1>3 DEF enqueue_one, Enqueue, CanEnqueue
  <2>1. builds'[next_build].status = "queued"
    BY <1>0, <1>3, <2>0 DEF enqueue_one, Enqueue, enqueue_build
  <2>2. CASE k = h
    <3>1. req'[h].first \in {next_build, req[h].first}
      BY <1>0, <1>3, <2>0 DEF enqueue_one, Goto, Req
    <3> QED
      BY <2>0, <2>1, <2>2, <3>1
  <2>3. CASE k # h
    BY <1>0, <1>3, <2>3 DEF enqueue_one, Goto
  <2> QED
    BY <2>2, <2>3
<1>4. CASE Boot \/ Feed \/ PollOnce \/ (\E c \in Cleaners : CleanupWork(c))
           \/ (\E n \in Names : Push(n)) \/ UNCHANGED vars
  <2>1. UNCHANGED api_vars
    BY <1>4 DEF Boot, Feed, run_reap, run_install, run_scan, run_scan_send, forward_recv,
         forward_send, PollOnce, poll_once_packages, poll_once_queued, poll_once_running,
         poll_once_skip, poll_once_moved, poll_once_enqueue, poll_once_error, poll_once_done,
         CleanupWork, run_cleanup_work_list, run_cleanup_work_remove, run_cleanup_work_done,
         Push, vars
  <2> QED
    BY <2>1 DEF api_vars
<1>5. CASE Process
  <2>1. UNCHANGED api_vars
    BY <1>5 DEF Process, run_worker_recv, process_one_claim, process_one_claim_error,
         process_one_lookup, process_one_register, run_in_container_spawn, run_in_container_exit,
         run_in_container_error, process_one_drop_token, process_one_finish,
         process_one_finish_error, process_one_publish, process_one_record, process_one_head,
         process_one_set_ref, process_one_cleanup
  <2> QED
    BY <2>1 DEF api_vars
<1>6. CASE Crash
  BY <1>6 DEF Crash, NoReq
<1> QED
  BY <1>1, <1>2, <1>3, <1>4, <1>5, <1>6 DEF Next, Start, Continue

(* What joins the promised ids: a handler's first, or what a scan found.    *)
LEMMA WokenStep ==
    ASSUME NoDrop, IInv, [Next]_vars, NEW b \in woken', b \notin woken
    PROVE  \/ run_scan /\ builds[b].status = "queued"
           \/ \E h \in Handlers : send_wake_lock(h) /\ b = req[h].first
<1>1. CASE PathStep
  BY <1>1 DEF PathStep, Boot, Feed, run_reap, run_install, run_scan, run_scan_send, forward_recv,
       forward_send, run_worker_recv, process_one_claim, Crash, send_wake_lock, send_wake_send,
       wake_path, NoDrop, list_builds
<1>2. CASE ~PathStep
  BY <1>2, PathFrame DEF PathKept, wake_vars
<1> QED
  BY <1>1, <1>2

LEMMA IssuedStep ==
    ASSUME NoDrop, IInv, Issued, [Next]_vars
    PROVE  Issued'
<1>0. /\ woken \subseteq BuildIds /\ req \in [Handlers -> Req]
      /\ woken' \subseteq BuildIds /\ req' \in [Handlers -> Req]
  BY NextIInv DEF IInv, TypeOK, TypeWake, TypeTasks
<1>1. \A b \in BuildIds : builds[b].status # "absent" => builds'[b].status # "absent"
  BY StepRefines, QueuedStep
<1>2. \A k \in Handlers : req[k].first \in 0..MaxBuilds /\ req'[k].first \in 0..MaxBuilds
  BY <1>0 DEF Req
<1>3. ASSUME NEW b \in woken' PROVE builds'[b].status # "absent"
  <2>1. CASE b \in woken
    BY <1>0, <1>1, <2>1 DEF Issued
  <2>2. CASE run_scan /\ builds[b].status = "queued"
    BY <1>0, <1>1, <1>3, <2>2
  <2>3. ASSUME NEW h \in Handlers, send_wake_lock(h), b = req[h].first
        PROVE  builds'[b].status # "absent"
    <3>1. b # 0
      BY <1>0, <1>3 DEF BuildIds
    <3> QED
      BY <1>0, <1>1, <1>3, <2>3, <3>1 DEF Issued
  <2> QED
    BY <2>1, <2>2, <2>3, WokenStep
<1>4. ASSUME NEW k \in Handlers, req'[k].first # 0 PROVE builds'[req'[k].first].status # "absent"
  <2>1. req'[k].first \in BuildIds
    BY <1>2, <1>4, DbBounds DEF BuildIds, DbBounds
  <2>2. CASE req'[k].first = req[k].first
    BY <1>1, <1>4, <2>1, <2>2 DEF Issued
  <2> QED
    BY <1>4, <2>2, FirstStep
<1> QED
  BY <1>3, <1>4 DEF Issued

-----------------------------------------------------------------------------
(* The steps along the path: each takes an id from one place to the next.   *)

LEMMA PathInFlight ==
    ASSUME NoDrop, IInv, PathStep, NEW b \in BuildIds, builds[b].status = "queued",
           builds'[b].status = "queued", boot # "up" \/ InFlight(b)
    PROVE  (boot # "up")' \/ InFlight(b)'
<1> USE DEF work_rest
<1>0. /\ api_q \in Seq(BuildIds) /\ work_q \in Seq(BuildIds)
      /\ hpc \in [Handlers -> HandlerPc] /\ req \in [Handlers -> Req] /\ job \in Job
      /\ fwd \in 0..MaxBuilds /\ b # 0
  BY DEF IInv, TypeOK, TypeWake, TypeTasks, BuildIds
<1>1. ASSUME NEW h \in Handlers, send_wake_lock(h) PROVE (boot # "up")' \/ InFlight(b)'
  <2>1. /\ UNCHANGED <<boot, api_q, fwd, scan, work_q, wpc, job>>
        /\ \A k \in Handlers : hpc[k] = "wake_send" => hpc'[k] = hpc[k] /\ req'[k] = req[k]
    BY <1>0, <1>1 DEF send_wake_lock, api_rest, work_vars, Goto, Respond
  <2> QED
    BY <2>1 DEF InFlight, InSeq
<1>2. ASSUME NEW h \in Handlers, send_wake_send(h) PROVE (boot # "up")' \/ InFlight(b)'
  <2>1. /\ UNCHANGED <<boot, fwd, scan, work_q, wpc, job>>
        /\ api_q' = Append(api_q, req[h].first) /\ hpc[h] = "wake_send"
        /\ \A k \in Handlers : k # h => hpc'[k] = hpc[k] /\ req'[k] = req[k]
    BY <1>0, <1>2 DEF send_wake_send, api_rest, work_vars, Goto, Respond
  <2>2. req[h].first \in BuildIds
    BY <2>1 DEF IInv, HandlerLocals
  <2>3. InSeq(b, api_q') <=> InSeq(b, api_q) \/ b = req[h].first
    BY <1>0, <2>1, <2>2, InAppend
  <2> QED
    BY <2>1, <2>3 DEF InFlight, InSeq
<1>3. CASE run_reap \/ run_install
  BY <1>3 DEF run_reap, run_install
<1>4. CASE run_scan
  BY <1>4 DEF run_scan, NoDrop, list_builds, InFlight
<1>5. CASE run_scan_send
  <2>1. PICK c \in scan : work_q' = Append(work_q, c) /\ scan' = scan \ {c}
    BY <1>5 DEF run_scan_send
  <2>2. c \in BuildIds
    BY DEF IInv, TypeOK, TypeWake
  <2>3. UNCHANGED <<boot, api_q, fwd, hpc, req, wpc, job>>
    BY <1>5 DEF run_scan_send, api_vars, work_vars
  <2>4. InSeq(b, work_q') <=> InSeq(b, work_q) \/ b = c
    BY <1>0, <2>1, <2>2, InAppend
  <2> QED
    BY <2>1, <2>3, <2>4 DEF InFlight, InSeq
<1>6. CASE forward_recv
  <2>1. /\ UNCHANGED <<boot, scan, work_q, hpc, req, wpc, job>> /\ fwd = 0 /\ api_q # <<>>
        /\ fwd' = Head(api_q) /\ api_q' = Tail(api_q)
    BY <1>6 DEF forward_recv, api_vars, work_vars
  <2>2. InSeq(b, api_q) => b = fwd' \/ InSeq(b, api_q')
    BY <1>0, <2>1, InTail
  <2> QED
    BY <1>0, <2>1, <2>2 DEF InFlight, InSeq
<1>7. CASE forward_send
  <2>1. /\ UNCHANGED <<boot, scan, api_q, hpc, req, wpc, job>> /\ fwd # 0
        /\ work_q' = Append(work_q, fwd)
    BY <1>7 DEF forward_send, api_vars, work_vars
  <2>2. InSeq(b, work_q') <=> InSeq(b, work_q) \/ b = fwd
    <3>1. fwd \in BuildIds
      BY <1>0, <2>1, DbBounds DEF BuildIds, DbBounds
    <3> QED
      BY <1>0, <2>1, <3>1, InAppend
  <2> QED
    BY <2>1, <2>2 DEF InFlight, InSeq
<1>8. CASE run_worker_recv
  <2>1. /\ UNCHANGED <<boot, scan, api_q, fwd, hpc, req>> /\ work_q # <<>> /\ wpc = "idle"
        /\ work_q' = Tail(work_q) /\ wpc' = "claim" /\ job'.build = Head(work_q)
    BY <1>8 DEF run_worker_recv, api_vars, AtStep, ToStep, NoJob
  <2>2. InSeq(b, work_q) => b = job'.build \/ InSeq(b, work_q')
    BY <1>0, <2>1, InTail
  <2> QED
    BY <2>1, <2>2 DEF InFlight, InSeq
<1>9. CASE process_one_claim
  <2>1. UNCHANGED <<boot, scan, api_q, fwd, work_q, hpc, req>>
    BY <1>9 DEF process_one_claim, wake_path, api_vars
  <2>2. job.build # b
    <3>1. builds \in [BuildIds -> BuildRow]
      BY DEF IInv, TypeOK, TypeDb
    <3>2. ASSUME job.build = b PROVE builds' = claim_build_by_id(builds, b)
      BY <1>9, <3>2 DEF process_one_claim, Claimable
    <3> QED
      BY <3>1, <3>2, ClaimRows
  <2> QED
    BY <2>1, <2>2 DEF InFlight, InSeq
<1>10. CASE Crash
  BY <1>10 DEF Crash
<1> QED
  BY <1>1, <1>2, <1>3, <1>4, <1>5, <1>6, <1>7, <1>8, <1>9, <1>10 DEF PathStep, Boot, Feed

(* A promise made in this step is kept in this step.                        *)
LEMMA NewInFlight ==
    ASSUME NoDrop, IInv, [Next]_vars, NEW b \in woken', b \notin woken,
           builds'[b].status = "queued"
    PROVE  (boot # "up")' \/ InFlight(b)'
<1>1. CASE run_scan /\ builds[b].status = "queued"
  <2>1. woken' = woken \cup scan'
    BY <1>1 DEF run_scan, NoDrop
  <2> QED
    BY <2>1 DEF InFlight
<1>2. ASSUME NEW h \in Handlers, send_wake_lock(h), b = req[h].first
      PROVE  (boot # "up")' \/ InFlight(b)'
  <2>0. hpc \in [Handlers -> HandlerPc] /\ req \in [Handlers -> Req]
    BY DEF IInv, TypeOK, TypeTasks
  <2>1. CASE WakeInstalled
    BY <1>2, <2>0, <2>1 DEF send_wake_lock, Goto, InFlight
  <2>2. CASE ~WakeInstalled
    BY <1>2, <2>2 DEF send_wake_lock, WakeInstalled
  <2> QED
    BY <2>1, <2>2
<1> QED
  BY <1>1, <1>2, WokenStep

LEMMA WakeStep ==
    ASSUME NoDrop, IInv, WInv, [Next]_vars
    PROVE  NoWakeLost'
<1> SUFFICES ASSUME NEW b \in woken', builds'[b].status = "queued"
             PROVE  boot' # "up" \/ InFlight(b)'
  BY DEF NoWakeLost
<1>1. CASE b \notin woken
  BY <1>1, NewInFlight
<1>2. CASE b \in woken
  <2>1. b \in BuildIds
    BY <1>2 DEF IInv, TypeOK, TypeWake
  <2>2. builds[b].status = "queued"
    BY <1>2, <2>1, StepRefines, QueuedStep DEF WInv, Issued
  <2>3. boot # "up" \/ InFlight(b)
    BY <1>2, <2>2 DEF WInv, NoWakeLost
  <2>4. CASE PathStep
    BY <2>1, <2>2, <2>3, <2>4, PathInFlight
  <2>5. CASE ~PathStep
    <3>1. PathKept
      BY <2>5, PathFrame
    <3> QED
      BY <2>3, <3>1, KeptInFlight DEF PathKept, wake_vars
  <2> QED
    BY <2>4, <2>5
<1> QED
  BY <1>1, <1>2

-----------------------------------------------------------------------------
(* Theorem *)

\* Whatever the capacity of the channels, the number of handlers and of crashes,
\* and the order of install, scan and inserts: a build that send_wake was called
\* for, or that the start-up scan found, is never queued with nothing on its way
\* to the worker, unless a statement fails or a client goes away.
THEOREM WakesKept ==
    ASSUME NoDrop
    PROVE  Spec => []NoWakeLost
<1>1. Init => WInv
  <2>1. NoReq.first = 0
    BY DEF NoReq
  <2> QED
    BY <2>1 DEF Init, WInv, NoWakeLost, Issued
<1>2. IInv /\ WInv /\ [Next]_vars => WInv'
  BY WakeStep, IssuedStep DEF WInv
<1>3. WInv => NoWakeLost
  BY DEF WInv
<1> QED
  BY <1>1, <1>2, <1>3, Invariance, PTL DEF Spec

(***************************************************************************)
(* Entries and polls                                                       *)
(***************************************************************************)


\* While process_one is between two of its insertions and removals, the maps
\* hold at most the entry of its own build.
TokenHeld ==
    cancel_tokens \subseteq
        IF wpc \in {"spawn", "building", "drop_token"} THEN {job.build} ELSE {}
ChannelHeld ==
    log_channels \subseteq
        IF wpc \in {"building", "drop_token", "finish", "cleanup"} \cup AfterSuccess
        THEN {job.build} ELSE {}
EntriesHeld == TokenHeld /\ ChannelHeld

\* A live build the poller asked for.
Polled(b) == builds[b].trigger = "poll" /\ builds[b].status \in Live

\* Between its two queries the poller has seen what is still queued.  After
\* them it has seen every live build of its own making of the packages it still
\* has to look at, and none of the one it is about to insert for.
PollerSees ==
    /\ ppc # "idle" => UniqueIds(poll.rows)
    /\ ppc = "running" =>
         \A b \in BuildIds : Polled(b) /\ builds[b].status = "queued" => builds[b].pid \in poll.live
    /\ ppc \in {"check", "enqueue"} =>
         \A b \in BuildIds, n \in poll.todo :
            Polled(b) /\ builds[b].pid = poll.rows[n].id => builds[b].pid \in poll.live
    /\ ppc = "enqueue" =>
         /\ poll.at \notin poll.todo
         /\ \A b \in BuildIds : Polled(b) => builds[b].pid # poll.rows[poll.at].id

PInv == UniqueIds(packages) /\ PollerSees /\ OnePollBuild

-----------------------------------------------------------------------------
(* What process_one gives back *)

(* Other tasks touch the maps only to take a token away.                    *)
LEMMA MapFrame ==
    ASSUME [Next]_vars, ~Process, ~Crash
    PROVE  cancel_tokens' \subseteq cancel_tokens /\ UNCHANGED log_channels
<1> USE DEF api_rest, token_vars, poll_rest, clean_rest
<1>1. ASSUME NEW h \in Handlers, Start(h) PROVE UNCHANGED <<cancel_tokens, log_channels>>
  <2>1. PICK r \in Requests :
          \/ add_package_upsert(h, r) \/ rebuild_package(h, r) \/ set_package_auto(h, r)
          \/ set_package_variants_read(h, r) \/ delete_package_read(h, r)
          \/ cancel_build_row(h, r)
    BY <1>1 DEF Start
  <2> QED
    BY <2>1 DEF add_package_upsert, rebuild_package, set_package_auto,
                set_package_variants_read, delete_package_read, cancel_build_row
<1>2. ASSUME NEW h \in Handlers, Continue(h) \/ drop_handler(h)
      PROVE  cancel_tokens' \subseteq cancel_tokens /\ UNCHANGED log_channels
  BY <1>2 DEF Continue, send_wake_lock, send_wake_send, enqueue_one, statement_error,
       add_package_variants, add_package_read, set_package_variants_write, delete_package_repo,
       delete_package_row, cancel_build_token, drop_handler
<1>3. CASE Boot \/ Feed
  BY <1>3 DEF Boot, Feed, run_reap, run_install, run_scan, run_scan_send, forward_recv, forward_send
<1>4. CASE PollOnce
  BY <1>4 DEF PollOnce, poll_once_packages, poll_once_queued, poll_once_running, poll_once_skip,
       poll_once_moved, poll_once_enqueue, poll_once_error, poll_once_done
<1>5. ASSUME NEW c \in Cleaners, CleanupWork(c) PROVE UNCHANGED <<cancel_tokens, log_channels>>
  BY <1>5 DEF CleanupWork, run_cleanup_work_list, run_cleanup_work_remove, run_cleanup_work_done
<1>6. CASE (\E n \in Names : Push(n)) \/ UNCHANGED vars
  BY <1>6 DEF Push, vars
<1> QED
  BY <1>1, <1>2, <1>3, <1>4, <1>5, <1>6 DEF Next

(* A step of process_one keeps its build, and registers, opens and gives    *)
(* back only that build's entries.                                          *)
LEMMA EntriesProcess ==
    ASSUME NoEarlyReturn, IInv, LiveDirKept, EntriesHeld, Process
    PROVE  EntriesHeld'
<1> USE DEF AtStep, ToStep, Return, token_vars, EntriesHeld, TokenHeld, ChannelHeld, AfterSuccess
<1>0. job \in Job
  BY DEF IInv, TypeOK, TypeTasks
<1>1. CASE run_worker_recv \/ process_one_claim
  BY <1>1 DEF run_worker_recv, process_one_claim
<1>2. CASE process_one_lookup
  BY <1>2 DEF process_one_lookup
<1>3. CASE process_one_register \/ process_one_drop_token
  BY <1>3 DEF process_one_register, process_one_drop_token
<1>4. CASE run_in_container_spawn
  BY <1>0, <1>4 DEF run_in_container_spawn, Job
<1>5. CASE run_in_container_exit
  BY <1>0, <1>5 DEF run_in_container_exit, Job
<1>6. CASE process_one_finish
  BY <1>6 DEF process_one_finish
<1>7. CASE process_one_publish \/ process_one_record \/ process_one_set_ref
  BY <1>7 DEF process_one_publish, process_one_record, process_one_set_ref
<1>8. CASE process_one_head
  BY <1>0, <1>8 DEF process_one_head, Job
<1>9. CASE process_one_cleanup
  BY <1>9 DEF process_one_cleanup
<1>10. ~(process_one_claim_error \/ process_one_finish_error \/ run_in_container_error)
  BY DEF process_one_claim_error, process_one_finish_error, run_in_container_error,
         NoEarlyReturn, LiveDirKept
<1> QED
  BY <1>1, <1>2, <1>3, <1>4, <1>5, <1>6, <1>7, <1>8, <1>9, <1>10 DEF Process

LEMMA EntriesStep ==
    ASSUME NoEarlyReturn, IInv, HInv, EntriesHeld, [Next]_vars
    PROVE  EntriesHeld'
<1>1. CASE Process
  BY <1>1, EntriesProcess DEF HInv
<1>2. CASE Crash
  BY <1>2 DEF Crash, EntriesHeld, TokenHeld, ChannelHeld
<1>3. CASE ~Process /\ ~Crash
  <2>1. UNCHANGED work_vars
    BY <1>3, WorkerFrame
  <2> QED
    BY <1>3, <2>1, MapFrame DEF work_vars, EntriesHeld, TokenHeld, ChannelHeld
<1> QED
  BY <1>1, <1>2, <1>3

\* While statements and container runtime calls succeed and no cleanup process
\* takes a work dir away, an idle worker has given back every cancellation token
\* and log channel it registered: however the builds ended, whoever cancelled
\* them, whatever packages were deleted under the worker.
THEOREM EntriesGivenBack ==
    ASSUME NoEarlyReturn
    PROVE  Spec => []NothingLeftBehind
<1>1. Init => HInv /\ EntriesHeld
  BY DEF Init, HInv, RunningIsHeld, Settled, LiveDirKept, EntriesHeld, TokenHeld, ChannelHeld
<1>2. IInv /\ HInv /\ EntriesHeld /\ [Next]_vars => (HInv /\ EntriesHeld)'
  BY HeldStep, EntriesStep
<1>3. EntriesHeld => NothingLeftBehind
  BY DEF EntriesHeld, TokenHeld, ChannelHeld, AfterSuccess, NothingLeftBehind
<1> QED
  BY <1>1, <1>2, <1>3, Invariance, PTL DEF Spec

-----------------------------------------------------------------------------
(* The ids of the packages *)

LEMMA IdsKept ==
    ASSUME UniqueIds(packages),
           \A n \in Names : packages'[n].id = packages[n].id \/ packages'[n].id = 0
    PROVE  UniqueIds(packages)'
  BY DEF UniqueIds

(* A fresh row gets an id larger than any other.                            *)
LEMMA IdsUpsert ==
    ASSUME IInv, UniqueIds(packages), NEW h \in Handlers, NEW r \in Requests,
           add_package_upsert(h, r)
    PROVE  UniqueIds(packages)'
<1>0. packages \in [Names -> PackageRow] /\ r.name \in Names
  BY RequestsOK DEF IInv, TypeOK, TypeDb, RequestsOK, add_package_upsert, Receive
<1>1. PICK i \in PkgIds :
        /\ packages[r.name].id # 0 \/ NextRowid(packages, i)
        /\ packages' = upsert_package(packages, r.name, r.auto, i)
  BY DEF add_package_upsert
<1>2. CASE packages[r.name].id # 0
  <2>1. \A n \in Names : packages'[n].id = packages[n].id
    BY <1>0, <1>1, <1>2 DEF upsert_package, PackageRow
  <2> QED
    BY <2>1, IdsKept
<1>3. CASE packages[r.name].id = 0
  <2>1. \A n \in Names : packages'[n].id = IF n = r.name THEN i ELSE packages[n].id
    BY <1>0, <1>1, <1>3 DEF upsert_package
  <2>2. \A n \in Names : packages[n].id \in Int /\ packages[n].id < i
    BY <1>0, <1>1, <1>3 DEF NextRowid, PackageRow
  <2>3. i \in Int
    BY DEF PkgIds
  <2> QED
    BY <2>1, <2>2, <2>3 DEF UniqueIds
<1> QED
  BY <1>2, <1>3

LEMMA IdsStart ==
    ASSUME IInv, UniqueIds(packages), NEW h \in Handlers, Start(h)
    PROVE  UniqueIds(packages)'
<1>0. packages \in [Names -> PackageRow]
  BY DEF IInv, TypeOK, TypeDb
<1>1. PICK r \in Requests :
        \/ add_package_upsert(h, r) \/ rebuild_package(h, r) \/ set_package_auto(h, r)
        \/ set_package_variants_read(h, r) \/ delete_package_read(h, r)
        \/ cancel_build_row(h, r)
  BY DEF Start
<1>2. CASE add_package_upsert(h, r)
  BY <1>2, IdsUpsert
<1>3. CASE set_package_auto(h, r)
  <2>1. \A n \in Names : packages'[n].id = packages[n].id
    BY <1>0, <1>3 DEF set_package_auto, set_auto_rebuild, PackageRow
  <2> QED
    BY <2>1, IdsKept
<1>4. CASE rebuild_package(h, r) \/ set_package_variants_read(h, r) \/ delete_package_read(h, r)
           \/ cancel_build_row(h, r)
  BY <1>4, IdsKept DEF rebuild_package, set_package_variants_read, delete_package_read,
                       cancel_build_row, db_vars
<1> QED
  BY <1>1, <1>2, <1>3, <1>4

LEMMA IdsContinue ==
    ASSUME IInv, UniqueIds(packages), NEW h \in Handlers, Continue(h) \/ drop_handler(h)
    PROVE  UniqueIds(packages)'
<1>0. packages \in [Names -> PackageRow]
  BY DEF IInv, TypeOK, TypeDb
<1>1. CASE add_package_variants(h) \/ set_package_variants_write(h)
  <2>1. \A n \in Names : packages'[n].id = packages[n].id
    BY <1>0, <1>1 DEF add_package_variants, set_package_variants_write, set_variants, PackageRow
  <2> QED
    BY <2>1, IdsKept
<1>2. CASE delete_package_row(h)
  <2>1. \A n \in Names : packages'[n].id = packages[n].id \/ packages'[n].id = 0
    BY <1>0, <1>2 DEF delete_package_row, delete_package, NoPackage
  <2> QED
    BY <2>1, IdsKept
<1>3. CASE \/ send_wake_lock(h) \/ send_wake_send(h) \/ enqueue_one(h) \/ statement_error(h)
           \/ add_package_read(h) \/ delete_package_repo(h) \/ cancel_build_token(h)
           \/ drop_handler(h)
  BY <1>3, IdsKept DEF send_wake_lock, send_wake_send, enqueue_one, Enqueue, statement_error,
       add_package_read, delete_package_repo, cancel_build_token, drop_handler, db_vars
<1> QED
  BY <1>1, <1>2, <1>3 DEF Continue

LEMMA IdsStep ==
    ASSUME IInv, UniqueIds(packages), [Next]_vars
    PROVE  UniqueIds(packages)'
<1> USE DEF db_vars
<1>0. packages \in [Names -> PackageRow]
  BY DEF IInv, TypeOK, TypeDb
<1>1. ASSUME NEW h \in Handlers, Start(h) \/ Continue(h) \/ drop_handler(h)
      PROVE  UniqueIds(packages)'
  BY <1>1, IdsStart, IdsContinue
<1>2. CASE process_one_set_ref
  <2>1. \A n \in Names : packages'[n].id = packages[n].id
    BY <1>0, <1>2 DEF process_one_set_ref, set_last_ref, PackageRow
  <2> QED
    BY <2>1, IdsKept
<1>3. CASE Process /\ ~process_one_set_ref
  BY <1>3, IdsKept DEF Process, run_worker_recv, process_one_claim, process_one_claim_error,
       process_one_lookup, process_one_register, run_in_container_spawn, run_in_container_exit,
       run_in_container_error, process_one_drop_token, process_one_finish,
       process_one_finish_error, process_one_publish, process_one_record, process_one_head,
       process_one_cleanup
<1>4. CASE Boot \/ Feed
  BY <1>4, IdsKept DEF Boot, Feed, run_reap, run_install, run_scan, run_scan_send, forward_recv,
       forward_send
<1>5. CASE PollOnce
  BY <1>5, IdsKept DEF PollOnce, poll_once_packages, poll_once_queued, poll_once_running,
       poll_once_skip, poll_once_moved, poll_once_enqueue, Enqueue, poll_once_error, poll_once_done
<1>6. ASSUME NEW c \in Cleaners, CleanupWork(c) PROVE UNCHANGED packages
  BY <1>6 DEF CleanupWork, run_cleanup_work_list, run_cleanup_work_remove,
       run_cleanup_work_done, clean_rest
<1>7. CASE Crash \/ (\E n \in Names : Push(n)) \/ UNCHANGED vars
  BY <1>7, IdsKept DEF Crash, Push, vars
<1> QED
  BY <1>1, <1>2, <1>3, <1>4, <1>5, <1>6, <1>7, IdsKept DEF Next

-----------------------------------------------------------------------------
(* Live builds the poller asked for *)

(* A row that is live after a step was so before, for the same package and  *)
(* with the same trigger, and no row goes back to the queue.                *)
PolledKept ==
    \A b \in BuildIds :
        Polled(b)' => /\ Polled(b) /\ builds'[b].pid = builds[b].pid
                      /\ builds'[b].status = "queued" => builds[b].status = "queued"

LEMMA KeptWhenUnchanged ==
    ASSUME UNCHANGED builds
    PROVE  PolledKept
  BY DEF PolledKept, Polled

(* An UPDATE of the status of one row from a live one, or of its pkg_file.  *)
LEMMA KeptWhenUpdated ==
    ASSUME builds \in [BuildIds -> BuildRow], NEW b \in BuildIds,
           \A c \in BuildIds \ {b} : builds'[c] = builds[c],
           builds'[b].trigger = builds[b].trigger, builds'[b].pid = builds[b].pid,
           builds'[b].status \in Live => builds[b].status \in Live,
           builds'[b].status = "queued" => builds[b].status = "queued"
    PROVE  PolledKept
  BY DEF PolledKept, Polled

(* The insert of a build by a handler.                                      *)
LEMMA KeptWhenInserted ==
    ASSUME IInv, NEW i, NEW t, NEW v, Enqueue(i, t, v), t # "poll"
    PROVE  PolledKept
<1>1. /\ builds \in [BuildIds -> BuildRow] /\ next_build \in BuildIds
  BY DEF IInv, TypeOK, TypeDb, Enqueue, CanEnqueue
<1>2. /\ builds'[next_build].trigger = t
      /\ \A c \in BuildIds \ {next_build} : builds'[c] = builds[c]
  BY <1>1 DEF Enqueue, enqueue_build
<1> QED
  BY <1>2 DEF PolledKept, Polled

LEMMA KeptByHandlers ==
    ASSUME IInv, NEW h \in Handlers, Start(h) \/ Continue(h) \/ drop_handler(h)
    PROVE  PolledKept
<1> USE DEF api_rest, db_vars
<1>0. builds \in [BuildIds -> BuildRow]
  BY DEF IInv, TypeOK, TypeDb
<1>1. ASSUME NEW r \in Requests,
             \/ add_package_upsert(h, r) \/ rebuild_package(h, r) \/ set_package_auto(h, r)
             \/ set_package_variants_read(h, r) \/ delete_package_read(h, r)
      PROVE  PolledKept
  BY <1>1, KeptWhenUnchanged DEF add_package_upsert, rebuild_package, set_package_auto,
                                 set_package_variants_read, delete_package_read
<1>2. ASSUME NEW r \in Requests, cancel_build_row(h, r) PROVE PolledKept
  <2>1. r.build \in BuildIds
    BY <1>2, RequestsOK DEF RequestsOK, cancel_build_row, Receive
  <2>2. builds' = [builds EXCEPT ![r.build].status = "cancelled"]
    BY <1>2 DEF cancel_build_row, cancel_build
  <2>3. /\ \A c \in BuildIds \ {r.build} : builds'[c] = builds[c]
        /\ builds'[r.build].trigger = builds[r.build].trigger
        /\ builds'[r.build].pid = builds[r.build].pid
        /\ builds'[r.build].status = "cancelled"
    BY <1>0, <2>1, <2>2 DEF BuildRow
  <2> QED
    BY <1>0, <2>1, <2>3, KeptWhenUpdated DEF Live
<1>3. CASE enqueue_one(h)
  <2>1. PICK t \in {"rebuild", "manual"} : \E i, v : Enqueue(i, t, v)
    BY <1>3 DEF enqueue_one
  <2>2. PICK i, v : Enqueue(i, t, v)
    BY <2>1
  <2> QED
    BY <2>2, KeptWhenInserted
<1>4. CASE delete_package_row(h)
  <2>1. UNCHANGED builds \/ \E i : builds' = CascadeDelete(builds, i)
    BY <1>4 DEF delete_package_row
  <2>2. ASSUME NEW i, builds' = CascadeDelete(builds, i) PROVE PolledKept
    BY <1>0, <2>2, CascadeRows DEF PolledKept, Polled, Live
  <2> QED
    BY <2>1, <2>2, KeptWhenUnchanged
<1>5. CASE \/ send_wake_lock(h) \/ send_wake_send(h) \/ statement_error(h)
           \/ add_package_variants(h) \/ add_package_read(h) \/ set_package_variants_write(h)
           \/ delete_package_repo(h) \/ cancel_build_token(h) \/ drop_handler(h)
  BY <1>5, KeptWhenUnchanged DEF send_wake_lock, send_wake_send, statement_error,
       add_package_variants, add_package_read, set_package_variants_write, delete_package_repo,
       cancel_build_token, drop_handler
<1> QED
  BY <1>1, <1>2, <1>3, <1>4, <1>5 DEF Start, Continue

LEMMA KeptByWorker ==
    ASSUME IInv, Boot \/ Feed \/ Process
    PROVE  PolledKept
<1> USE DEF db_vars, AtStep, ToStep
<1>0. builds \in [BuildIds -> BuildRow]
  BY DEF IInv, TypeOK, TypeDb
<1>1. CASE run_reap
  <2>1. \A b \in BuildIds : builds'[b] = builds[b] \/ builds'[b].status = "failed"
    BY <1>0, <1>1, ReapRows DEF run_reap
  <2> QED
    BY <2>1 DEF PolledKept, Polled, Live
<1>2. CASE process_one_claim
  <2>1. job.build \in BuildIds
    BY <1>2 DEF process_one_claim, IInv, WorkerLocals
  <2>2. CASE Claimable(builds, job.build)
    <3>1. builds' = [builds EXCEPT ![job.build].status = "running"]
      BY <1>2, <2>2 DEF process_one_claim, claim_build_by_id
    <3>2. /\ \A c \in BuildIds \ {job.build} : builds'[c] = builds[c]
          /\ builds'[job.build].trigger = builds[job.build].trigger
          /\ builds'[job.build].pid = builds[job.build].pid
          /\ builds'[job.build].status = "running"
      BY <1>0, <2>1, <3>1 DEF BuildRow
    <3> QED
      BY <1>0, <2>1, <2>2, <3>2, KeptWhenUpdated DEF Live, Claimable
  <2> QED
    BY <1>2, <2>2, KeptWhenUnchanged DEF process_one_claim
<1>3. CASE process_one_finish
  <2>1. job.build \in BuildIds /\ job.outcome \in Terminal
    BY <1>3 DEF process_one_finish, IInv, WorkerLocals
  <2>2. CASE builds' = builds
    BY <2>2, KeptWhenUnchanged
  <2>3. CASE builds' = [builds EXCEPT ![job.build].status = job.outcome]
    <3>1. /\ \A c \in BuildIds \ {job.build} : builds'[c] = builds[c]
          /\ builds'[job.build].trigger = builds[job.build].trigger
          /\ builds'[job.build].pid = builds[job.build].pid
          /\ builds'[job.build].status = job.outcome
      BY <1>0, <2>1, <2>3 DEF BuildRow
    <3> QED
      BY <1>0, <2>1, <3>1, KeptWhenUpdated DEF Live, Terminal
  <2> QED
    BY <1>3, <2>2, <2>3 DEF process_one_finish, finish_build
<1>4. CASE process_one_record
  <2>1. job.build \in BuildIds
    BY <1>4 DEF process_one_record, IInv, WorkerLocals
  <2>2. CASE builds' = builds
    BY <2>2, KeptWhenUnchanged
  <2>3. CASE builds' = [builds EXCEPT ![job.build].pkg_file = TRUE]
    <3>1. /\ \A c \in BuildIds \ {job.build} : builds'[c] = builds[c]
          /\ builds'[job.build].trigger = builds[job.build].trigger
          /\ builds'[job.build].pid = builds[job.build].pid
          /\ builds'[job.build].status = builds[job.build].status
      BY <1>0, <2>1, <2>3 DEF BuildRow
    <3> QED
      BY <1>0, <2>1, <3>1, KeptWhenUpdated
  <2> QED
    BY <1>4, <2>2, <2>3 DEF process_one_record, record_pkg
<1>5. CASE \/ run_worker_recv \/ process_one_claim_error \/ process_one_lookup
           \/ process_one_register \/ run_in_container_spawn \/ run_in_container_exit
           \/ run_in_container_error \/ process_one_drop_token \/ process_one_finish_error
           \/ process_one_publish \/ process_one_head \/ process_one_set_ref
           \/ process_one_cleanup
  BY <1>5, KeptWhenUnchanged DEF run_worker_recv, process_one_claim_error, process_one_lookup,
       process_one_register, run_in_container_spawn, run_in_container_exit,
       run_in_container_error, process_one_drop_token, process_one_finish_error,
       process_one_publish, process_one_head, process_one_set_ref, process_one_cleanup
<1>6. CASE run_install \/ run_scan \/ Feed
  BY <1>6, KeptWhenUnchanged DEF run_install, run_scan, Feed, run_scan_send, forward_recv,
                                 forward_send
<1> QED
  BY <1>1, <1>2, <1>3, <1>4, <1>5, <1>6 DEF Boot, Process

(* Whatever is not the poller's own insert.                                 *)
LEMMA PolledStep ==
    ASSUME IInv, [Next]_vars, ~poll_once_enqueue
    PROVE  PolledKept
<1> USE DEF db_vars
<1>1. ASSUME NEW c \in Cleaners, CleanupWork(c) PROVE UNCHANGED builds
  BY <1>1 DEF CleanupWork, run_cleanup_work_list, run_cleanup_work_remove,
       run_cleanup_work_done, clean_rest
<1>2. CASE PollOnce
  BY <1>2, KeptWhenUnchanged DEF PollOnce, poll_once_packages, poll_once_queued,
       poll_once_running, poll_once_skip, poll_once_moved, poll_once_error, poll_once_done
<1>3. CASE Crash \/ (\E n \in Names : Push(n)) \/ UNCHANGED vars
  BY <1>3, KeptWhenUnchanged DEF Crash, Push, vars
<1> QED
  BY <1>1, <1>2, <1>3, KeptWhenUnchanged, KeptByHandlers, KeptByWorker DEF Next

LEMMA PollFrame ==
    ASSUME [Next]_vars, ~PollOnce, ~Crash
    PROVE  UNCHANGED poll_vars
<1> USE DEF api_rest, work_rest, clean_rest
<1>1. ASSUME NEW h \in Handlers, Start(h) PROVE UNCHANGED poll_vars
  <2>1. PICK r \in Requests :
          \/ add_package_upsert(h, r) \/ rebuild_package(h, r) \/ set_package_auto(h, r)
          \/ set_package_variants_read(h, r) \/ delete_package_read(h, r)
          \/ cancel_build_row(h, r)
    BY <1>1 DEF Start
  <2> QED
    BY <2>1 DEF add_package_upsert, rebuild_package, set_package_auto,
                set_package_variants_read, delete_package_read, cancel_build_row
<1>2. ASSUME NEW h \in Handlers, Continue(h) \/ drop_handler(h) PROVE UNCHANGED poll_vars
  BY <1>2 DEF Continue, send_wake_lock, send_wake_send, enqueue_one, statement_error,
       add_package_variants, add_package_read, set_package_variants_write, delete_package_repo,
       delete_package_row, cancel_build_token, drop_handler
<1>3. CASE Boot \/ Feed
  BY <1>3 DEF Boot, Feed, run_reap, run_install, run_scan, run_scan_send, forward_recv, forward_send
<1>4. CASE Process
  BY <1>4 DEF Process, run_worker_recv, process_one_claim, process_one_claim_error,
       process_one_lookup, process_one_register, run_in_container_spawn, run_in_container_exit,
       run_in_container_error, process_one_drop_token, process_one_finish,
       process_one_finish_error, process_one_publish, process_one_record, process_one_head,
       process_one_set_ref, process_one_cleanup
<1>5. ASSUME NEW c \in Cleaners, CleanupWork(c) PROVE UNCHANGED poll_vars
  BY <1>5 DEF CleanupWork, run_cleanup_work_list, run_cleanup_work_remove, run_cleanup_work_done
<1>6. CASE (\E n \in Names : Push(n)) \/ UNCHANGED vars
  BY <1>6 DEF Push, vars
<1> QED
  BY <1>1, <1>2, <1>3, <1>4, <1>5, <1>6 DEF Next

-----------------------------------------------------------------------------
(* The poller *)

(* What its own steps, but for the insert, make of what it has seen.        *)
LEMMA SeenByPoller ==
    ASSUME IInv, PInv, PollOnce, ~poll_once_enqueue
    PROVE  PollerSees'
<1> USE DEF PollerSees, Polled
<1>0. poll \in Poll /\ builds \in [BuildIds -> BuildRow]
  BY DEF IInv, TypeOK, TypeTasks, TypeDb
<1>1. CASE poll_once_packages
  BY <1>1 DEF poll_once_packages, NoPoll, PInv
<1>2. CASE poll_once_queued
  <2>1. /\ ppc' = "running" /\ ppc # "idle" /\ UNCHANGED builds /\ poll'.rows = poll.rows
        /\ poll'.live = StatusPids(builds, "queued")
    BY <1>0, <1>2 DEF poll_once_queued, Poll, db_vars
  <2>2. \A b \in BuildIds : builds[b].status = "queued" => builds[b].pid \in poll'.live
    BY <2>1 DEF StatusPids, list_builds
  <2> QED
    BY <2>1, <2>2 DEF PInv
<1>3. CASE poll_once_running
  <2>1. /\ ppc' = "check" /\ ppc = "running" /\ UNCHANGED builds /\ poll'.rows = poll.rows
        /\ poll'.live = poll.live \cup StatusPids(builds, "running")
    BY <1>0, <1>3 DEF poll_once_running, Poll, db_vars
  <2>2. \A b \in BuildIds : builds[b].status = "running" => builds[b].pid \in poll'.live
    BY <2>1 DEF StatusPids, list_builds
  <2>3. \A b \in BuildIds : Polled(b) => builds[b].pid \in poll'.live
    BY <2>1, <2>2 DEF PInv, Live
  <2> QED
    BY <2>1, <2>3 DEF PInv
<1>4. ASSUME NEW n \in Names, poll_once_skip(n) PROVE PollerSees'
  <2>1. /\ ppc' = "check" /\ ppc = "check" /\ UNCHANGED builds /\ poll'.rows = poll.rows
        /\ poll'.live = poll.live /\ poll'.todo \subseteq poll.todo
    BY <1>0, <1>4 DEF poll_once_skip, Poll, db_vars
  <2> QED
    BY <2>1 DEF PInv
<1>5. ASSUME NEW n \in Names, poll_once_moved(n) PROVE PollerSees'
  <2>1. /\ ppc' = "enqueue" /\ ppc = "check" /\ UNCHANGED builds /\ poll'.rows = poll.rows
        /\ poll'.live = poll.live /\ poll'.todo = poll.todo \ {n} /\ poll'.at = n
        /\ n \in poll.todo /\ poll.rows[n].id \notin poll.live
    BY <1>0, <1>5 DEF poll_once_moved, Poll, db_vars
  <2> QED
    BY <2>1 DEF PInv
<1>6. CASE poll_once_error \/ poll_once_done
  BY <1>6 DEF poll_once_error, poll_once_done
<1> QED
  BY <1>1, <1>2, <1>3, <1>4, <1>5, <1>6 DEF PollOnce

(* The steps of the others give it nothing new to see.                      *)
LEMMA SeenByOthers ==
    ASSUME IInv, PInv, PolledKept, UNCHANGED poll_vars
    PROVE  PollerSees'
<1>1. ppc' = ppc /\ poll' = poll
  BY DEF poll_vars
<1> QED
  BY <1>1 DEF PInv, PollerSees, PolledKept

(* The insert: the only live build it asked for of that package, and not a  *)
(* build of a package it still has to look at.                              *)
LEMMA InsertStep ==
    ASSUME IInv, PInv, poll_once_enqueue
    PROVE  PollerSees' /\ OnePollBuild'
<1> DEFINE i == poll.rows[poll.at].id
           new == next_build
<1>0. /\ poll \in Poll /\ builds \in [BuildIds -> BuildRow] /\ poll.at \in Names
      /\ new \in BuildIds
  BY DEF IInv, TypeOK, TypeTasks, TypeDb, PollerLocals, poll_once_enqueue, Enqueue, CanEnqueue
<1>1. /\ ppc = "enqueue" /\ ppc' = "check" /\ poll'.rows = poll.rows
      /\ poll'.live = poll.live /\ poll'.todo = poll.todo
  BY <1>0 DEF poll_once_enqueue, Poll
<1>2. /\ builds'[new].pid = i
      /\ \A b \in BuildIds \ {new} : builds'[b] = builds[b]
  BY <1>0 DEF poll_once_enqueue, Enqueue, enqueue_build
<1>3. i # 0
  BY DEF poll_once_enqueue, Enqueue, ForeignKeyOK
<1>4. \A n \in poll.todo : poll.rows[n].id # i
  BY <1>0, <1>1, <1>3 DEF PInv, PollerSees, UniqueIds, Poll
<1>5. \A b \in BuildIds : Polled(b) => builds[b].pid # i
  BY <1>1 DEF PInv, PollerSees
<1>6. PollerSees'
  BY <1>1, <1>2, <1>4 DEF PInv, PollerSees, Polled
<1>7. OnePollBuild'
  BY <1>2, <1>5 DEF PInv, OnePollBuild, Polled
<1> QED
  BY <1>6, <1>7

LEMMA PollInvStep ==
    ASSUME IInv, PInv, [Next]_vars
    PROVE  PInv'
<1>1. UniqueIds(packages)'
  BY IdsStep DEF PInv
<1>2. CASE poll_once_enqueue
  BY <1>1, <1>2, InsertStep DEF PInv
<1>3. CASE ~poll_once_enqueue
  <2>1. PolledKept
    BY <1>3, PolledStep
  <2>2. OnePollBuild'
    BY <2>1 DEF PInv, OnePollBuild, PolledKept, Polled
  <2>3. PollerSees'
    <3>1. CASE PollOnce
      BY <1>3, <3>1, SeenByPoller
    <3>2. CASE Crash
      BY <3>2 DEF Crash, PollerSees
    <3> QED
      BY <2>1, <3>1, <3>2, PollFrame, SeenByOthers
  <2> QED
    BY <1>1, <2>2, <2>3 DEF PInv
<1> QED
  BY <1>2, <1>3

\* However many packages there are, however long an iteration takes, whatever
\* fails, and whatever is claimed, cancelled, deleted, registered again or lost
\* in a crash between the statements of poll_once: a package has at most one live
\* build the poller asked for.
THEOREM PollerNeverPilesUp == Spec => []OnePollBuild
<1>1. Init => PInv
  BY InitPackagesOK DEF Init, PInv, InitPackagesOK, PollerSees, OnePollBuild, NoBuild, Live
<1>2. IInv /\ PInv /\ [Next]_vars => PInv'
  BY PollInvStep
<1>3. PInv => OnePollBuild
  BY DEF PInv
<1> QED
  BY <1>1, <1>2, <1>3, Invariance, PTL DEF Spec
=============================================================================
