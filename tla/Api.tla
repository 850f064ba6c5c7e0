-------------------------------- MODULE Api ---------------------------------
(***************************************************************************)
(* The state-changing HTTP handlers (crates/paur-daemon/src/api.rs).  Each *)
(* handler is cut where it awaits: one action per database statement,      *)
(* repository operation, or lock it waits for.  Handlers of different      *)
(* requests interleave freely.                                             *)
(***************************************************************************)
EXTENDS DaemonState

Goto(h, pc, r) == /\ hpc' = [hpc EXCEPT ![h] = pc]
                  /\ req' = [req EXCEPT ![h] = r]

\* The response is on its way, success or error: nothing of the handler is left.
Respond(h) == Goto(h, "idle", NoReq)

\* A client sends one of the requests of the run.
Receive(h, op, r) == hpc[h] = "idle" /\ r.op = op

\* Mutant: unknown tags are let through.
ParseAny(r) == r.variants = r.variants

\* The variants of a request, None where parse_variants_field rejects a tag.
ParseOK(r) == "unknown" \notin r.variants
parse_variants_field(r) == r.variants \cup {"default"}

\* PackageVariants::active lists default, v3, v4 in this order.
NextVariant(vs) == IF "default" \in vs THEN "default"
                   ELSE IF "v3" \in vs THEN "v3" ELSE "v4"

api_rest == <<disk_vars, env_vars, log_channels, work_vars, poll_vars, clean_vars>>

-----------------------------------------------------------------------------
(* AppState::send_wake: the mutex is held while the channel is full. *)

send_wake_lock(h) ==
    /\ hpc[h] = "wake"
    /\ wake_lock = {}
    /\ woken' = woken \cup {req[h].first}
    /\ IF WakeInstalled
       THEN wake_lock' = {h} /\ Goto(h, "wake_send", req[h])
       ELSE /\ UNCHANGED wake_lock             \* None: silently dropped
            /\ IF req[h].op = "variants" /\ req[h].todo # {}
               THEN Goto(h, "enqueue", [req[h] EXCEPT !.first = 0])
               ELSE Respond(h)
    /\ UNCHANGED <<db_vars, boot, api_q, fwd, scan, work_q, token_vars, api_rest>>

send_wake_send(h) ==
    /\ hpc[h] = "wake_send"
    /\ Len(api_q) < WakeCap
    /\ api_q' = Append(api_q, req[h].first)
    /\ wake_lock' = {}
    /\ IF req[h].op = "variants" /\ req[h].todo # {}
       THEN Goto(h, "enqueue", [req[h] EXCEPT !.first = 0])
       ELSE Respond(h)
    /\ UNCHANGED <<db_vars, boot, fwd, scan, work_q, woken, token_vars, api_rest>>

-----------------------------------------------------------------------------
(* The enqueue loops.  enqueue_all_variants (add, rebuild) remembers the   *)
(* first id and wakes for it after the last insert; set_package_variants   *)
(* wakes for every id.                                                     *)

enqueue_one(h) ==
    LET v == NextVariant(req[h].todo)
        r == [req[h] EXCEPT !.todo  = @ \ {v},
                            !.first = IF @ = 0 THEN next_build ELSE @]
    IN /\ hpc[h] = "enqueue"
       /\ Enqueue(req[h].pid, IF req[h].op = "rebuild" THEN "rebuild" ELSE "manual", v)
       /\ Goto(h, IF r.op = "variants" \/ r.todo = {} THEN "wake" ELSE "enqueue", r)
       /\ UNCHANGED <<wake_vars, token_vars, api_rest>>

\* `?` on a statement: it failed (for the insert, a deferred transaction loses
\* to any writer that commits after its SELECT), or the parent row of the build
\* to insert is gone.  Builds inserted before stay, and nobody is woken for them.
statement_error(h) ==
    /\ \/ /\ "db" \in Faults
          /\ hpc[h] \in {"enqueue", "add_variants", "add_read", "variants_set", "delete_row"}
       \/ hpc[h] = "enqueue" /\ ~ForeignKeyOK(packages, req[h].pid)
    /\ Respond(h)
    /\ UNCHANGED <<db_vars, wake_vars, token_vars, api_rest>>

-----------------------------------------------------------------------------
(* POST /packages: the upsert comes before the variants are parsed, and    *)
(* the id it returned is used after two more statements.                   *)

add_package_upsert(h, r) ==
    /\ Receive(h, "add", r)
    /\ \E i \in PkgIds :
          /\ packages[r.name].id # 0 \/ NextRowid(packages, i)
          /\ packages[r.name].id # 0 => i = packages[r.name].id
          /\ packages' = upsert_package(packages, r.name, r.auto, i)
          /\ IF ParseOK(r) THEN Goto(h, "add_variants", [r EXCEPT !.pid = i])
                           ELSE Respond(h)
    /\ UNCHANGED <<builds, next_build, wake_vars, token_vars, api_rest>>

add_package_variants(h) ==
    /\ hpc[h] = "add_variants"
    /\ packages' = set_variants(packages, req[h].name, parse_variants_field(req[h]))
    /\ Goto(h, "add_read", req[h])
    /\ UNCHANGED <<builds, next_build, wake_vars, token_vars, api_rest>>

add_package_read(h) ==
    LET p == packages[req[h].name]
    IN /\ hpc[h] = "add_read"
       /\ IF p.id = 0 THEN Respond(h)          \* "package vanished"
          ELSE Goto(h, "enqueue", [req[h] EXCEPT !.todo = p.variants])
       /\ UNCHANGED <<db_vars, wake_vars, token_vars, api_rest>>

(* POST /packages/:name/rebuild *)
rebuild_package(h, r) ==
    LET p == packages[r.name]
    IN /\ Receive(h, "rebuild", r)
       /\ p.id # 0                              \* else 404
       /\ Goto(h, "enqueue", [r EXCEPT !.pid = p.id, !.todo = p.variants])
       /\ UNCHANGED <<db_vars, wake_vars, token_vars, api_rest>>

(* PATCH /packages/:name/auto *)
set_package_auto(h, r) ==
    /\ Receive(h, "auto", r)
    /\ packages' = set_auto_rebuild(packages, r.name, r.auto)
    /\ Respond(h)
    /\ UNCHANGED <<builds, next_build, wake_vars, token_vars, api_rest>>

(* PATCH /packages/:name/variants: the row is read, then overwritten; the  *)
(* builds enqueued are those of the variants the row read did not have.    *)
set_package_variants_read(h, r) ==
    LET p == packages[r.name]
    IN /\ Receive(h, "variants", r)
       /\ ParseOK(r)                            \* else 400
       /\ p.id # 0                              \* else 404
       /\ Goto(h, "variants_set",
               [r EXCEPT !.pid = p.id, !.todo = parse_variants_field(r) \ p.variants])
       /\ UNCHANGED <<db_vars, wake_vars, token_vars, api_rest>>

set_package_variants_write(h) ==
    /\ hpc[h] = "variants_set"
    /\ packages' = set_variants(packages, req[h].name, parse_variants_field(req[h]))
    /\ IF packages[req[h].name].id = 0 \/ req[h].todo = {}
       THEN Respond(h)                          \* 404, or nothing newly enabled
       ELSE Goto(h, "enqueue", req[h])
    /\ UNCHANGED <<builds, next_build, wake_vars, token_vars, api_rest>>

-----------------------------------------------------------------------------
(* DELETE /packages/:name: the package leaves the repository of every      *)
(* variant, one after the other, failures ignored; then the row goes, and  *)
(* its builds with it.                                                     *)

delete_package_read(h, r) ==
    /\ Receive(h, "delete", r)
    /\ packages[r.name].id # 0                  \* else 404
    /\ Goto(h, "delete_repo", [r EXCEPT !.todo = Variant])
    /\ UNCHANGED <<db_vars, wake_vars, token_vars, api_rest>>

delete_package_repo(h) ==
    LET v == NextVariant(req[h].todo)
        r == [req[h] EXCEPT !.todo = @ \ {v}]
    IN /\ hpc[h] = "delete_repo"
       /\ \/ repo' = [repo EXCEPT ![<<req[h].name, v>>] = 0]
          \/ "publish" \in Faults /\ UNCHANGED repo
       /\ Goto(h, IF r.todo = {} THEN "delete_row" ELSE "delete_repo", r)
       /\ UNCHANGED <<db_vars, wake_vars, token_vars, work_dirs, env_vars,
                      log_channels, work_vars, poll_vars, clean_vars>>

delete_package_row(h) ==
    LET i == packages[req[h].name].id
    IN /\ hpc[h] = "delete_row"
       /\ packages' = delete_package(packages, req[h].name)
       /\ builds' = IF i = 0 THEN builds ELSE CascadeDelete(builds, i)
       /\ Respond(h)
       /\ UNCHANGED <<next_build, wake_vars, token_vars, api_rest>>

-----------------------------------------------------------------------------
(* POST /builds/:id/cancel: flip the row, then take and fire the token.    *)

cancel_build_row(h, r) ==
    /\ Receive(h, "cancel", r)
    /\ Cancellable(builds, r.build)             \* else 404 or 409
    /\ builds' = cancel_build(builds, r.build)
    /\ Goto(h, "cancel_token", r)
    /\ UNCHANGED <<packages, next_build, wake_vars, token_vars, api_rest>>

\* Mutant: the token is taken out of the map and not cancelled.
cancel_build_token_unfired(h) ==
    /\ hpc[h] = "cancel_token"
    /\ cancel_tokens' = cancel_tokens \ {req[h].build}
    /\ Respond(h)
    /\ UNCHANGED <<db_vars, wake_vars, fired, api_rest>>

cancel_build_token(h) ==
    /\ hpc[h] = "cancel_token"
    /\ cancel_tokens' = cancel_tokens \ {req[h].build}
    /\ fired' = fired \cup (cancel_tokens \cap {req[h].build})
    /\ Respond(h)
    /\ UNCHANGED <<db_vars, wake_vars, api_rest>>

\* The client disconnects: hyper drops the handler's future where it awaits,
\* and with it the mutex guard.
drop_handler(h) ==
    /\ "disconnect" \in Faults
    /\ hpc[h] # "idle"
    /\ wake_lock' = wake_lock \ {h}
    /\ Respond(h)
    /\ UNCHANGED <<db_vars, boot, api_q, fwd, scan, work_q, woken, token_vars, api_rest>>

Start(h) == \E r \in Requests :
    \/ add_package_upsert(h, r)
    \/ rebuild_package(h, r)
    \/ set_package_auto(h, r)
    \/ set_package_variants_read(h, r)
    \/ delete_package_read(h, r)
    \/ cancel_build_row(h, r)

Continue(h) ==
    \/ send_wake_lock(h)
    \/ send_wake_send(h)
    \/ enqueue_one(h)
    \/ statement_error(h)
    \/ add_package_variants(h)
    \/ add_package_read(h)
    \/ set_package_variants_write(h)
    \/ delete_package_repo(h)
    \/ delete_package_row(h)
    \/ cancel_build_token(h)

HandlerPc == {"idle", "enqueue", "wake", "wake_send", "add_variants", "add_read",
              "variants_set", "delete_repo", "delete_row", "cancel_token"}
=============================================================================
