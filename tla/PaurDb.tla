------------------------------- MODULE PaurDb -------------------------------
(***************************************************************************)
(* The two tables the queue lives in (crates/paur-db): `packages` and      *)
(* `builds`, and every statement the daemon runs against them, as          *)
(* operators from a table to the table after the statement.                *)
(*                                                                         *)
(* A table is a function.  packages is keyed by the UNIQUE name; id = 0    *)
(* stands for "no such row".  builds is keyed by its AUTOINCREMENT id;     *)
(* status "absent" is an id not yet handed out, "deleted" an id whose row  *)
(* a cascade removed: AUTOINCREMENT never hands it out again.              *)
(***************************************************************************)
EXTENDS Integers

CONSTANTS Names,       \* package names (packages.name)
          MaxPkgIds,   \* bound on packages.id
          MaxBuilds,   \* bound on builds.id
          MaxRef       \* bound on the AUR commits of a package

ASSUME DbBounds == MaxPkgIds \in Nat /\ MaxBuilds \in Nat /\ MaxRef \in Nat \ {0}

PkgIds   == 1..MaxPkgIds
BuildIds == 1..MaxBuilds

Variant == {"default", "v3", "v4"}
Trigger == {"manual", "poll", "rebuild"}

Live     == {"queued", "running"}
Terminal == {"success", "failed", "cancelled"}
Status   == Live \cup Terminal \cup {"absent", "deleted"}

\* An AUR commit; 0 is a NULL last_known_ref.
Ref == 0..MaxRef

PackageRow == [id : 0..MaxPkgIds, auto : BOOLEAN, variants : SUBSET Variant,
               last_ref : Ref]
BuildRow   == [pid : 0..MaxPkgIds, variant : Variant, trigger : Trigger,
               status : Status, pkg_file : BOOLEAN]

NoPackage == [id |-> 0, auto |-> FALSE, variants |-> {}, last_ref |-> 0]
NoBuild   == [pid |-> 0, variant |-> "default", trigger |-> "manual",
              status |-> "absent", pkg_file |-> FALSE]

-----------------------------------------------------------------------------
(* packages *)

\* packages.id INTEGER PRIMARY KEY: two rows never share an id.
UniqueIds(pk) == \A m, n \in Names : pk[m].id = pk[n].id /\ pk[m].id # 0 => m = n

\* packages.id is INTEGER PRIMARY KEY without AUTOINCREMENT: the next rowid is
\* one more than the largest in the table, so a deleted last id comes back.
NextRowid(pk, i) ==
    /\ \A m \in Names : pk[m].id < i
    /\ i = 1 \/ \E m \in Names : pk[m].id = i - 1

\* i is the rowid a fresh row gets; an existing row keeps its own.
upsert_package(pk, n, auto, i) ==
    IF pk[n].id # 0
    THEN [pk EXCEPT ![n].auto = @ \/ auto]
    ELSE [pk EXCEPT ![n] = [id |-> i, auto |-> auto,
                            variants |-> {"default"}, last_ref |-> 0]]

\* UPDATE ... WHERE name = n: no row, no effect.
set_auto_rebuild(pk, n, auto) ==
    IF pk[n].id = 0 THEN pk ELSE [pk EXCEPT ![n].auto = auto]

set_variants(pk, n, vs) ==
    IF pk[n].id = 0 THEN pk ELSE [pk EXCEPT ![n].variants = vs \cup {"default"}]

\* UPDATE ... WHERE id = i: whichever package holds the id now.
set_last_ref(pk, i, ref) ==
    [n \in Names |-> IF pk[n].id = i THEN [pk[n] EXCEPT !.last_ref = ref]
                                     ELSE pk[n]]

delete_package(pk, n) == [pk EXCEPT ![n] = NoPackage]

-----------------------------------------------------------------------------
(* builds *)

\* REFERENCES packages(id): the insert fails without the parent row.
ForeignKeyOK(pk, i) == i # 0 /\ \E n \in Names : pk[n].id = i

enqueue_build(bs, b, i, t, v) ==
    [bs EXCEPT ![b] = [pid |-> i, variant |-> v, trigger |-> t,
                       status |-> "queued", pkg_file |-> FALSE]]

\* Mutant: the claim forgets its `status = 'queued'`.
Claimable_any(bs, b) == bs[b].status # "deleted"

\* ... WHERE id = b AND status = 'queued'
Claimable(bs, b) == bs[b].status = "queued"

claim_build_by_id(bs, b) == [bs EXCEPT ![b].status = "running"]

\* ... WHERE id = b, whatever the status is by then.
finish_build(bs, b, s) ==
    IF bs[b].status = "deleted" THEN bs ELSE [bs EXCEPT ![b].status = s]

record_pkg(bs, b) ==
    IF bs[b].status = "deleted" THEN bs ELSE [bs EXCEPT ![b].pkg_file = TRUE]

\* Mutant: no AlreadyTerminal outcome.
Cancellable_terminal(bs, b) == bs[b].status \in Live \cup Terminal

\* CancelOutcome::Cancelled, as opposed to NotFound and AlreadyTerminal.
Cancellable(bs, b) == bs[b].status \in Live

cancel_build(bs, b) == [bs EXCEPT ![b].status = "cancelled"]

reap_stale_running(bs) ==
    [b \in BuildIds |-> IF bs[b].status = "running"
                        THEN [bs[b] EXCEPT !.status = "failed"] ELSE bs[b]]

\* Mutant: the schema without ON DELETE CASCADE, foreign keys off.
NoCascade(bs, i) == bs

\* ON DELETE CASCADE from packages.id = i.
CascadeDelete(bs, i) ==
    [b \in BuildIds |-> IF bs[b].pid = i /\ bs[b].status # "absent"
                        THEN [NoBuild EXCEPT !.status = "deleted"] ELSE bs[b]]

list_builds(bs, s) == {b \in BuildIds : bs[b].status = s}
=============================================================================
