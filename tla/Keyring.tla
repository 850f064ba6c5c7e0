------------------------------- MODULE Keyring -------------------------------
(***************************************************************************)
(* The signing key and every copy of its name: the gpg_key_id setting, the *)
(* daemon's RepoCtx, the exported public keys, the signatures on the       *)
(* databases, the keyring package and what a client imported.  `paur init`,*)
(* `repo-init`, `config` and `keyring-build` are processes beside the      *)
(* daemon, and each may die between any two of its steps.                  *)
(***************************************************************************)
EXTENDS Naturals, Sequences

CONSTANTS
    Clis,       \* command line processes
    Emails,     \* the uids of keys
    Commands,   \* the commands the operator runs: [op, force, email]
    MaxKeys,    \* keys in the keyring
    MaxRuns     \* commands, daemon starts and wiped files of a behaviour

ASSUME KeyringAssumption ==
    /\ MaxKeys \in Nat /\ MaxRuns \in Nat /\ Emails # {}
    /\ Commands \subseteq [op : {"init", "repo_init", "keyring_build", "config_set"},
                           force : BOOLEAN, email : Emails]

Variants == <<"default", "v3", "v4">>            \* Variant::all()
Dirs     == {Variants[i] : i \in DOMAIN Variants}
KeyId    == 0..MaxKeys                            \* a fingerprint; 0: none

VARIABLES
    keys,        \* the secret keyring: the emails, in order of creation
    setting,     \* settings.gpg_key_id
    pubkey,      \* per directory: the key in paur.pubkey.asc, 0 if missing
    dbs,         \* directories with a database file
    db_key,      \* per directory: who signed the database, 0: nobody
    keyring,     \* the published keyring package: [pub, trusted, signed]
    daemon,      \* [up, key: RepoCtx.gpg_key, heal: next directory to heal, hkey]
    cpc, cmd,    \* per process: the next step; the command and its locals
    client,      \* the key a client imported from the install page, 0: none
    runs,        \* how much the operator did so far
    changed      \* history: the setting was overwritten with another key

vars == <<keys, setting, pubkey, dbs, db_key, keyring, daemon, cpc, cmd, client, runs, changed>>
host_vars == <<keys, setting, pubkey, dbs, db_key, keyring, changed>>

NoCmd     == [op |-> "none", force |-> FALSE, email |-> CHOOSE e \in Emails : TRUE,
              key |-> 0, pub |-> 0]
NoKeyring == [pub |-> 0, trusted |-> 0, signed |-> 0]
Down      == [up |-> FALSE, key |-> 0, heal |-> 0, hkey |-> 0]

Init ==
    /\ keys = <<>> /\ setting = 0
    /\ pubkey = [d \in Dirs |-> 0] /\ dbs = {} /\ db_key = [d \in Dirs |-> 0]
    /\ keyring = NoKeyring /\ daemon = Down
    /\ cpc = [p \in Clis |-> "idle"] /\ cmd = [p \in Clis |-> NoCmd]
    /\ client = 0 /\ runs = 0 /\ changed = FALSE

CGoto(p, l) == cpc' = [cpc EXCEPT ![p] = l]
Done(p)     == CGoto(p, "idle") /\ cmd' = [cmd EXCEPT ![p] = NoCmd]
WithKey(p, k, l) == CGoto(p, l) /\ cmd' = [cmd EXCEPT ![p].key = k]

\* export_pubkey and set_setting
export_pubkey(d, k) == pubkey' = [pubkey EXCEPT ![d] = k]
set_setting(k) ==
    /\ setting' = k
    /\ changed' = (changed \/ setting \notin {0, k})

\* list_signing_key takes the first fingerprint gpg prints for the email: the
\* oldest key's.
HasKey(e) == \E i \in DOMAIN keys : keys[i] = e
list_signing_key(e) ==
    CHOOSE i \in DOMAIN keys : keys[i] = e /\ \A j \in 1..(i - 1) : keys[j] # e

\* The key a publisher signs with, for as long as it keeps the context.
build_repo_ctx == setting

\* The commands read the setting first.
run_command(p) ==
    /\ cpc[p] = "idle" /\ runs < MaxRuns
    /\ runs' = runs + 1
    /\ \E c \in Commands :
         /\ cmd' = [cmd EXCEPT ![p] = [NoCmd EXCEPT !.op = c.op, !.force = c.force,
                                                    !.email = c.email]]
         /\ CGoto(p, c.op)
    /\ UNCHANGED <<host_vars, daemon, client>>

init_read(p) ==
    /\ cpc[p] = "init"
    /\ IF setting # 0 /\ ~cmd[p].force THEN Done(p)
       ELSE CGoto(p, IF cmd[p].force THEN "generate" ELSE "list") /\ UNCHANGED cmd
    /\ UNCHANGED <<host_vars, daemon, client, runs>>

\* A key of this email is reused; so is it after a new one was generated.
init_list(p) ==
    /\ cpc[p] = "list"
    /\ IF HasKey(cmd[p].email) THEN WithKey(p, list_signing_key(cmd[p].email), "set")
                               ELSE CGoto(p, "generate") /\ UNCHANGED cmd
    /\ UNCHANGED <<host_vars, daemon, client, runs>>

generate_key(p) ==
    /\ cpc[p] = "generate" /\ Len(keys) < MaxKeys
    /\ keys' = Append(keys, cmd[p].email)
    /\ CGoto(p, "list")
    /\ UNCHANGED <<setting, pubkey, dbs, db_key, keyring, changed, daemon, cmd, client, runs>>

init_set(p) ==
    /\ cpc[p] = "set"
    /\ set_setting(cmd[p].key)
    /\ CGoto(p, "export")
    /\ UNCHANGED <<keys, pubkey, dbs, db_key, keyring, daemon, cmd, client, runs>>

init_export(p) ==
    /\ cpc[p] = "export"
    /\ export_pubkey("default", cmd[p].key)
    /\ CGoto(p, "empty_db")
    /\ UNCHANGED <<keys, setting, dbs, db_key, keyring, changed, daemon, cmd, client, runs>>

\* An empty database, if there is none, and its signature; gpg may fail.
init_empty_db(p) ==
    /\ cpc[p] = "empty_db"
    /\ dbs' = dbs \cup {"default"}
    /\ \/ "default" \notin dbs /\ db_key' = [db_key EXCEPT !["default"] = cmd[p].key]
       \/ UNCHANGED db_key
    /\ Done(p)
    /\ UNCHANGED <<keys, setting, pubkey, keyring, changed, daemon, client, runs>>

\* `paur config gpg_key_id <fpr>` with some key of the keyring.
config_set(p) ==
    /\ cpc[p] = "config_set"
    /\ \/ keys = <<>> /\ UNCHANGED <<setting, changed>>
       \/ \E k \in DOMAIN keys : set_setting(k)
    /\ Done(p)
    /\ UNCHANGED <<keys, pubkey, dbs, db_key, keyring, daemon, client, runs>>

repo_init_read(p) ==
    /\ cpc[p] = "repo_init"
    /\ IF setting = 0 THEN Done(p) /\ UNCHANGED dbs
       ELSE WithKey(p, setting, "repo_export") /\ dbs' = dbs \cup {"default"}
    /\ UNCHANGED <<keys, setting, pubkey, db_key, keyring, changed, daemon, client, runs>>

repo_init_export(p) ==
    /\ cpc[p] = "repo_export"
    /\ export_pubkey("default", cmd[p].key)
    /\ Done(p)
    /\ UNCHANGED <<keys, setting, dbs, db_key, keyring, changed, daemon, client, runs>>

keyring_build_read(p) ==
    /\ cpc[p] = "keyring_build"
    /\ IF setting = 0 THEN Done(p) ELSE WithKey(p, setting, "stage")
    /\ UNCHANGED <<host_vars, daemon, client, runs>>

\* write_pkgbuild copies the served public key beside the fingerprint; without
\* one build_meta_package ends there.
write_pkgbuild(p) == cmd' = [cmd EXCEPT ![p].pub = pubkey["default"]]
build_meta_package(p) ==
    /\ cpc[p] = "stage"
    /\ IF pubkey["default"] = 0 THEN Done(p) ELSE write_pkgbuild(p) /\ CGoto(p, "build")
    /\ UNCHANGED <<host_vars, daemon, client, runs>>

\* The container fails, or leaves an artifact.
run_local_in_container(p) ==
    /\ cpc[p] = "build"
    /\ Done(p) \/ (CGoto(p, "publish") /\ UNCHANGED cmd)
    /\ UNCHANGED <<host_vars, daemon, client, runs>>

\* build_repo_ctx reads the setting again, and publish signs with that.
keyring_build_publish(p) ==
    /\ cpc[p] = "publish"
    /\ keyring' = [pub |-> cmd[p].pub, trusted |-> cmd[p].key, signed |-> build_repo_ctx]
    /\ dbs' = dbs \cup {"default"}
    /\ db_key' = [db_key EXCEPT !["default"] = build_repo_ctx]
    /\ Done(p)
    /\ UNCHANGED <<keys, setting, pubkey, changed, daemon, client, runs>>

\* ^C, or a statement or gpg that fails: the command ends where it is.
die(p) ==
    /\ cpc[p] # "idle"
    /\ Done(p)
    /\ UNCHANGED <<host_vars, daemon, client, runs>>

\* `paur serve`: build_repo_ctx keeps the key for as long as the daemon runs.
serve ==
    /\ ~daemon.up /\ setting # 0 /\ runs < MaxRuns
    /\ runs' = runs + 1
    /\ daemon' = [up |-> TRUE, key |-> build_repo_ctx, heal |-> 1, hkey |-> 0]
    /\ UNCHANGED <<host_vars, cpc, cmd, client>>

stop ==
    /\ daemon.up
    /\ daemon' = Down
    /\ UNCHANGED <<host_vars, cpc, cmd, client, runs>>

HealDir == Variants[daemon.heal]

\* ensure_served_pubkey reads the setting, then exports it where there is no
\* file; a file that is there is left alone.
ensure_served_pubkey_read ==
    /\ daemon.up /\ daemon.heal = 1 /\ daemon.hkey = 0
    /\ daemon' = [daemon EXCEPT !.hkey = setting]
    /\ UNCHANGED <<host_vars, cpc, cmd, client, runs>>

\* Mutant: the first key of the keyring is exported.
ensure_served_pubkey_first ==
    /\ daemon.up /\ daemon.heal # 0 /\ daemon.hkey # 0
    /\ IF pubkey[HealDir] = 0 THEN export_pubkey(HealDir, 1) ELSE UNCHANGED pubkey
    /\ daemon' = [daemon EXCEPT !.heal = IF @ = Len(Variants) THEN 0 ELSE @ + 1]
    /\ UNCHANGED <<keys, setting, dbs, db_key, keyring, changed, cpc, cmd, client, runs>>

\* Mutant: the loop runs past the last variant.
ensure_served_pubkey_past ==
    /\ daemon.up /\ daemon.heal \in DOMAIN Variants /\ daemon.hkey # 0
    /\ IF pubkey[HealDir] = 0 THEN export_pubkey(HealDir, daemon.hkey) ELSE UNCHANGED pubkey
    /\ daemon' = [daemon EXCEPT !.heal = @ + 1]
    /\ UNCHANGED <<keys, setting, dbs, db_key, keyring, changed, cpc, cmd, client, runs>>

ensure_served_pubkey ==
    /\ daemon.up /\ daemon.heal # 0 /\ daemon.hkey # 0
    /\ IF pubkey[HealDir] = 0 THEN export_pubkey(HealDir, daemon.hkey) ELSE UNCHANGED pubkey
    /\ daemon' = [daemon EXCEPT !.heal = IF @ = Len(Variants) THEN 0 ELSE @ + 1]
    /\ UNCHANGED <<keys, setting, dbs, db_key, keyring, changed, cpc, cmd, client, runs>>

\* A publish of the worker or a removal (RepoPublish), seen from the key.
sign(d) ==
    /\ daemon.up
    /\ dbs' = dbs \cup {d}
    /\ db_key' = [db_key EXCEPT ![d] = daemon.key]
    /\ UNCHANGED <<keys, setting, pubkey, keyring, changed, daemon, cpc, cmd, client, runs>>

\* The operator's rsync --delete removes a public key.
wipe(d) ==
    /\ pubkey[d] # 0 /\ runs < MaxRuns
    /\ runs' = runs + 1
    /\ pubkey' = [pubkey EXCEPT ![d] = 0]
    /\ UNCHANGED <<keys, setting, dbs, db_key, keyring, changed, daemon, cpc, cmd, client>>

\* The install page: install_fpr names the primary key of the served file, and
\* the client imports it.
install_fpr ==
    /\ daemon.up /\ client = 0 /\ pubkey["default"] # 0
    /\ client' = pubkey["default"]
    /\ UNCHANGED <<host_vars, daemon, cpc, cmd, runs>>

Cli(p) ==
    \/ run_command(p)
    \/ init_read(p) \/ init_list(p) \/ generate_key(p) \/ init_set(p) \/ init_export(p)
    \/ init_empty_db(p) \/ config_set(p) \/ repo_init_read(p) \/ repo_init_export(p)
    \/ keyring_build_read(p) \/ build_meta_package(p) \/ run_local_in_container(p)
    \/ keyring_build_publish(p) \/ die(p)

Next ==
    \/ \E p \in Clis : Cli(p)
    \/ serve \/ stop
    \/ ensure_served_pubkey_read \/ ensure_served_pubkey
    \/ \E d \in Dirs : sign(d) \/ wipe(d)
    \/ install_fpr

Spec == Init /\ [][Next]_vars

------------------------------------------------------------------------------
(* Properties *)

Steps == {"idle", "init", "list", "generate", "set", "export", "empty_db", "config_set",
          "repo_init", "repo_export", "keyring_build", "stage", "build", "publish"}

Cmd == [op : {"none", "init", "repo_init", "keyring_build", "config_set"},
        force : BOOLEAN, email : Emails, key : KeyId, pub : KeyId]
KeyringPkg == [pub : KeyId, trusted : KeyId, signed : KeyId]
Daemon     == [up : BOOLEAN, key : KeyId, heal : 0..Len(Variants), hkey : KeyId]

TypeKeys   == keys \in Seq(Emails) /\ Len(keys) <= MaxKeys
TypeSet    == setting \in KeyId /\ changed \in BOOLEAN
TypeFiles  == pubkey \in [Dirs -> KeyId] /\ dbs \subseteq Dirs /\ db_key \in [Dirs -> KeyId]
TypePkg    == keyring \in KeyringPkg
TypeDaemon == daemon \in Daemon
TypeCli    == cpc \in [Clis -> Steps] /\ cmd \in [Clis -> Cmd]
TypeRest   == client \in KeyId /\ runs \in 0..MaxRuns

\* Keys, files and locals are of their kind.
TypeOK ==
    TypeKeys /\ TypeSet /\ TypeFiles /\ TypePkg /\ TypeDaemon /\ TypeCli /\ TypeRest

\* As long as the setting was never given another key, every copy of it agrees
\* with it: the exported files, whoever exported them, the signatures, the
\* running daemon, both halves of the keyring package and the client, through
\* interrupted and concurrent `paur init`s, wiped files and restarts.
ServedKeysAgree ==
    ~changed =>
        /\ \A d \in Dirs : pubkey[d] \in {0, setting} /\ db_key[d] \in {0, setting}
        /\ daemon.key \in {0, setting}
        /\ keyring \in {NoKeyring, [pub |-> setting, trusted |-> setting, signed |-> setting]}
        /\ client \in {0, setting}

\* ensure_served_pubkey's promise (worker.rs:395-399): once a daemon that started
\* with the current key has been through the directories, the served files match
\* the key id stored in the settings.
HealedMatches ==
    (/\ daemon.up /\ daemon.heal = 0 /\ daemon.key = setting /\ daemon.hkey = setting
     /\ \A p \in Clis : cpc[p] = "idle")
        => \A d \in Dirs : pubkey[d] \in {0, setting}
=============================================================================
