---------------------------- MODULE KeyringProofs ----------------------------
(***************************************************************************)
(* ServedKeysAgree for any number of processes, emails, keys and commands. *)
(* It is not inductive: a command or the daemon that read the setting, or  *)
(* the served key, writes it elsewhere later.  InFlight says that what is  *)
(* held in between is the setting too, until the setting is changed.       *)
(***************************************************************************)
EXTENDS Keyring, WellFoundedInduction, TLAPS

\* What the commands and the daemon hold between a read and a write.
InFlight ==
    ~changed =>
        /\ daemon.hkey \in {0, setting}
        /\ \A p \in Clis :
             /\ cpc[p] \in {"export", "empty_db", "repo_export", "stage", "build", "publish"}
                  => cmd[p].key = setting
             /\ cpc[p] \in {"build", "publish"} => cmd[p].pub = setting

\* A key that is held is a key: a command without one has ended before.
HeldKeys ==
    \A p \in Clis :
        /\ cpc[p] \in {"set", "export", "empty_db", "repo_export", "stage", "build", "publish"}
             => cmd[p].key # 0
        /\ cpc[p] \in {"build", "publish"} => cmd[p].pub # 0

KInv == TypeOK /\ HeldKeys /\ ServedKeysAgree /\ InFlight

\* The idle command's record is a command.
LEMMA NoCmdType == NoCmd \in Cmd
<1>. DEFINE e == CHOOSE x \in Emails : TRUE
<1>1. e \in Emails  BY KeyringAssumption
<1>. HIDE DEF e
<1>2. [op |-> "none", force |-> FALSE, email |-> e, key |-> 0, pub |-> 0] \in Cmd
  BY <1>1, KeyringAssumption DEF Cmd, KeyId
<1>. QED  BY <1>2 DEF NoCmd, e

\* A command that begins, from the operator's list.
LEMMA BegunType ==
    ASSUME NEW c \in Commands
    PROVE  [NoCmd EXCEPT !.op = c.op, !.force = c.force, !.email = c.email] \in Cmd
BY NoCmdType, KeyringAssumption DEF Cmd

\* Filling in a local of a command.
LEMMA FilledType ==
    ASSUME NEW c \in Cmd, NEW k \in KeyId
    PROVE  [c EXCEPT !.key = k] \in Cmd /\ [c EXCEPT !.pub = k] \in Cmd
BY DEF Cmd

\* The three directories by name.
LEMMA DirsAre ==
    /\ Dirs = {"default", "v3", "v4"} /\ Len(Variants) = 3
    /\ \A i \in 1..3 : Variants[i] \in Dirs
BY DEF Dirs, Variants

\* A set of naturals with an element has a least one.
LEMMA LeastNat ==
    ASSUME NEW S \in SUBSET Nat, S # {}
    PROVE  \E x \in S : \A y \in S : x <= y
<1>1. PICK x \in S : \A y \in S : ~(<<y, x>> \in OpToRel(<, Nat))
  BY NatLessThanWellFounded, WFMin, Zenon
<1>2. \A y \in S : y < x => <<y, x>> \in OpToRel(<, Nat)
  BY DEF OpToRel
<1>3. \A y \in S : ~(y < x)
  BY <1>1, <1>2, Zenon
<1>4. \A y \in S : x \in Nat /\ y \in Nat
  OBVIOUS
<1>. QED  BY <1>3, <1>4

\* list_signing_key returns a key of the keyring (lib.rs:417-444), since one of
\* that email is first.
LEMMA ListedKey ==
    ASSUME TypeOK, NEW e, HasKey(e)
    PROVE  list_signing_key(e) \in 1..MaxKeys
<1>. DEFINE S == {i \in DOMAIN keys : keys[i] = e}
<1>1. DOMAIN keys = 1..Len(keys) /\ Len(keys) \in Nat /\ Len(keys) <= MaxKeys
  BY DEF TypeOK, TypeKeys
<1>2. S \in SUBSET Nat /\ S # {}
  BY <1>1 DEF HasKey
<1>3. PICK x \in S : \A y \in S : x <= y
  BY <1>2, LeastNat
<1>4. keys[x] = e /\ \A j \in 1..(x - 1) : keys[j] # e
  BY <1>1, <1>3
<1>5. list_signing_key(e) \in DOMAIN keys
  BY <1>3, <1>4 DEF list_signing_key
<1>. QED  BY <1>1, <1>5, KeyringAssumption

\* Every step keeps the types: the locals of the commands, the keyring and the
\* files stay keys, directories and steps.
LEMMA TypeStep == TypeOK /\ [Next]_vars => TypeOK'
<1>. SUFFICES ASSUME TypeOK, [Next]_vars PROVE TypeOK'
  OBVIOUS
<1>. USE KeyringAssumption
<1>1. ASSUME NEW p \in Clis, run_command(p) PROVE TypeOK'
  <2>1. TypeCli'
    BY <1>1, BegunType DEF run_command, TypeCli, CGoto, Steps, TypeOK
  <2>2. TypeRest'
    BY <1>1 DEF run_command, TypeRest, TypeOK
  <2>. QED
    BY <1>1, <2>1, <2>2 DEF run_command, host_vars, TypeOK, TypeKeys, TypeSet, TypeFiles, TypePkg, TypeDaemon
<1>2. ASSUME NEW p \in Clis, init_read(p) PROVE TypeOK'
  <2>1. TypeCli'
    BY <1>2, NoCmdType DEF init_read, TypeCli, Done, CGoto, Steps, TypeOK
  <2>. QED
    BY <1>2, <2>1 DEF init_read, host_vars, TypeOK, TypeKeys, TypeSet, TypeFiles, TypePkg, TypeDaemon, TypeRest
<1>3. ASSUME NEW p \in Clis, init_list(p) PROVE TypeOK'
  <2>1. HasKey(cmd[p].email)
        => [cmd[p] EXCEPT !.key = list_signing_key(cmd[p].email)] \in Cmd
    <3>1. cmd[p] \in Cmd  BY DEF TypeOK, TypeCli
    <3>2. HasKey(cmd[p].email) => list_signing_key(cmd[p].email) \in 1..MaxKeys
      BY ListedKey
    <3>3. 1..MaxKeys \subseteq KeyId  BY DEF KeyId
    <3>. QED  BY <3>1, <3>2, <3>3, FilledType
  <2>2. TypeCli'
    BY <1>3, <2>1 DEF init_list, TypeCli, WithKey, CGoto, Steps, TypeOK
  <2>. QED
    BY <1>3, <2>2 DEF init_list, host_vars, TypeOK, TypeKeys, TypeSet, TypeFiles, TypePkg, TypeDaemon, TypeRest
<1>4. ASSUME NEW p \in Clis, generate_key(p) PROVE TypeOK'
  <2>1. cmd[p].email \in Emails
    BY DEF TypeOK, TypeCli, Cmd
  <2>2. TypeKeys'
    BY <1>4, <2>1 DEF generate_key, TypeKeys, TypeCli, Cmd, TypeOK
  <2>3. TypeCli'
    BY <1>4 DEF generate_key, TypeCli, CGoto, Steps, TypeOK
  <2>. QED
    BY <1>4, <2>2, <2>3 DEF generate_key, host_vars, TypeOK, TypeSet, TypeFiles, TypePkg, TypeDaemon, TypeRest
<1>5. ASSUME NEW p \in Clis, init_set(p) PROVE TypeOK'
  <2>1. TypeSet'
    BY <1>5 DEF init_set, TypeSet, set_setting, TypeCli, Cmd, TypeOK
  <2>2. TypeCli'
    BY <1>5 DEF init_set, TypeCli, CGoto, Steps, TypeOK
  <2>. QED
    BY <1>5, <2>1, <2>2 DEF init_set, host_vars, TypeOK, TypeKeys, TypeFiles, TypePkg, TypeDaemon, TypeRest
<1>6. ASSUME NEW p \in Clis, init_export(p) PROVE TypeOK'
  <2>1. TypeFiles'
    BY <1>6, DirsAre DEF init_export, TypeFiles, export_pubkey, TypeCli, Cmd, TypeOK
  <2>2. TypeCli'
    BY <1>6 DEF init_export, TypeCli, CGoto, Steps, TypeOK
  <2>. QED
    BY <1>6, <2>1, <2>2 DEF init_export, host_vars, TypeOK, TypeKeys, TypeSet, TypePkg, TypeDaemon, TypeRest
<1>7. ASSUME NEW p \in Clis, init_empty_db(p) PROVE TypeOK'
  <2>1. TypeFiles'
    BY <1>7, DirsAre DEF init_empty_db, TypeFiles, TypeCli, Cmd, TypeOK
  <2>2. TypeCli'
    BY <1>7, NoCmdType DEF init_empty_db, TypeCli, Done, CGoto, Steps, TypeOK
  <2>. QED
    BY <1>7, <2>1, <2>2 DEF init_empty_db, host_vars, TypeOK, TypeKeys, TypeSet, TypePkg, TypeDaemon, TypeRest
<1>8. ASSUME NEW p \in Clis, config_set(p) PROVE TypeOK'
  <2>1. TypeSet'
    <3>1. \A k \in DOMAIN keys : k \in KeyId
      BY DEF TypeOK, TypeKeys, KeyId
    <3>2. (changed \/ TRUE) \in BOOLEAN /\ \A k : (changed \/ setting \notin {0, k}) \in BOOLEAN
      OBVIOUS
    <3>. QED  BY <1>8, <3>1, <3>2 DEF config_set, TypeSet, set_setting, TypeOK
  <2>2. TypeCli'
    BY <1>8, NoCmdType DEF config_set, TypeCli, Done, CGoto, Steps, TypeOK
  <2>. QED
    BY <1>8, <2>1, <2>2 DEF config_set, host_vars, TypeOK, TypeKeys, TypeFiles, TypePkg, TypeDaemon, TypeRest
<1>9. ASSUME NEW p \in Clis, repo_init_read(p) PROVE TypeOK'
  <2>1. TypeFiles'
    <3>1. dbs' \in {dbs, dbs \cup {"default"}}
      BY <1>9 DEF repo_init_read
    <3>. QED  BY <1>9, <3>1, DirsAre DEF repo_init_read, TypeFiles, TypeOK
  <2>2. TypeCli'
    <3>1. [cmd[p] EXCEPT !.key = setting] \in Cmd
      BY FilledType DEF TypeOK, TypeCli, TypeSet
    <3>2. CASE setting = 0
      BY <1>9, <3>2, NoCmdType DEF repo_init_read, TypeCli, Done, CGoto, Steps, TypeOK
    <3>3. CASE setting # 0
      BY <1>9, <3>1, <3>3 DEF repo_init_read, TypeCli, WithKey, CGoto, Steps, TypeOK
    <3>. QED  BY <3>2, <3>3
  <2>. QED
    BY <1>9, <2>1, <2>2 DEF repo_init_read, host_vars, TypeOK, TypeKeys, TypeSet, TypePkg, TypeDaemon, TypeRest
<1>10. ASSUME NEW p \in Clis, repo_init_export(p) PROVE TypeOK'
  <2>1. TypeFiles'
    BY <1>10, DirsAre DEF repo_init_export, TypeFiles, export_pubkey, TypeCli, Cmd, TypeOK
  <2>2. TypeCli'
    BY <1>10, NoCmdType DEF repo_init_export, TypeCli, Done, CGoto, Steps, TypeOK
  <2>. QED
    BY <1>10, <2>1, <2>2 DEF repo_init_export, host_vars, TypeOK, TypeKeys, TypeSet, TypePkg, TypeDaemon, TypeRest
<1>11. ASSUME NEW p \in Clis, keyring_build_read(p) PROVE TypeOK'
  <2>1. TypeCli'
    <3>1. [cmd[p] EXCEPT !.key = setting] \in Cmd
      BY FilledType DEF TypeOK, TypeCli, TypeSet
    <3>. QED  BY <1>11, <3>1, NoCmdType
         DEF keyring_build_read, TypeCli, WithKey, Done, CGoto, Steps, TypeOK
  <2>. QED
    BY <1>11, <2>1 DEF keyring_build_read, host_vars, TypeOK, TypeKeys, TypeSet, TypeFiles, TypePkg, TypeDaemon, TypeRest
<1>12. ASSUME NEW p \in Clis, build_meta_package(p) PROVE TypeOK'
  <2>1. TypeCli'
    <3>1. [cmd[p] EXCEPT !.pub = pubkey["default"]] \in Cmd
      BY FilledType, DirsAre DEF TypeOK, TypeCli, TypeFiles
    <3>. QED  BY <1>12, <3>1, NoCmdType DEF build_meta_package, write_pkgbuild, TypeCli, Done, CGoto, Steps, TypeOK
  <2>. QED
    BY <1>12, <2>1 DEF build_meta_package, write_pkgbuild, host_vars, TypeOK, TypeKeys, TypeSet, TypeFiles, TypePkg, TypeDaemon, TypeRest
<1>13. ASSUME NEW p \in Clis, run_local_in_container(p) PROVE TypeOK'
  <2>1. TypeCli'
    BY <1>13, NoCmdType DEF run_local_in_container, TypeCli, Done, CGoto, Steps, TypeOK
  <2>. QED
    BY <1>13, <2>1 DEF run_local_in_container, host_vars, TypeOK, TypeKeys, TypeSet, TypeFiles, TypePkg, TypeDaemon, TypeRest
<1>14. ASSUME NEW p \in Clis, keyring_build_publish(p) PROVE TypeOK'
  <2>1. TypePkg'
    BY <1>14 DEF keyring_build_publish, build_repo_ctx, TypePkg, KeyringPkg, TypeCli, Cmd, TypeSet, TypeOK
  <2>2. TypeFiles'
    BY <1>14, DirsAre DEF keyring_build_publish, build_repo_ctx, TypeFiles, TypeSet, TypeOK
  <2>3. TypeCli'
    BY <1>14, NoCmdType DEF keyring_build_publish, build_repo_ctx, TypeCli, Done, CGoto, Steps, TypeOK
  <2>. QED
    BY <1>14, <2>1, <2>2, <2>3 DEF keyring_build_publish, build_repo_ctx, host_vars, TypeOK, TypeKeys, TypeSet, TypeDaemon, TypeRest
<1>15. ASSUME NEW p \in Clis, die(p) PROVE TypeOK'
  <2>1. TypeCli'
    BY <1>15, NoCmdType DEF die, TypeCli, Done, CGoto, Steps, TypeOK
  <2>. QED
    BY <1>15, <2>1 DEF die, host_vars, TypeOK, TypeKeys, TypeSet, TypeFiles, TypePkg, TypeDaemon, TypeRest
<1>16. CASE serve
  <2>1. TypeDaemon'
    BY <1>16, DirsAre DEF serve, build_repo_ctx, TypeDaemon, Daemon, TypeSet, KeyId, TypeOK
  <2>2. TypeRest'
    BY <1>16 DEF serve, build_repo_ctx, TypeRest, TypeOK
  <2>. QED
    BY <1>16, <2>1, <2>2 DEF serve, build_repo_ctx, host_vars, TypeOK, TypeKeys, TypeSet, TypeFiles, TypePkg, TypeCli
<1>17. CASE stop
  <2>1. TypeDaemon'
    BY <1>17, DirsAre DEF stop, TypeDaemon, Daemon, Down, KeyId, TypeOK
  <2>. QED
    BY <1>17, <2>1 DEF stop, host_vars, TypeOK, TypeKeys, TypeSet, TypeFiles, TypePkg, TypeCli, TypeRest
<1>18. CASE ensure_served_pubkey_read
  <2>1. TypeDaemon'
    BY <1>18 DEF ensure_served_pubkey_read, TypeDaemon, Daemon, TypeSet, TypeOK
  <2>. QED
    BY <1>18, <2>1 DEF ensure_served_pubkey_read, host_vars, TypeOK, TypeKeys, TypeSet, TypeFiles, TypePkg, TypeCli, TypeRest
<1>19. CASE ensure_served_pubkey
  <2>1. TypeFiles'
    BY <1>19, DirsAre DEF ensure_served_pubkey, TypeFiles, export_pubkey, HealDir, TypeDaemon, Daemon, TypeOK
  <2>2. TypeDaemon'
    BY <1>19, DirsAre DEF ensure_served_pubkey, TypeDaemon, Daemon, TypeOK
  <2>. QED
    BY <1>19, <2>1, <2>2 DEF ensure_served_pubkey, host_vars, TypeOK, TypeKeys, TypeSet, TypePkg, TypeCli, TypeRest
<1>20. CASE install_fpr
  <2>1. TypeRest'
    BY <1>20, DirsAre DEF install_fpr, TypeRest, TypeFiles, TypeOK
  <2>. QED
    BY <1>20, <2>1 DEF install_fpr, host_vars, TypeOK, TypeKeys, TypeSet, TypeFiles, TypePkg, TypeDaemon, TypeCli
<1>21. ASSUME NEW d \in Dirs, sign(d) PROVE TypeOK'
  <2>1. TypeFiles'
    BY <1>21 DEF sign, TypeFiles, TypeDaemon, Daemon, TypeOK
  <2>. QED
    BY <1>21, <2>1 DEF sign, host_vars, TypeOK, TypeKeys, TypeSet, TypePkg, TypeDaemon, TypeCli, TypeRest
<1>22. ASSUME NEW d \in Dirs, wipe(d) PROVE TypeOK'
  <2>1. TypeFiles'
    BY <1>22 DEF wipe, TypeFiles, KeyId, TypeOK
  <2>2. TypeRest'
    BY <1>22 DEF wipe, TypeRest, TypeOK
  <2>. QED
    BY <1>22, <2>1, <2>2 DEF wipe, host_vars, TypeOK, TypeKeys, TypeSet, TypePkg, TypeDaemon, TypeCli
<1>23. CASE UNCHANGED vars
  BY <1>23 DEF vars, TypeOK, TypeKeys, TypeSet, TypeFiles, TypePkg, TypeDaemon, TypeCli, TypeRest
<1>. QED
  BY <1>1, <1>2, <1>3, <1>4, <1>5, <1>6, <1>7, <1>8, <1>9, <1>10, <1>11, <1>12, <1>13, <1>14, <1>15, <1>16, <1>17, <1>18, <1>19, <1>20, <1>21, <1>22, <1>23 DEF Next, Cli

\* Every step keeps the held keys: init_list finds a key, and the other reads
\* end the command when there is none.
LEMMA HeldStep == KInv /\ [Next]_vars => HeldKeys'
<1>. SUFFICES ASSUME TypeOK, HeldKeys, [Next]_vars PROVE HeldKeys'
  BY DEF KInv
<1>1. ASSUME NEW p \in Clis, run_command(p) PROVE HeldKeys'
  BY <1>1, KeyringAssumption DEF run_command, CGoto, Done, WithKey, HeldKeys, TypeOK, TypeCli, Cmd
<1>2. ASSUME NEW p \in Clis, init_read(p) PROVE HeldKeys'
  BY <1>2 DEF init_read, CGoto, Done, WithKey, HeldKeys, TypeOK, TypeCli, Cmd
<1>3. ASSUME NEW p \in Clis, init_list(p) PROVE HeldKeys'
  BY <1>3, ListedKey DEF init_list, CGoto, Done, WithKey, HeldKeys, TypeOK, TypeCli, Cmd
<1>4. ASSUME NEW p \in Clis, generate_key(p) PROVE HeldKeys'
  BY <1>4 DEF generate_key, CGoto, Done, WithKey, HeldKeys, TypeOK, TypeCli, Cmd
<1>5. ASSUME NEW p \in Clis, init_set(p) PROVE HeldKeys'
  BY <1>5 DEF init_set, CGoto, Done, WithKey, HeldKeys, TypeOK, TypeCli, Cmd
<1>6. ASSUME NEW p \in Clis, init_export(p) PROVE HeldKeys'
  BY <1>6 DEF init_export, CGoto, Done, WithKey, HeldKeys, TypeOK, TypeCli, Cmd
<1>7. ASSUME NEW p \in Clis, init_empty_db(p) PROVE HeldKeys'
  BY <1>7 DEF init_empty_db, CGoto, Done, WithKey, HeldKeys, TypeOK, TypeCli, Cmd
<1>8. ASSUME NEW p \in Clis, config_set(p) PROVE HeldKeys'
  BY <1>8 DEF config_set, CGoto, Done, WithKey, HeldKeys, TypeOK, TypeCli, Cmd
<1>9. ASSUME NEW p \in Clis, repo_init_read(p) PROVE HeldKeys'
  BY <1>9 DEF repo_init_read, CGoto, Done, WithKey, HeldKeys, TypeOK, TypeCli, Cmd
<1>10. ASSUME NEW p \in Clis, repo_init_export(p) PROVE HeldKeys'
  BY <1>10 DEF repo_init_export, CGoto, Done, WithKey, HeldKeys, TypeOK, TypeCli, Cmd
<1>11. ASSUME NEW p \in Clis, keyring_build_read(p) PROVE HeldKeys'
  BY <1>11 DEF keyring_build_read, CGoto, Done, WithKey, HeldKeys, TypeOK, TypeCli, Cmd
<1>12. ASSUME NEW p \in Clis, build_meta_package(p) PROVE HeldKeys'
  BY <1>12 DEF build_meta_package, write_pkgbuild, CGoto, Done, WithKey, HeldKeys, TypeOK, TypeCli, Cmd
<1>13. ASSUME NEW p \in Clis, run_local_in_container(p) PROVE HeldKeys'
  BY <1>13 DEF run_local_in_container, CGoto, Done, WithKey, HeldKeys, TypeOK, TypeCli, Cmd
<1>14. ASSUME NEW p \in Clis, keyring_build_publish(p) PROVE HeldKeys'
  BY <1>14 DEF keyring_build_publish, build_repo_ctx, CGoto, Done, WithKey, HeldKeys, TypeOK, TypeCli, Cmd
<1>15. ASSUME NEW p \in Clis, die(p) PROVE HeldKeys'
  BY <1>15 DEF die, CGoto, Done, WithKey, HeldKeys, TypeOK, TypeCli, Cmd
<1>16. UNCHANGED <<cpc, cmd>> => HeldKeys'
  BY DEF HeldKeys
<1>. QED
  BY <1>1, <1>2, <1>3, <1>4, <1>5, <1>6, <1>7, <1>8, <1>9, <1>10, <1>11, <1>12, <1>13, <1>14, <1>15, <1>16
     DEF Next, Cli, serve, stop, ensure_served_pubkey_read, ensure_served_pubkey, install_fpr, sign, wipe, vars

\* Every step of a command, the daemon, the operator and the client keeps the
\* copies of the key in agreement.
LEMMA AgreeStep == KInv /\ [Next]_vars => (ServedKeysAgree /\ InFlight)'
<1>. SUFFICES ASSUME TypeOK, HeldKeys, ServedKeysAgree, InFlight, [Next]_vars
     PROVE  (ServedKeysAgree /\ InFlight)'
  BY DEF KInv
<1>. USE DirsAre
<1>1. ASSUME NEW p \in Clis, run_command(p) PROVE (ServedKeysAgree /\ InFlight)'
  <2>1. cpc'[p] \in {"init", "repo_init", "keyring_build", "config_set"}
    BY <1>1, KeyringAssumption DEF run_command, CGoto, TypeOK, TypeCli
  <2>2. \A q \in Clis \ {p} : cpc'[q] = cpc[q] /\ cmd'[q] = cmd[q]
    BY <1>1 DEF run_command, CGoto, TypeOK, TypeCli
  <2>3. InFlight'
    BY <1>1, <2>1, <2>2 DEF run_command, host_vars, InFlight
  <2>4. ServedKeysAgree'
    BY <1>1 DEF run_command, host_vars, ServedKeysAgree
  <2>. QED  BY <2>3, <2>4
<1>2. ASSUME NEW p \in Clis, init_read(p) PROVE (ServedKeysAgree /\ InFlight)'
  BY <1>2, TypeOK, ServedKeysAgree, InFlight DEF init_read, host_vars, Done, CGoto, TypeOK, TypeFiles, TypeCli, TypeDaemon,
          ServedKeysAgree, InFlight, Cmd, Daemon, NoKeyring
<1>3. ASSUME NEW p \in Clis, init_list(p) PROVE (ServedKeysAgree /\ InFlight)'
  BY <1>3, TypeOK, ServedKeysAgree, InFlight, ListedKey DEF init_list, host_vars, WithKey, CGoto, TypeOK, TypeFiles, TypeCli, TypeDaemon,
          ServedKeysAgree, InFlight, Cmd, Daemon, NoKeyring
<1>4. ASSUME NEW p \in Clis, generate_key(p) PROVE (ServedKeysAgree /\ InFlight)'
  BY <1>4, TypeOK, ServedKeysAgree, InFlight DEF generate_key, host_vars, CGoto, TypeOK, TypeFiles, TypeCli, TypeDaemon,
          ServedKeysAgree, InFlight, Cmd, Daemon, NoKeyring
<1>5. ASSUME NEW p \in Clis, init_set(p) PROVE (ServedKeysAgree /\ InFlight)'
  <2>. SUFFICES ASSUME ~changed' PROVE (ServedKeysAgree /\ InFlight)'
    BY DEF ServedKeysAgree, InFlight
  <2>1. ~changed /\ setting \in {0, cmd[p].key} /\ setting' = cmd[p].key
    BY <1>5 DEF init_set, set_setting
  <2>2. ServedKeysAgree'
    BY <1>5, <2>1 DEF init_set, ServedKeysAgree, NoKeyring
  <2>3. cpc'[p] = "export" /\ \A q \in Clis \ {p} : cpc'[q] = cpc[q]
    BY <1>5 DEF init_set, CGoto, TypeOK, TypeCli
  <2>4. cmd' = cmd /\ daemon' = daemon
    BY <1>5 DEF init_set
  <2>5. InFlight'
    BY <2>1, <2>3, <2>4 DEF InFlight, HeldKeys
  <2>. QED  BY <2>2, <2>5
<1>6. ASSUME NEW p \in Clis, init_export(p) PROVE (ServedKeysAgree /\ InFlight)'
  BY <1>6, TypeOK, ServedKeysAgree, InFlight DEF init_export, host_vars, export_pubkey, CGoto, TypeOK, TypeFiles, TypeCli, TypeDaemon,
          ServedKeysAgree, InFlight, Cmd, Daemon, NoKeyring
<1>7. ASSUME NEW p \in Clis, init_empty_db(p) PROVE (ServedKeysAgree /\ InFlight)'
  BY <1>7, TypeOK, ServedKeysAgree, InFlight DEF init_empty_db, host_vars, Done, CGoto, TypeOK, TypeFiles, TypeCli, TypeDaemon,
          ServedKeysAgree, InFlight, Cmd, Daemon, NoKeyring
<1>8. ASSUME NEW p \in Clis, config_set(p) PROVE (ServedKeysAgree /\ InFlight)'
  <2>1. \A q \in Clis \ {p} : cpc'[q] = cpc[q] /\ cmd'[q] = cmd[q]
    BY <1>8 DEF config_set, Done, CGoto, TypeOK, TypeCli
  <2>2. cpc'[p] = "idle" /\ daemon' = daemon /\ client' = client /\ keyring' = keyring
        /\ pubkey' = pubkey /\ db_key' = db_key
    BY <1>8 DEF config_set, Done, CGoto, TypeOK, TypeCli
  <2>3. CASE UNCHANGED <<setting, changed>>
    BY <2>1, <2>2, <2>3 DEF ServedKeysAgree, InFlight
  <2>4. ASSUME NEW k \in DOMAIN keys, set_setting(k) PROVE (ServedKeysAgree /\ InFlight)'
    <3>. SUFFICES ASSUME ~changed' PROVE (ServedKeysAgree /\ InFlight)'
      BY DEF ServedKeysAgree, InFlight
    <3>1. ~changed /\ setting \in {0, k} /\ setting' = k
      BY <2>4 DEF set_setting
    <3>2. ServedKeysAgree'
      BY <2>2, <3>1 DEF ServedKeysAgree, NoKeyring
    <3>3. InFlight'
      BY <2>1, <2>2, <3>1 DEF InFlight, HeldKeys
    <3>. QED  BY <3>2, <3>3
  <2>. QED  BY <1>8, <2>3, <2>4 DEF config_set
<1>9. ASSUME NEW p \in Clis, repo_init_read(p) PROVE (ServedKeysAgree /\ InFlight)'
  BY <1>9, TypeOK, ServedKeysAgree, InFlight DEF repo_init_read, host_vars, WithKey, Done, CGoto, TypeOK, TypeFiles, TypeCli, TypeDaemon,
          ServedKeysAgree, InFlight, Cmd, Daemon, NoKeyring
<1>10. ASSUME NEW p \in Clis, repo_init_export(p) PROVE (ServedKeysAgree /\ InFlight)'
  BY <1>10, TypeOK, ServedKeysAgree, InFlight DEF repo_init_export, host_vars, export_pubkey, Done, CGoto, TypeOK, TypeFiles, TypeCli, TypeDaemon,
          ServedKeysAgree, InFlight, Cmd, Daemon, NoKeyring
<1>11. ASSUME NEW p \in Clis, keyring_build_read(p) PROVE (ServedKeysAgree /\ InFlight)'
  BY <1>11, TypeOK, ServedKeysAgree, InFlight DEF keyring_build_read, host_vars, WithKey, Done, CGoto, TypeOK, TypeFiles, TypeCli, TypeDaemon,
          ServedKeysAgree, InFlight, Cmd, Daemon, NoKeyring
<1>12. ASSUME NEW p \in Clis, build_meta_package(p) PROVE (ServedKeysAgree /\ InFlight)'
  BY <1>12, TypeOK, ServedKeysAgree, InFlight DEF build_meta_package, write_pkgbuild, host_vars, Done, CGoto, TypeOK, TypeFiles, TypeCli, TypeDaemon,
          ServedKeysAgree, InFlight, Cmd, Daemon, NoKeyring
<1>13. ASSUME NEW p \in Clis, run_local_in_container(p) PROVE (ServedKeysAgree /\ InFlight)'
  BY <1>13, TypeOK, ServedKeysAgree, InFlight DEF run_local_in_container, host_vars, Done, CGoto, TypeOK, TypeFiles, TypeCli, TypeDaemon,
          ServedKeysAgree, InFlight, Cmd, Daemon, NoKeyring
<1>14. ASSUME NEW p \in Clis, keyring_build_publish(p) PROVE (ServedKeysAgree /\ InFlight)'
  BY <1>14, TypeOK, ServedKeysAgree, InFlight DEF keyring_build_publish, build_repo_ctx, host_vars, Done, CGoto, TypeOK, TypeFiles, TypeCli, TypeDaemon,
          ServedKeysAgree, InFlight, Cmd, Daemon, NoKeyring
<1>15. ASSUME NEW p \in Clis, die(p) PROVE (ServedKeysAgree /\ InFlight)'
  BY <1>15, TypeOK, ServedKeysAgree, InFlight DEF die, host_vars, Done, CGoto, TypeOK, TypeFiles, TypeCli, TypeDaemon,
          ServedKeysAgree, InFlight, Cmd, Daemon, NoKeyring
<1>16. CASE serve
  BY <1>16, TypeOK, ServedKeysAgree, InFlight DEF serve, build_repo_ctx, host_vars, TypeOK, TypeFiles, TypeCli, TypeDaemon,
          ServedKeysAgree, InFlight, Cmd, Daemon, NoKeyring
<1>17. CASE stop
  BY <1>17, TypeOK, ServedKeysAgree, InFlight DEF stop, host_vars, Down, TypeOK, TypeFiles, TypeCli, TypeDaemon,
          ServedKeysAgree, InFlight, Cmd, Daemon, NoKeyring
<1>18. CASE ensure_served_pubkey_read
  BY <1>18, TypeOK, ServedKeysAgree, InFlight DEF ensure_served_pubkey_read, host_vars, TypeOK, TypeFiles, TypeCli, TypeDaemon,
          ServedKeysAgree, InFlight, Cmd, Daemon, NoKeyring
<1>19. CASE ensure_served_pubkey
  BY <1>19, TypeOK, ServedKeysAgree, InFlight DEF ensure_served_pubkey, host_vars, export_pubkey, HealDir, TypeOK, TypeFiles, TypeCli, TypeDaemon,
          ServedKeysAgree, InFlight, Cmd, Daemon, NoKeyring
<1>20. CASE install_fpr
  BY <1>20, TypeOK, ServedKeysAgree, InFlight DEF install_fpr, host_vars, TypeOK, TypeFiles, TypeCli, TypeDaemon,
          ServedKeysAgree, InFlight, Cmd, Daemon, NoKeyring
<1>21. ASSUME NEW d \in Dirs, sign(d) PROVE (ServedKeysAgree /\ InFlight)'
  BY <1>21, TypeOK, ServedKeysAgree, InFlight DEF sign, host_vars, TypeOK, TypeFiles, TypeCli, TypeDaemon,
          ServedKeysAgree, InFlight, Cmd, Daemon, NoKeyring
<1>22. ASSUME NEW d \in Dirs, wipe(d) PROVE (ServedKeysAgree /\ InFlight)'
  BY <1>22, TypeOK, ServedKeysAgree, InFlight DEF wipe, host_vars, TypeOK, TypeFiles, TypeCli, TypeDaemon,
          ServedKeysAgree, InFlight, Cmd, Daemon, NoKeyring
<1>23. CASE UNCHANGED vars
  BY <1>23, TypeOK, ServedKeysAgree, InFlight DEF vars, TypeOK, TypeFiles, TypeCli, TypeDaemon,
          ServedKeysAgree, InFlight, Cmd, Daemon, NoKeyring
<1>. QED
  BY <1>1, <1>2, <1>3, <1>4, <1>5, <1>6, <1>7, <1>8, <1>9, <1>10, <1>11, <1>12, <1>13, <1>14, <1>15, <1>16, <1>17, <1>18, <1>19, <1>20, <1>21, <1>22, <1>23 DEF Next, Cli

\* The fresh host.
LEMMA KInit == Init => KInv
<1>. SUFFICES ASSUME Init PROVE KInv
  OBVIOUS
<1>. USE KeyringAssumption DEF Init
<1>0. TypeKeys
  BY DEF TypeKeys
<1>1. TypeSet /\ TypeRest
  <2>1. changed \in BOOLEAN  BY Zenon
  <2>2. setting \in KeyId /\ TypeRest  BY DEF TypeRest, KeyId
  <2>. QED  BY <2>1, <2>2, Zenon DEF TypeSet
<1>6. TypeFiles
  <2>1. 0 \in KeyId  BY DEF KeyId
  <2>. QED  BY <2>1 DEF TypeFiles
<1>2. TypePkg /\ TypeDaemon
  BY DirsAre DEF TypePkg, TypeDaemon, KeyringPkg, Daemon, NoKeyring, Down, KeyId
<1>3. TypeCli
  BY NoCmdType DEF TypeCli, Steps
<1>4. ServedKeysAgree
  BY DEF ServedKeysAgree, NoKeyring, Down
<1>5. HeldKeys /\ InFlight
  BY DEF HeldKeys, InFlight, Down
<1>. QED  BY <1>0, <1>1, <1>2, <1>3, <1>4, <1>5, <1>6 DEF KInv, TypeOK

\* The keyring's invariant: types, agreement, and what is held in between.
THEOREM KeyringInvariance == Spec => []KInv
<1>1. KInv /\ [Next]_vars => KInv'
  BY TypeStep, HeldStep, AgreeStep DEF KInv
<1>. QED  BY KInit, <1>1, PTL DEF Spec

\* Keys, files, and the locals of the commands and of the daemon are of their kind.
THEOREM TypeCorrect == Spec => []TypeOK
<1>1. KInv => TypeOK  BY DEF KInv
<1>. QED  BY KeyringInvariance, <1>1, PTL

\* For any number of command line processes, emails, keys, restarts and wiped
\* files: until the setting is given another key, the exported public keys, the
\* signatures, the daemon, the keyring package and the client agree with it.
THEOREM KeysAgree == Spec => []ServedKeysAgree
<1>1. KInv => ServedKeysAgree  BY DEF KInv
<1>. QED  BY KeyringInvariance, <1>1, PTL
=============================================================================
