----------------------------- MODULE RepoPublish -----------------------------
(***************************************************************************)
(* paur-repo and the repository half of paur-builder: publish and remove   *)
(* on one architecture directory and the .stage directory beside it.  The  *)
(* worker, the handlers of DELETE and the command line (`paur keyring      *)
(* build`, another process) run them without a lock of their own.  Only    *)
(* repo-add and repo-remove, in their containers, lock the database.       *)
(* A run_repo_op whose caller dies (daemon killed, request dropped, ^C)    *)
(* leaves the container running and nobody to sign what it writes.         *)
(***************************************************************************)
EXTENDS S3Client, Sequences

CONSTANTS
    Jobs,      \* Procs -> what each may run: [op, files]
    Stock,     \* files that were published before
    HasS3,     \* is the mirror configured
    Faults     \* what may fail: "container", "sign", "die"

NoProc == "none"

ASSUME RepoAssumption ==
    /\ NoProc \notin Procs
    /\ HasS3 \in BOOLEAN /\ Stock \subseteq Files
    /\ Faults \subseteq {"container", "sign", "die"}
    /\ \A p \in Procs : \A j \in Jobs[p] :
           /\ j.op \in {"publish", "remove"}
           /\ j.files \in Seq(Files) /\ j.files # <<>>
           /\ j.op = "remove" => Len(j.files) = 1

VARIABLES
    arch,       \* the architecture directory, served to pacman
    stage,      \* <repo_dir>/.stage: the package files in it
    stage_dir,  \* does .stage exist
    db_lock,    \* the process whose container holds <db>.lck
    pc, job,    \* per process: the next step; [op, files, ver, i, body]
    ops,        \* operations started so far
    \* History, read by no action:
    claim,      \* n -> the version of the only operation on n since it began, or 0
    good,       \* names whose publish returned Ok with its claim
    mirrored,   \* names whose last publish had every upload acknowledged
    listed,     \* the ones among them since whose publish no two operations overlapped
    alone,      \* the operation that met no other so far, if any
    settled,    \* no two operations overlapped since one that ran alone succeeded
    last        \* how the last operation ended

repo_vars == <<arch, stage, stage_dir, db_lock>>
op_vars   == <<pc, job, ops>>
s3_vars   == <<mirror, put>>
hist_vars == <<claim, good, mirrored, listed, alone, settled, last>>
vars      == <<repo_vars, op_vars, s3_vars, hist_vars>>

NoJob  == [op |-> "none", files |-> <<>>, ver |-> 0, i |-> 0, body |-> Absent, acked |-> TRUE]
File(p) == job[p].files[job[p].i]
Last(p) == job[p].i = Len(job[p].files)
FilesOf(p) == {job[p].files[i] : i \in DOMAIN job[p].files}
Active(p) == pc[p] # "idle"
Alone(p)  == \A q \in Procs \ {p} : ~Active(q)
Goto(p, l) == pc' = [pc EXCEPT ![p] = l]
AtFile(p, i) == job' = [job EXCEPT ![p].i = i]
\* The next file of the list, or the label after the loop.
Advance(p, here, next) ==
    IF Last(p) THEN Goto(p, next) /\ AtFile(p, 1)
    ELSE Goto(p, here) /\ AtFile(p, job[p].i + 1)

\* The repository as an earlier daemon left it: Stock was published.
Stocked == [n \in Files |-> IF n \in Stock THEN 1 ELSE 0]
Served ==
    [f \in Path |-> IF f \in {Db, DbSig, FilesDb} THEN Stocked ELSE Only(f[2], Stocked[f[2]])]

Init ==
    /\ arch = Served /\ stage = Absent /\ stage_dir = FALSE /\ db_lock = NoProc
    /\ mirror = IF HasS3 THEN [Served EXCEPT ![DbSig] = Absent] ELSE [f \in Path |-> Absent]
    /\ put = [p \in Procs |-> NoPut]
    /\ pc = [p \in Procs |-> "idle"] /\ job = [p \in Procs |-> NoJob] /\ ops = 1
    /\ claim = Stocked /\ good = Stock /\ mirrored = (IF HasS3 THEN Stock ELSE {})
    /\ listed = mirrored /\ alone = {} /\ settled = TRUE /\ last = "ok"

\* A caller of publish or remove.  The files of a publish are new builds.
Begin(p) ==
    /\ pc[p] = "idle" /\ ops < MaxOps
    /\ ops' = ops + 1
    /\ \E j \in Jobs[p] :
         /\ job' = [job EXCEPT ![p] = [NoJob EXCEPT !.op = j.op, !.files = j.files,
                                                    !.ver = ops + 1, !.i = 1]]
         /\ Goto(p, IF j.op = "publish" THEN "copy" ELSE "spawn")
         /\ LET ns == {j.files[i] : i \in DOMAIN j.files}
                Shared(n) == \E q \in Procs : Active(q) /\ n \in FilesOf(q)
            IN /\ claim' = [n \in Files |-> IF n \notin ns THEN claim[n]
                                             ELSE IF Shared(n) THEN 0 ELSE ops + 1]
               /\ good' = good \ ns
    /\ alone' = IF Alone(p) THEN {p} ELSE {}
    /\ listed' = IF Alone(p) THEN listed ELSE {}
    /\ settled' = (settled /\ Alone(p))
    /\ UNCHANGED <<repo_vars, s3_vars, mirrored, last>>

End(p, res) ==
    /\ pc' = [pc EXCEPT ![p] = "idle"]
    /\ job' = [job EXCEPT ![p] = NoJob]
    /\ last' = res
    /\ UNCHANGED <<ops, alone>>

Fail(p) == End(p, "err") /\ UNCHANGED <<s3_vars, claim, good, mirrored, listed, settled>>

\* publish_with copies the artifacts beside the ones being served.
publish_copy(p) ==
    /\ pc[p] = "copy"
    /\ arch' = [arch EXCEPT ![Pkg(File(p))] = Only(File(p), job[p].ver)]
    /\ Advance(p, "copy", "stage_open")
    /\ UNCHANGED <<stage, stage_dir, db_lock, ops, s3_vars, hist_vars>>

\* ContainerRepoOps::add: create .stage, then copy into it what was copied.
add_create_stage(p) ==
    /\ pc[p] = "stage_open"
    /\ stage_dir' = TRUE
    /\ Goto(p, "stage")
    /\ UNCHANGED <<arch, stage, db_lock, job, ops, s3_vars, hist_vars>>

\* The copy fails when another publisher has removed the directory meanwhile.
add_stage(p) ==
    /\ pc[p] = "stage"
    /\ UNCHANGED <<arch, stage_dir, db_lock>>
    /\ \/ /\ stage_dir
          /\ stage' = [stage EXCEPT ![File(p)] = arch[Pkg(File(p))][File(p)]]
          /\ Advance(p, "stage", "spawn")
          /\ UNCHANGED <<ops, s3_vars, hist_vars>>
       \/ /\ ~stage_dir
          /\ UNCHANGED stage
          /\ Fail(p)

\* Mutant: the old signature stays until the new one is made.
run_repo_op_spawn_keep(p) ==
    /\ pc[p] = "spawn"
    /\ stage_dir' = TRUE
    /\ UNCHANGED <<arch, stage>>
    /\ \/ /\ db_lock = NoProc
          /\ db_lock' = p
          /\ Goto(p, "container")
          /\ UNCHANGED <<job, ops, s3_vars, hist_vars>>
       \/ /\ db_lock # NoProc
          /\ UNCHANGED db_lock
          /\ Fail(p)

\* The container is up and build.sh has removed the database's signature;
\* repo-add and repo-remove give up when the database is locked.
run_repo_op_spawn(p) ==
    /\ pc[p] = "spawn"
    /\ stage_dir' = TRUE
    /\ arch' = [arch EXCEPT ![DbSig] = Absent]
    /\ UNCHANGED stage
    /\ \/ /\ db_lock = NoProc
          /\ db_lock' = p
          /\ Goto(p, "container")
          /\ UNCHANGED <<job, ops, s3_vars, hist_vars>>
       \/ /\ db_lock # NoProc
          /\ UNCHANGED db_lock
          /\ Fail(p)

run_repo_op_error(p) ==
    /\ pc[p] = "spawn" /\ "container" \in Faults
    /\ stage_dir' = TRUE
    /\ UNCHANGED <<arch, stage, db_lock>>
    /\ Fail(p)

\* What the container can do: repo-add wants every file, repo-remove an entry.
Doable(p) ==
    IF job[p].op = "publish" THEN \A n \in FilesOf(p) : stage[n] # 0
                             ELSE \A n \in FilesOf(p) : arch[Db][n] # 0
\* Mutant: repo-add starts a database of its own files.
NewDb_fresh(p) ==
    [n \in Files |-> IF job[p].op = "publish" /\ n \in FilesOf(p) THEN stage[n] ELSE 0]

NewDb(p) ==
    [n \in Files |-> IF n \notin FilesOf(p) THEN arch[Db][n]
                     ELSE IF job[p].op = "publish" THEN stage[n] ELSE 0]

\* The container ends: the new database replaces the old one, or nothing does.
container_end(p, ok) ==
    /\ db_lock' = NoProc
    /\ UNCHANGED <<stage, stage_dir>>
    /\ arch' = IF ok THEN [arch EXCEPT ![Db] = NewDb(p), ![FilesDb] = NewDb(p)] ELSE arch

\* Mutant: the exit code is not looked at.
run_repo_op_exit_any(p) ==
    /\ pc[p] = "container"
    /\ container_end(p, Doable(p)) \/ container_end(p, FALSE)
    /\ Goto(p, "sign_db")
    /\ UNCHANGED <<job, ops, s3_vars, hist_vars>>

\* A container that failed ends the operation before anything is signed again.
run_repo_op_exit(p) ==
    /\ pc[p] = "container"
    /\ \/ /\ Doable(p)
          /\ container_end(p, TRUE)
          /\ Goto(p, "sign_db")
          /\ UNCHANGED <<job, ops, s3_vars, hist_vars>>
       \/ /\ ~Doable(p) \/ "container" \in Faults
          /\ container_end(p, FALSE)
          /\ Fail(p)

\* The caller is gone.  Its container, and a gpg not killed with it, go on; of
\* an upload under way the store has what it has.
abandon(p) ==
    /\ Active(p) /\ pc[p] # "orphan" /\ "die" \in Faults
    /\ UNCHANGED repo_vars
    /\ \/ /\ pc[p] \in {"container", "gpg_db"}
          /\ Goto(p, "orphan")
          /\ UNCHANGED <<job, ops, s3_vars, hist_vars>>
       \/ /\ pc[p] # "container"
          /\ End(p, "err")
          /\ (pc[p] = "put" /\ put[p].res = "busy" /\ Stored(p)) \/ UNCHANGED mirror
          /\ put' = [put EXCEPT ![p] = NoPut]
          /\ UNCHANGED <<claim, good, mirrored, listed, settled>>

orphan_end(p) ==
    /\ pc[p] = "orphan"
    /\ IF db_lock = p
         THEN container_end(p, Doable(p))
         ELSE /\ UNCHANGED <<stage, stage_dir, db_lock>>
              /\ arch' = [arch EXCEPT ![DbSig] = job[p].body]
    /\ Fail(p)

\* sign(db): the old signature goes, gpg reads the database ...
sign_db_read(p) ==
    /\ pc[p] = "sign_db"
    /\ arch' = [arch EXCEPT ![DbSig] = Absent]
    /\ job' = [job EXCEPT ![p].body = arch[Db]]
    /\ Goto(p, "gpg_db")
    /\ UNCHANGED <<stage, stage_dir, db_lock, ops, s3_vars, hist_vars>>

\* ... and writes the new one.  remove_with returns here.
sign_db_write(p) ==
    /\ pc[p] = "gpg_db"
    /\ arch' = [arch EXCEPT ![DbSig] = job[p].body]
    /\ UNCHANGED <<stage, stage_dir, db_lock, s3_vars, claim, good, mirrored, listed>>
    /\ \/ /\ job[p].op = "publish"
          /\ Goto(p, "sign_pkg")
          /\ job' = [job EXCEPT ![p].body = Absent]
          /\ UNCHANGED <<ops, alone, settled, last>>
       \/ /\ job[p].op = "remove"
          /\ End(p, "ok")
          /\ settled' = (settled \/ p \in alone)

\* gpg fails: the old signature is gone, of the database or of a package.
sign_error(p) ==
    /\ pc[p] \in {"gpg_db", "sign_pkg"} /\ "sign" \in Faults
    /\ arch' = IF pc[p] = "sign_pkg" THEN [arch EXCEPT ![Sig(File(p))] = Absent] ELSE arch
    /\ UNCHANGED <<stage, stage_dir, db_lock>>
    /\ Fail(p)

sign_pkg(p) ==
    /\ pc[p] = "sign_pkg"
    /\ arch' = [arch EXCEPT ![Sig(File(p))] = arch[Pkg(File(p))]]
    /\ Advance(p, "sign_pkg", "unstage")
    /\ UNCHANGED <<stage, stage_dir, db_lock, ops, s3_vars, hist_vars>>

\* publish_with returns Ok, its uploads acknowledged or not.
Published(p) ==
    /\ End(p, "ok")
    /\ good' = good \cup {n \in FilesOf(p) : claim[n] = job[p].ver}
    /\ UNCHANGED claim
    /\ mirrored' = IF HasS3 /\ job[p].acked THEN mirrored \cup FilesOf(p)
                                            ELSE mirrored \ FilesOf(p)
    /\ listed' = IF HasS3 /\ job[p].acked /\ p \in alone THEN listed \cup FilesOf(p)
                                                         ELSE listed \ FilesOf(p)
    /\ settled' = (settled \/ p \in alone)

\* remove_dir_all(.stage), whoever else has files in it.
publish_unstage(p) ==
    /\ pc[p] = "unstage"
    /\ stage' = Absent /\ stage_dir' = FALSE
    /\ UNCHANGED <<arch, db_lock, s3_vars>>
    /\ IF HasS3 THEN Goto(p, "upload") /\ UNCHANGED <<job, ops, hist_vars>>
                ELSE Published(p)

\* The keys in the order they go up: database, each package and its signature,
\* the .files database.  The signature of the database is not among them.
Uploads(fs) ==
    [i \in 1..(2 * Len(fs) + 2) |->
        IF i = 1 THEN Db ELSE IF i = 2 * Len(fs) + 2 THEN FilesDb
        ELSE IF i % 2 = 0 THEN Pkg(fs[i \div 2]) ELSE Sig(fs[i \div 2])]

UploadKey(p) == Uploads(job[p].files)[job[p].i]
\* Only a signature can be missing: a publish copied the packages, and the
\* databases are there since the first repo-add.
Unsigned(p) == UploadKey(p) \in {Sig(n) : n \in Files} /\ arch[UploadKey(p)] = Absent

\* A signature that does not exist is passed over, without a warning.
upload_skip(p) ==
    /\ pc[p] = "upload" /\ Unsigned(p)
    /\ AtFile(p, job[p].i + 1)
    /\ UNCHANGED <<repo_vars, pc, ops, s3_vars, hist_vars>>

\* upload_path reads the file as it is now.
upload_path(p) ==
    /\ pc[p] = "upload" /\ ~Unsigned(p)
    /\ Request(p, UploadKey(p), arch[UploadKey(p)])
    /\ Goto(p, "put")
    /\ UNCHANGED <<repo_vars, job, ops, mirror, hist_vars>>

upload_answer(p) ==
    /\ pc[p] = "put"
    /\ PutAnswer(p)
    /\ UNCHANGED <<repo_vars, op_vars, hist_vars>>

\* A failed upload is logged and the next one begins.
upload_done(p) ==
    /\ pc[p] = "put" /\ put[p].res \in {"ok", "err"}
    /\ job' = [job EXCEPT ![p].acked = @ /\ put[p].res = "ok", ![p].i = @ + 1]
    /\ put' = [put EXCEPT ![p] = NoPut]
    /\ Goto(p, IF job[p].i = Len(Uploads(job[p].files)) THEN "return" ELSE "upload")
    /\ UNCHANGED <<repo_vars, ops, mirror, hist_vars>>

publish_return(p) ==
    /\ pc[p] = "return"
    /\ Published(p)
    /\ UNCHANGED <<repo_vars, s3_vars>>

Step(p) ==
    \/ publish_copy(p) \/ add_create_stage(p) \/ add_stage(p)
    \/ run_repo_op_spawn(p) \/ run_repo_op_error(p) \/ run_repo_op_exit(p) \/ orphan_end(p)
    \/ sign_db_read(p) \/ sign_db_write(p) \/ sign_error(p) \/ sign_pkg(p)
    \/ publish_unstage(p)
    \/ upload_skip(p) \/ upload_path(p) \/ upload_answer(p) \/ upload_done(p)
    \/ publish_return(p)

Next == \E p \in Procs : Begin(p) \/ Step(p) \/ abandon(p)

Spec == Init /\ [][Next]_vars

------------------------------------------------------------------------------
(* Properties *)

Labels == {"idle", "copy", "stage_open", "stage", "spawn", "container", "orphan", "sign_db",
           "gpg_db", "sign_pkg", "unstage", "upload", "put", "return"}
Job == [op : {"none", "publish", "remove"}, files : Seq(Files), ver : Versions,
        i : Nat, body : Content, acked : BOOLEAN]

\* Every file, database and record of the operations is of its kind.
TypeOK ==
    /\ TypeS3
    /\ arch \in [Path -> Content] /\ stage \in Content /\ stage_dir \in BOOLEAN
    /\ db_lock \in Procs \cup {NoProc}
    /\ pc \in [Procs -> Labels] /\ job \in [Procs -> Job] /\ ops \in 0..MaxOps
    /\ claim \in Content /\ good \subseteq Files /\ mirrored \subseteq Files /\ listed \subseteq mirrored
    /\ alone \subseteq Procs /\ settled \in BOOLEAN /\ last \in {"ok", "err"}

\* A package whose publish returned Ok installs, until the next operation on it:
\* the file, its signature and the checksum in the database are of one build
\* (publish_with, lib.rs:194-303), whatever the other publishers did to the
\* shared .stage and to the database meanwhile.
PublishedInstallable ==
    \A n \in good :
        /\ arch[Pkg(n)] = Only(n, claim[n])
        /\ arch[Sig(n)] = Only(n, claim[n])
        /\ arch[Db][n] = claim[n]

\* While operations come one at a time nobody is served a database with the
\* signature of another, and an operation that succeeded leaves it signed
\* (lib.rs:225-230, build.sh:216-219).
SignedDatabase ==
    settled =>
        /\ arch[DbSig] \in {Absent, arch[Db]}
        /\ (last = "ok" /\ \A p \in Procs : ~Active(p)) => arch[DbSig] = arch[Db]

\* What a fully acknowledged publish mirrored is what is served, with the
\* signature of that build, and the mirror's database has its entry unless two
\* operations overlapped (a database read before the other's may go up last).
MirrorServes ==
    \A n \in mirrored \cap good :
        /\ mirror[Pkg(n)] = arch[Pkg(n)] /\ mirror[Sig(n)] = arch[Sig(n)]
        /\ n \in listed => mirror[Db][n] = claim[n]

\* The database has its signature whenever no operation is under way (build.sh:
\* "the daemon will re-sign afterwards").
RestsSigned == (\A p \in Procs : ~Active(p)) => arch[DbSig] = arch[Db]

\* The promise: a name offers the version whose file, signature and database
\* entry are there together.
Offer(n) ==
    LET v == arch[Db][n]
    IN IF arch[Pkg(n)] = Only(n, v) /\ arch[Sig(n)] = Only(n, v) THEN v ELSE 0
Offers == [n \in Files |-> Offer(n)]
Seal ==
    IF arch[DbSig] = arch[Db] THEN "valid" ELSE IF arch[DbSig] = Absent THEN "none" ELSE "wrong"
OpenOf(p) ==
    [op |-> job[p].op, names |-> FilesOf(p), ver |-> job[p].ver,
     sole |-> {n \in FilesOf(p) : claim[n] = job[p].ver}, alone |-> Active(p) /\ p \in alone]
Open == [p \in Procs |-> OpenOf(p)]

Promise == INSTANCE Repository WITH offers <- Offers, seal <- Seal, open <- Open

\* Whatever the callers do to the directory, the stage and the database, and
\* wherever they fail or die, those who install see a Repository: publish and
\* remove (lib.rs:194-379) disturb no name but their own, and a success means
\* that what was asked for is in place.
ImplementsRepository == Promise!Spec
=============================================================================
