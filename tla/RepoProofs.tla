----------------------------- MODULE RepoProofs -----------------------------
(***************************************************************************)
(* What a publish promises, for any number of callers, files, operations,  *)
(* retries and faults: PublishedInstallable, SignedDatabase, MirrorServes. *)
(*                                                                         *)
(* Callers share the directory, the stage and the database without a lock, *)
(* so the invariant says whose a file is.  The only operation on a name    *)
(* since it began owns it (Owners), and what it has done so far no other   *)
(* can undo: at worst its staged copy is gone (Progress).  An operation    *)
(* that met no other knows the database and its signature too (Solo).      *)
(*                                                                         *)
(* Seen by those who install, the whole is a Repository: with what an      *)
(* operation leaves in the directory (Effects) a step maps to one of the   *)
(* operation's own steps, or a stutter.                                    *)
(***************************************************************************)
EXTENDS RepoPublish, TLAPS

\* Where an operation is.
Publishing == {"copy", "stage_open", "stage", "sign_pkg", "unstage", "upload", "put", "return"}
Finishing  == {"unstage", "upload", "put", "return"}
Uploading  == {"upload", "put"}
InDatabase == {"sign_db", "gpg_db", "sign_pkg"} \cup Finishing
AfterCopy  == {"stage_open", "stage", "spawn", "container"} \cup InDatabase
AtFirst    == {"stage_open", "spawn", "container", "sign_db", "gpg_db", "unstage"}

\* The loops stay within their lists, and the program counter tells the kind of
\* the operation and who locks the database.
LoopsOf(p) ==
    /\ Active(p) => /\ job[p].op \in {"publish", "remove"}
                    /\ job[p].ver \in 1..ops /\ Len(job[p].files) >= 1
    /\ pc[p] \in Publishing => job[p].op = "publish"
    /\ pc[p] \in {"copy", "stage", "sign_pkg"} => job[p].i \in 1..Len(job[p].files)
    /\ pc[p] \in AtFirst => job[p].i = 1
    /\ pc[p] \in Uploading => job[p].i \in 1..(2 * Len(job[p].files) + 2)
    /\ pc[p] = "put" => /\ put[p].key = Uploads(job[p].files)[job[p].i]
                        /\ put[p].res # "none"
    /\ pc[p] = "container" => db_lock = p
    /\ db_lock = p => pc[p] \in {"container", "orphan"}

Loops == \A p \in Procs : LoopsOf(p)

\* Operations have versions of their own, and a name in an operation is claimed
\* by it or by nobody; it is nobody's until that publish returns.
Owners ==
    /\ \A p, q \in Procs : Active(p) /\ Active(q) /\ p # q => job[p].ver # job[q].ver
    /\ \A p \in Procs : Active(p) =>
           \A n \in FilesOf(p) : n \notin good /\ claim[n] \in {0, job[p].ver}

Owns(p, n) == Active(p) /\ n \in FilesOf(p) /\ claim[n] = job[p].ver

\* How far p is with the k-th file of its list.
Copied(p, k) == pc[p] \in AfterCopy \/ (pc[p] = "copy" /\ k < job[p].i)
Staged(p, k) == pc[p] \in {"spawn", "container"} \/ (pc[p] = "stage" /\ k < job[p].i)
Signed(p, k) == pc[p] \in Finishing \/ (pc[p] = "sign_pkg" /\ k < job[p].i)
\* Everything up to the i-th upload was acknowledged.
Sent(p, i) ==
    job[p].acked /\ (pc[p] = "return" \/ (pc[p] \in Uploading /\ i < job[p].i))

\* The upload of a file as it is now.
PutOf(p, f) ==
    (pc[p] = "put" /\ put[p].key = f) =>
        put[p].body = arch[f] /\ (put[p].res = "ok" => mirror[f] = arch[f])

\* What a publish has done for a name it owns.
ProgressOf(p, k) ==
    LET n == job[p].files[k]
        v == job[p].ver
    IN
    /\ Copied(p, k) => arch[Pkg(n)] = Only(n, v)
    /\ Staged(p, k) => stage[n] \in {0, v}
    /\ pc[p] \in InDatabase => arch[Db][n] = v
    /\ Signed(p, k) => arch[Sig(n)] = Only(n, v)
    /\ PutOf(p, Pkg(n)) /\ PutOf(p, Sig(n))
    /\ Sent(p, 2 * k) => mirror[Pkg(n)] = arch[Pkg(n)]
    /\ Sent(p, 2 * k + 1) => mirror[Sig(n)] = arch[Sig(n)]

Progress ==
    \A p \in Procs : job[p].op = "publish" =>
        \A k \in DOMAIN job[p].files : Owns(p, job[p].files[k]) => ProgressOf(p, k)

\* What an operation that met no other knows of the database.
SoloOf(p) ==
    /\ Alone(p)
    /\ pc[p] \in {"container", "sign_db", "gpg_db", "orphan"} => arch[DbSig] = Absent
    /\ (pc[p] = "gpg_db" \/ (pc[p] = "orphan" /\ db_lock # p)) => job[p].body = arch[Db]
    /\ pc[p] \in Finishing \cup {"sign_pkg"} => arch[DbSig] = arch[Db]
    /\ PutOf(p, Db)
    /\ Sent(p, 1) => mirror[Db] = arch[Db]

Solo == \A p \in alone : Active(p) => SoloOf(p)

\* As long as they hold, whoever is active is on his own.
Quiet == (settled \/ listed # {}) => \A p \in Procs : Active(p) => p \in alone

RInv ==
    /\ TypeOK /\ Loops /\ Owners /\ Progress /\ Solo /\ Quiet
    /\ PublishedInstallable /\ SignedDatabase /\ MirrorServes

------------------------------------------------------------------------------
(* Files, keys and the lists of the operations *)

\* The paths are different from each other.
LEMMA Paths ==
    ASSUME NEW n \in Files, NEW m \in Files
    PROVE  /\ Db \in Path /\ DbSig \in Path /\ FilesDb \in Path /\ Pkg(n) \in Path /\ Sig(n) \in Path
           /\ Pkg(n) \notin {Db, DbSig, FilesDb} /\ Sig(n) \notin {Db, DbSig, FilesDb}
           /\ Db # DbSig /\ Db # FilesDb /\ DbSig # FilesDb
           /\ Pkg(n) # Sig(m)
           /\ Pkg(n) = Pkg(m) <=> n = m
           /\ Sig(n) = Sig(m) <=> n = m
  BY DEF Path, Db, DbSig, FilesDb, Pkg, Sig

LEMMA PathIn == Db \in Path /\ DbSig \in Path /\ FilesDb \in Path
  BY DEF Path

\* Contents are contents, and a file holds the version it was made with.
LEMMA Contents ==
    ASSUME NEW n \in Files, NEW v \in Versions
    PROVE  Absent \in Content /\ Only(n, v) \in Content /\ Only(n, v)[n] = v
  BY S3ClientAssumption DEF Absent, Content, Only, Versions

LEMMA Halves ==
    ASSUME NEW k \in Nat
    PROVE  /\ (2 * k) % 2 = 0 /\ (2 * k) \div 2 = k
           /\ (2 * k + 1) % 2 = 1 /\ (2 * k + 1) \div 2 = k
<1>1. (2 * k) \div 2 = k /\ (2 * k + 1) \div 2 = k
  OBVIOUS
<1>2. (2 * k) % 2 = 0 /\ (2 * k + 1) % 2 = 1
  OBVIOUS
<1> QED
  BY <1>1, <1>2

\* The keys go up in pairs between the two databases.
LEMMA UploadKeys ==
    ASSUME NEW fs \in Seq(Files), fs # <<>>
    PROVE  /\ Len(Uploads(fs)) = 2 * Len(fs) + 2
           /\ Uploads(fs)[1] = Db
           /\ \A k \in DOMAIN fs : Uploads(fs)[2 * k] = Pkg(fs[k]) /\ Uploads(fs)[2 * k + 1] = Sig(fs[k])
           /\ \A i \in 1..(2 * Len(fs) + 2) :
                 \/ i = 1 \/ Uploads(fs)[i] = FilesDb
                 \/ \E k \in DOMAIN fs : i = 2 * k \/ i = 2 * k + 1
           /\ \A i \in 1..(2 * Len(fs) + 2) : Uploads(fs)[i] \in Path \ {DbSig}
<1> DEFINE N == 2 * Len(fs) + 2
<1>0. Len(fs) \in Nat /\ Len(fs) >= 1 /\ N \in Nat /\ DOMAIN fs = 1..Len(fs) /\ \A k \in DOMAIN fs : fs[k] \in Files
  OBVIOUS
<1>1. \A k \in DOMAIN fs : /\ 2 * k \in 1..N /\ 2 * k # 1 /\ 2 * k # N
                           /\ 2 * k + 1 \in 1..N /\ 2 * k + 1 # 1 /\ 2 * k + 1 # N
  BY <1>0
<1>2. \A i \in 1..N : i = 1 \/ i = N \/ \E k \in DOMAIN fs : i = 2 * k \/ i = 2 * k + 1
  <2> SUFFICES ASSUME NEW i \in 1..N, i # 1, i # N
               PROVE  \E k \in DOMAIN fs : i = 2 * k \/ i = 2 * k + 1
    OBVIOUS
  <2> DEFINE k == i \div 2
  <2>1. k \in Nat /\ (i = 2 * k \/ i = 2 * k + 1)
    BY <1>0
  <2> HIDE DEF k
  <2>2. k \in 1..Len(fs)
    BY <2>1, <1>0
  <2> QED
    BY <2>1, <2>2, <1>0
<1>3. /\ Uploads(fs)[1] = Db /\ Uploads(fs)[N] = FilesDb
      /\ \A k \in DOMAIN fs : Uploads(fs)[2 * k] = Pkg(fs[k]) /\ Uploads(fs)[2 * k + 1] = Sig(fs[k])
  <2>1. \A i \in 1..N : Uploads(fs)[i] = IF i = 1 THEN Db ELSE IF i = N THEN FilesDb
                                         ELSE IF i % 2 = 0 THEN Pkg(fs[i \div 2]) ELSE Sig(fs[i \div 2])
    BY <1>0 DEF Uploads
  <2>2. Uploads(fs)[1] = Db /\ Uploads(fs)[N] = FilesDb
    BY <2>1, <1>0
  <2>3. ASSUME NEW k \in DOMAIN fs
        PROVE  Uploads(fs)[2 * k] = Pkg(fs[k]) /\ Uploads(fs)[2 * k + 1] = Sig(fs[k])
    <3>1. k \in Nat
      BY <1>0
    <3> DEFINE e == 2 * k
               o == 2 * k + 1
    <3>2. e % 2 = 0 /\ e \div 2 = k /\ o % 2 # 0 /\ o \div 2 = k
      BY <3>1, Halves
    <3>3. e \in 1..N /\ e # 1 /\ e # N /\ o \in 1..N /\ o # 1 /\ o # N
      BY <1>1
    <3> HIDE DEF e, o, N
    <3>4. Uploads(fs)[e] = Pkg(fs[k]) /\ Uploads(fs)[o] = Sig(fs[k])
      BY <2>1, <3>2, <3>3
    <3> QED
      BY <3>4 DEF e, o
  <2> QED
    BY <2>2, <2>3
<1>4. \A i \in 1..N : Uploads(fs)[i] \in Path \ {DbSig}
  <2> SUFFICES ASSUME NEW i \in 1..N PROVE Uploads(fs)[i] \in Path \ {DbSig}
    OBVIOUS
  <2>1. /\ Db \in Path \ {DbSig} /\ FilesDb \in Path \ {DbSig}
        /\ \A n \in Files : Pkg(n) \in Path \ {DbSig} /\ Sig(n) \in Path \ {DbSig}
    BY DEF Path, Db, DbSig, FilesDb, Pkg, Sig
  <2> QED
    BY <2>1, <1>0, <1>2, <1>3
<1>5. Len(Uploads(fs)) = N
  <2>1. Uploads(fs) \in Seq(Path) /\ DOMAIN Uploads(fs) = 1..N
    BY <1>0, <1>4 DEF Uploads
  <2> QED
    BY <2>1, <1>0
<1> QED
  BY <1>2, <1>3, <1>4, <1>5

------------------------------------------------------------------------------
(* Types, and what a step of one caller leaves to the others *)

Move(p) == Begin(p) \/ Step(p) \/ abandon(p)

\* The operation of an active caller.
LEMMA JobFacts ==
    ASSUME TypeOK, Loops, NEW p \in Procs, Active(p)
    PROVE  /\ job[p].files \in Seq(Files) /\ job[p].files # <<>> /\ Len(job[p].files) \in Nat \ {0}
           /\ DOMAIN job[p].files = 1..Len(job[p].files)
           /\ FilesOf(p) \subseteq Files
           /\ \A k \in DOMAIN job[p].files : job[p].files[k] \in FilesOf(p)
           /\ job[p].ver \in Versions /\ job[p].ver \in 1..ops /\ ops \in Nat
           /\ job[p].op \in {"publish", "remove"}
           /\ job[p].body \in Content
<1>1. job[p] \in Job /\ ops \in 0..MaxOps
  BY DEF TypeOK
<1>2. job[p].files \in Seq(Files) /\ job[p].ver \in Versions /\ job[p].body \in Content
  BY <1>1 DEF Job
<1>3. job[p].ver \in 1..ops /\ Len(job[p].files) >= 1 /\ job[p].op \in {"publish", "remove"}
  BY DEF Loops, LoopsOf
<1>4. ops \in Nat
  BY <1>1, S3ClientAssumption
<1> QED
  BY <1>2, <1>3, <1>4 DEF FilesOf

\* The step of a loop over the files.
LEMMA Advances ==
    ASSUME TypeOK, Loops, NEW p \in Procs, Active(p), job[p].i \in 1..Len(job[p].files),
           NEW here, NEW next, Advance(p, here, next)
    PROVE  \E l \in {here, next}, i \in 1..Len(job[p].files) :
               /\ pc' = [pc EXCEPT ![p] = l]
               /\ job' = [job EXCEPT ![p].i = i]
               /\ \/ l = next /\ i = 1 /\ job[p].i = Len(job[p].files)
                  \/ l = here /\ i = job[p].i + 1 /\ job[p].i # Len(job[p].files)
<1>1. Len(job[p].files) \in Nat \ {0}
  BY JobFacts
<1>2. CASE Last(p)
  BY <1>1, <1>2 DEF Advance, Goto, AtFile, Last
<1>3. CASE ~Last(p)
  <2> DEFINE i == job[p].i + 1
  <2>1. i \in 1..Len(job[p].files)
    BY <1>1, <1>3 DEF Last
  <2>2. pc' = [pc EXCEPT ![p] = here] /\ job' = [job EXCEPT ![p].i = i]
    BY <1>3 DEF Advance, Goto, AtFile
  <2>3. job[p].i # Len(job[p].files)
    BY <1>3 DEF Last
  <2> HIDE DEF i
  <2>4. i = job[p].i + 1
    BY DEF i
  <2> QED
    BY <2>1, <2>2, <2>3, <2>4
<1> QED
  BY <1>2, <1>3

\* A step moves its own caller only, to a label and with a record of the right kind.
LEMMA Locals ==
    ASSUME TypeOK, Loops, NEW p \in Procs, Move(p)
    PROVE  \E l \in Labels, r \in Job :
               /\ pc' = [pc EXCEPT ![p] = l] /\ job' = [job EXCEPT ![p] = r]
               /\ ops' \in 0..MaxOps
<1>0. /\ pc \in [Procs -> Labels] /\ job \in [Procs -> Job] /\ job[p] \in Job /\ ops \in 0..MaxOps
      /\ MaxOps \in Nat /\ arch[Db] \in Content
  BY S3ClientAssumption, PathIn DEF TypeOK
<1>1. Absent \in Content /\ 0 \in Versions /\ NoJob \in Job
  <2>1. Absent \in Content /\ 0 \in Versions
    BY S3ClientAssumption DEF Absent, Content, Versions
  <2>2. <<>> \in Seq(Files)
    OBVIOUS
  <2> QED
    BY <2>1, <2>2 DEF NoJob, Job
<1>2. CASE Begin(p)
  <2>1. PICK j \in Jobs[p] :
            /\ job' = [job EXCEPT ![p] = [NoJob EXCEPT !.op = j.op, !.files = j.files, !.ver = ops + 1, !.i = 1]]
            /\ Goto(p, IF j.op = "publish" THEN "copy" ELSE "spawn")
    BY <1>2 DEF Begin
  <2> DEFINE v == ops + 1
  <2>2. v \in Versions /\ v \in 0..MaxOps /\ ops' = v
    BY <1>0, <1>2 DEF Begin, Versions
  <2> HIDE DEF v
  <2> DEFINE r == [NoJob EXCEPT !.op = j.op, !.files = j.files, !.ver = v, !.i = 1]
  <2>3. j.op \in {"publish", "remove"} /\ j.files \in Seq(Files)
    BY RepoAssumption
  <2>4. r \in Job
    BY <2>2, <2>3, <1>1 DEF Job, NoJob
  <2>5. job' = [job EXCEPT ![p] = r]
    BY <2>1 DEF v
  <2>6. \E l \in Labels : pc' = [pc EXCEPT ![p] = l]
    BY <2>1 DEF Goto, Labels
  <2> QED
    BY <2>2, <2>4, <2>5, <2>6
<1>3. CASE \E l \in Labels : Goto(p, l) /\ UNCHANGED <<job, ops>>
  <2>1. job' = [job EXCEPT ![p] = job[p]]
    BY <1>3, <1>0
  <2> QED
    BY <2>1, <1>3, <1>0 DEF Goto
<1>4. CASE \E res \in {"ok", "err"} : End(p, res)
  BY <1>4, <1>1, <1>0 DEF End, Labels
<1>5. CASE \E i \in Nat, l \in Labels : pc' = [pc EXCEPT ![p] = l] /\ job' = [job EXCEPT ![p].i = i] /\ ops' = ops
  <2>1. PICK i \in Nat, l \in Labels : pc' = [pc EXCEPT ![p] = l] /\ job' = [job EXCEPT ![p].i = i] /\ ops' = ops
    BY <1>5
  <2> DEFINE r == [job[p] EXCEPT !.i = i]
  <2>2. r \in Job
    BY <1>0 DEF Job
  <2>3. job' = [job EXCEPT ![p] = r]
    BY <2>1
  <2> QED
    BY <2>1, <2>2, <2>3, <1>0
<1>6. CASE \E b \in Content, l \in Labels : pc' = [pc EXCEPT ![p] = l] /\ job' = [job EXCEPT ![p].body = b] /\ ops' = ops
  <2>1. PICK b \in Content, l \in Labels : pc' = [pc EXCEPT ![p] = l] /\ job' = [job EXCEPT ![p].body = b] /\ ops' = ops
    BY <1>6
  <2> DEFINE r == [job[p] EXCEPT !.body = b]
  <2>2. r \in Job
    BY <1>0 DEF Job
  <2>3. job' = [job EXCEPT ![p] = r]
    BY <2>1
  <2> QED
    BY <2>1, <2>2, <2>3, <1>0
<1>7. ASSUME Active(p), UNCHANGED ops, NEW here \in Labels, NEW next \in Labels, Advance(p, here, next),
             pc[p] \in {"copy", "stage", "sign_pkg"}
      PROVE  \E i \in Nat, l \in Labels : pc' = [pc EXCEPT ![p] = l] /\ job' = [job EXCEPT ![p].i = i] /\ ops' = ops
  <2>1. job[p].i \in 1..Len(job[p].files)
    BY <1>7 DEF Loops, LoopsOf
  <2>2. PICK l \in {here, next}, i \in 1..Len(job[p].files) : pc' = [pc EXCEPT ![p] = l] /\ job' = [job EXCEPT ![p].i = i]
    BY <2>1, <1>7, Advances
  <2>3. i \in Nat
    BY <2>2, <1>7, JobFacts
  <2> QED
    BY <2>2, <2>3, <1>7
<1>8. CASE publish_copy(p)
  <2>1. Active(p) /\ UNCHANGED ops /\ Advance(p, "copy", "stage_open") /\ pc[p] = "copy" /\ "copy" \in Labels /\ "stage_open" \in Labels
    BY <1>8 DEF publish_copy, Active, Labels
  <2> QED
    BY <2>1, <1>7, <1>5
<1>9. CASE add_create_stage(p)
  BY <1>9, <1>3 DEF add_create_stage, Labels
<1>10. CASE add_stage(p)
  <2>1. CASE Fail(p)
    BY <2>1, <1>4 DEF Fail
  <2>2. CASE Active(p) /\ UNCHANGED ops /\ Advance(p, "stage", "spawn") /\ pc[p] = "stage"
    <3>1. "stage" \in Labels /\ "spawn" \in Labels
      BY DEF Labels
    <3> QED
      BY <2>2, <3>1, <1>7, <1>5
  <2> QED
    BY <2>1, <2>2, <1>10 DEF add_stage, Active
<1>11. CASE run_repo_op_spawn(p) \/ run_repo_op_error(p) \/ run_repo_op_exit(p) \/ orphan_end(p) \/ sign_error(p)
  <2>1. \/ End(p, "err") \/ \E l \in Labels : Goto(p, l) /\ UNCHANGED <<job, ops>>
    BY <1>11 DEF run_repo_op_spawn, run_repo_op_error, run_repo_op_exit, orphan_end, sign_error, Fail, Labels
  <2> QED
    BY <2>1, <1>3, <1>4
<1>12. CASE sign_db_read(p)
  <2>1. pc' = [pc EXCEPT ![p] = "gpg_db"] /\ job' = [job EXCEPT ![p].body = arch[Db]] /\ ops' = ops
    BY <1>12 DEF sign_db_read, Goto
  <2> QED
    BY <2>1, <1>6, <1>0 DEF Labels
<1>13. CASE sign_db_write(p)
  <2>1. \/ End(p, "ok")
        \/ pc' = [pc EXCEPT ![p] = "sign_pkg"] /\ job' = [job EXCEPT ![p].body = Absent] /\ ops' = ops
    BY <1>13 DEF sign_db_write, Goto
  <2>2. "sign_pkg" \in Labels
    BY DEF Labels
  <2> QED
    BY <2>1, <2>2, <1>6, <1>4, <1>1
<1>14. CASE sign_pkg(p)
  <2>1. Active(p) /\ UNCHANGED ops /\ Advance(p, "sign_pkg", "unstage") /\ pc[p] = "sign_pkg" /\ "sign_pkg" \in Labels /\ "unstage" \in Labels
    BY <1>14 DEF sign_pkg, Active, Labels
  <2> QED
    BY <2>1, <1>7, <1>5
<1>15. CASE publish_unstage(p) \/ upload_path(p) \/ publish_return(p)
  <2>1. \/ End(p, "ok") \/ \E l \in Labels : Goto(p, l) /\ UNCHANGED <<job, ops>>
    BY <1>15 DEF publish_unstage, Published, upload_path, publish_return, Labels, hist_vars
  <2> QED
    BY <2>1, <1>3, <1>4
<1>16. CASE upload_answer(p)
  BY <1>16, <1>0 DEF upload_answer, op_vars
<1>17. CASE upload_done(p)
  <2> DEFINE a == job[p].acked /\ put[p].res = "ok"
             i == job[p].i + 1
             r == [job[p] EXCEPT !.acked = a, !.i = i]
  <2>1. a \in BOOLEAN /\ i \in Nat
    BY <1>0 DEF Job
  <2>2. job' = [job EXCEPT ![p] = r]
    BY <1>17 DEF upload_done
  <2>3. \E l \in Labels : pc' = [pc EXCEPT ![p] = l]
    BY <1>17 DEF upload_done, Goto, Labels
  <2>4. ops' = ops
    BY <1>17 DEF upload_done
  <2> HIDE DEF a, i
  <2>5. r \in Job
    BY <2>1, <1>0 DEF Job
  <2> QED
    BY <2>2, <2>3, <2>4, <2>5, <1>0
<1>19. CASE upload_skip(p)
  <2> DEFINE i == job[p].i + 1
  <2>1. i \in Nat
    BY <1>0 DEF Job
  <2>2. job' = [job EXCEPT ![p].i = i] /\ ops' = ops /\ pc' = pc
    BY <1>19 DEF upload_skip, AtFile
  <2> HIDE DEF i
  <2>3. pc' = [pc EXCEPT ![p] = pc[p]] /\ pc[p] \in Labels
    BY <2>2, <1>0
  <2> QED
    BY <2>1, <2>2, <2>3, <1>5
<1>18. CASE abandon(p)
  <2>1. \/ End(p, "err") \/ \E l \in Labels : Goto(p, l) /\ UNCHANGED <<job, ops>>
    BY <1>18 DEF abandon, Labels
  <2> QED
    BY <2>1, <1>3, <1>4
<1> QED
  BY <1>2, <1>8, <1>9, <1>10, <1>11, <1>12, <1>13, <1>14, <1>15, <1>16, <1>17, <1>18, <1>19 DEF Move, Step

\* Nor does it touch the requests of the others, or take a lock that is held.
LEMMA Frame ==
    ASSUME TypeOK, Loops, NEW p \in Procs, Move(p), NEW q \in Procs, q # p
    PROVE  /\ pc'[q] = pc[q] /\ job'[q] = job[q] /\ put'[q] = put[q]
           /\ db_lock' = q <=> db_lock = q
<1>1. pc'[q] = pc[q] /\ job'[q] = job[q]
  <2>1. PICK l \in Labels, r \in Job : pc' = [pc EXCEPT ![p] = l] /\ job' = [job EXCEPT ![p] = r]
    BY Locals
  <2> QED
    BY <2>1 DEF TypeOK
<1>2. put'[q] = put[q]
  <2>1. put \in [Procs -> Put]
    BY DEF TypeOK, TypeS3
  <2>2. \/ UNCHANGED put \/ \E r : put' = [put EXCEPT ![p] = r]
    <3>1. CASE Begin(p)
      BY <3>1 DEF Begin, s3_vars
    <3>2. CASE abandon(p)
      BY <3>2 DEF abandon, s3_vars
    <3>3. CASE publish_copy(p) \/ add_create_stage(p) \/ add_stage(p)
      BY <3>3 DEF publish_copy, add_create_stage, add_stage, Fail, s3_vars
    <3>4. CASE run_repo_op_spawn(p) \/ run_repo_op_error(p) \/ run_repo_op_exit(p) \/ orphan_end(p)
      BY <3>4 DEF run_repo_op_spawn, run_repo_op_error, run_repo_op_exit, orphan_end, Fail, s3_vars
    <3>5. CASE sign_db_read(p) \/ sign_db_write(p) \/ sign_error(p) \/ sign_pkg(p)
      BY <3>5 DEF sign_db_read, sign_db_write, sign_error, sign_pkg, Fail, s3_vars
    <3>6. CASE publish_unstage(p) \/ publish_return(p)
      BY <3>6 DEF publish_unstage, publish_return, s3_vars
    <3>7. CASE upload_skip(p) \/ upload_path(p) \/ upload_done(p)
      BY <3>7 DEF upload_skip, upload_path, upload_done, Request, s3_vars
    <3>8. CASE upload_answer(p)
      <4>1. Finished(p, "ok") \/ Finished(p, "err")
            \/ put' = [put EXCEPT ![p].attempt = @ + 1]
        BY <3>8 DEF upload_answer, PutAnswer, put_success, put_transient, put_permanent, put_network
      <4> QED
        BY <4>1, <2>1 DEF Finished
    <3> QED
      BY <3>1, <3>2, <3>3, <3>4, <3>5, <3>6, <3>7, <3>8 DEF Move, Step
  <2> QED
    BY <2>1, <2>2
<1>3. db_lock' = q <=> db_lock = q
  <2>1. CASE UNCHANGED db_lock
    BY <2>1
  <2>2. CASE run_repo_op_spawn(p)
    <3>1. NoProc \notin Procs
      BY RepoAssumption
    <3> QED
      BY <2>2, <3>1 DEF run_repo_op_spawn
  <2>3. CASE run_repo_op_exit(p)
    <3>1. db_lock = p /\ db_lock' = NoProc
      BY <2>3 DEF run_repo_op_exit, container_end, Loops, LoopsOf
    <3> QED
      BY <3>1, RepoAssumption
  <2>4. CASE orphan_end(p)
    <3>1. UNCHANGED db_lock \/ (db_lock = p /\ db_lock' = NoProc)
      BY <2>4 DEF orphan_end, container_end
    <3> QED
      BY <3>1, RepoAssumption
  <2>5. CASE Begin(p) \/ publish_copy(p) \/ add_create_stage(p) \/ add_stage(p) \/ run_repo_op_error(p)
    BY <2>5, <2>1 DEF Begin, publish_copy, add_create_stage, add_stage, run_repo_op_error, repo_vars
  <2>6. CASE sign_db_read(p) \/ sign_db_write(p) \/ sign_error(p) \/ sign_pkg(p) \/ publish_unstage(p)
    BY <2>6, <2>1 DEF sign_db_read, sign_db_write, sign_error, sign_pkg, publish_unstage
  <2>7. CASE upload_skip(p) \/ upload_path(p) \/ upload_answer(p) \/ upload_done(p) \/ publish_return(p) \/ abandon(p)
    BY <2>7, <2>1 DEF upload_skip, upload_path, upload_answer, upload_done, publish_return, abandon, repo_vars
  <2> QED
    BY <2>2, <2>3, <2>4, <2>5, <2>6, <2>7 DEF Move, Step
<1> QED
  BY <1>1, <1>2, <1>3

\* What the container writes.
LEMMA NewDbContent ==
    ASSUME TypeOK, Loops, NEW p \in Procs, Active(p)
    PROVE  NewDb(p) \in Content
<1>1. arch[Db] \in Content /\ stage \in Content /\ 0 \in Versions
  BY PathIn, S3ClientAssumption DEF TypeOK, Versions
<1> QED
  BY <1>1 DEF NewDb, Content

LEMMA TypingRepo ==
    ASSUME TypeOK, Loops, NEW p \in Procs, Move(p)
    PROVE  /\ arch' \in [Path -> Content] /\ stage' \in Content /\ stage_dir' \in BOOLEAN
           /\ db_lock' \in Procs \cup {NoProc}
<1>0. /\ arch \in [Path -> Content] /\ stage \in Content /\ stage_dir \in BOOLEAN
      /\ db_lock \in Procs \cup {NoProc}
      /\ Absent \in Content /\ Db \in Path /\ DbSig \in Path /\ FilesDb \in Path
      /\ \A n \in Files : Pkg(n) \in Path /\ Sig(n) \in Path
      /\ \A n \in Files, v \in Versions : Only(n, v) \in Content
  <2>1. Absent \in Content
    BY S3ClientAssumption DEF Absent, Content, Versions
  <2> QED
    BY <2>1, Contents, PathIn, Paths DEF TypeOK
<1>1. CASE Begin(p) \/ upload_skip(p) \/ upload_path(p) \/ upload_answer(p) \/ upload_done(p) \/ publish_return(p) \/ abandon(p)
  BY <1>0, <1>1 DEF Begin, upload_skip, upload_path, upload_answer, upload_done, publish_return, abandon, repo_vars
<1>2. ASSUME pc[p] \in {"copy", "stage", "sign_pkg"} PROVE File(p) \in Files /\ job[p].ver \in Versions
  <2>1. job[p].i \in 1..Len(job[p].files) /\ Active(p)
    BY <1>2 DEF Loops, LoopsOf, Active
  <2> QED
    BY <2>1, JobFacts DEF File
<1>3. CASE publish_copy(p)
  <2>1. File(p) \in Files /\ job[p].ver \in Versions
    BY <1>2, <1>3 DEF publish_copy
  <2>2. Only(File(p), job[p].ver) \in Content
    BY <2>1, <1>0
  <2> QED
    BY <2>2, <1>3, <1>0 DEF publish_copy
<1>4. CASE add_create_stage(p) \/ run_repo_op_error(p)
  BY <1>0, <1>4 DEF add_create_stage, run_repo_op_error
<1>5. CASE add_stage(p)
  <2>1. File(p) \in Files
    BY <1>2, <1>5 DEF add_stage
  <2>2. arch[Pkg(File(p))][File(p)] \in Versions
    BY <2>1, <1>0 DEF Content
  <2>3. stage' \in Content
    <3>1. stage' = stage \/ stage' = [stage EXCEPT ![File(p)] = arch[Pkg(File(p))][File(p)]]
      BY <1>5 DEF add_stage
    <3> QED
      BY <3>1, <2>2, <1>0 DEF Content
  <2> QED
    BY <2>3, <1>5, <1>0 DEF add_stage
<1>6. CASE run_repo_op_spawn(p)
  BY <1>0, <1>6 DEF run_repo_op_spawn
<1>7. CASE run_repo_op_exit(p) \/ orphan_end(p)
  <2>1. Active(p)
    BY <1>7 DEF run_repo_op_exit, orphan_end, Active
  <2>2. NewDb(p) \in Content /\ job[p].body \in Content
    BY <2>1, NewDbContent, JobFacts
  <2>3. /\ UNCHANGED <<stage, stage_dir>> /\ db_lock' \in {db_lock, NoProc}
        /\ \/ arch' = [arch EXCEPT ![Db] = NewDb(p), ![FilesDb] = NewDb(p)]
           \/ arch' = arch \/ arch' = [arch EXCEPT ![DbSig] = job[p].body]
    BY <1>7 DEF run_repo_op_exit, orphan_end, container_end
  <2> QED
    BY <2>2, <2>3, <1>0
<1>8. CASE sign_db_read(p) \/ sign_db_write(p)
  <2>1. job[p].body \in Content
    BY <1>8, JobFacts DEF sign_db_read, sign_db_write, Active
  <2> QED
    BY <2>1, <1>0, <1>8 DEF sign_db_read, sign_db_write
<1>9. CASE sign_error(p) \/ sign_pkg(p)
  <2>1. /\ UNCHANGED <<stage, stage_dir, db_lock>>
        /\ \/ UNCHANGED arch
           \/ pc[p] = "sign_pkg" /\ \/ arch' = [arch EXCEPT ![Sig(File(p))] = Absent]
                                    \/ arch' = [arch EXCEPT ![Sig(File(p))] = arch[Pkg(File(p))]]
    BY <1>9 DEF sign_error, sign_pkg
  <2> QED
    BY <2>1, <1>0, <1>2
<1>10. CASE publish_unstage(p)
  BY <1>0, <1>10 DEF publish_unstage
<1> QED
  BY <1>1, <1>3, <1>4, <1>5, <1>6, <1>7, <1>8, <1>9, <1>10 DEF Move, Step

LEMMA TypingS3 ==
    ASSUME TypeOK, Loops, NEW p \in Procs, Move(p)
    PROVE  TypeS3'
<1>0. /\ mirror \in [Path -> Content] /\ put \in [Procs -> Put] /\ put[p] \in Put
  BY DEF TypeOK, TypeS3
<1>1. NoPut \in Put
  <2>1. Absent \in Content
    BY S3ClientAssumption DEF Absent, Content, Versions
  <2> QED
    BY <2>1, PathIn, S3ClientAssumption DEF NoPut, Put
<1>2. [mirror EXCEPT ![put[p].key] = put[p].body] \in [Path -> Content]
  BY <1>0 DEF Put
<1>3. CASE Begin(p) \/ publish_copy(p) \/ add_create_stage(p) \/ add_stage(p)
  BY <1>0, <1>3 DEF Begin, publish_copy, add_create_stage, add_stage, Fail, s3_vars, TypeS3
<1>4. CASE run_repo_op_spawn(p) \/ run_repo_op_error(p) \/ run_repo_op_exit(p) \/ orphan_end(p)
  BY <1>0, <1>4 DEF run_repo_op_spawn, run_repo_op_error, run_repo_op_exit, orphan_end, Fail, s3_vars, TypeS3
<1>5. CASE sign_db_read(p) \/ sign_db_write(p) \/ sign_error(p) \/ sign_pkg(p)
  BY <1>0, <1>5 DEF sign_db_read, sign_db_write, sign_error, sign_pkg, Fail, s3_vars, TypeS3
<1>6. CASE publish_unstage(p) \/ publish_return(p)
  BY <1>0, <1>6 DEF publish_unstage, publish_return, s3_vars, TypeS3
<1>7. CASE upload_path(p)
  <2> DEFINE key == Uploads(job[p].files)[job[p].i]
  <2>1. Active(p) /\ job[p].i \in 1..(2 * Len(job[p].files) + 2)
    BY <1>7 DEF upload_path, Active, Loops, LoopsOf, Uploading
  <2>2. key \in Path
    BY <2>1, JobFacts, UploadKeys
  <2>3. UNCHANGED mirror /\ put' = [put EXCEPT ![p] = [key |-> key, body |-> arch[key], attempt |-> 0, res |-> "busy"]]
    BY <1>7 DEF upload_path, UploadKey, Request
  <2>4. arch[key] \in Content
    BY <2>2 DEF TypeOK
  <2> HIDE DEF key
  <2>5. [key |-> key, body |-> arch[key], attempt |-> 0, res |-> "busy"] \in Put
    BY <2>2, <2>4, S3ClientAssumption DEF Put
  <2> QED
    BY <2>3, <2>5, <1>0 DEF TypeS3
<1>8. CASE upload_answer(p)
  <2>1. mirror' = mirror \/ mirror' = [mirror EXCEPT ![put[p].key] = put[p].body]
    BY <1>8 DEF upload_answer, PutAnswer, put_success, put_transient, put_permanent, put_network, Stored
  <2>2. ASSUME NEW res \in {"ok", "err"}, Finished(p, res) PROVE put' \in [Procs -> Put]
    <3>1. put' = [put EXCEPT ![p].res = res, ![p].attempt = 0]
      BY <2>2 DEF Finished
    <3>2. [put[p] EXCEPT !.res = res, !.attempt = 0] \in Put
      <4>1. 0 \in 0..RetryDelays /\ res \in {"none", "busy", "ok", "err"}
        BY <2>2, S3ClientAssumption
      <4> QED
        BY <4>1, <1>0 DEF Put
    <3> QED
      BY <3>1, <3>2, <1>0
  <2>3. ASSUME put[p].attempt < RetryDelays, put' = [put EXCEPT ![p].attempt = @ + 1] PROVE put' \in [Procs -> Put]
    <3> DEFINE a == put[p].attempt + 1
    <3>1. a \in 0..RetryDelays
      BY <2>3, <1>0, S3ClientAssumption DEF Put
    <3>2. put' = [put EXCEPT ![p].attempt = a]
      BY <2>3
    <3> HIDE DEF a
    <3>3. [put[p] EXCEPT !.attempt = a] \in Put
      BY <3>1, <1>0 DEF Put
    <3> QED
      BY <3>2, <3>3, <1>0
  <2>4. \/ \E res \in {"ok", "err"} : Finished(p, res)
        \/ ~(put[p].attempt >= RetryDelays) /\ put' = [put EXCEPT ![p].attempt = @ + 1]
    BY <1>8 DEF upload_answer, PutAnswer, put_success, put_transient, put_permanent, put_network
  <2>5. put[p].attempt \in Nat /\ RetryDelays \in Nat
    BY <1>0, S3ClientAssumption DEF Put
  <2>6. put' \in [Procs -> Put]
    BY <2>2, <2>3, <2>4, <2>5
  <2> QED
    BY <2>1, <2>6, <1>0, <1>2 DEF TypeS3
<1>9. CASE upload_skip(p) \/ upload_done(p)
  BY <1>9, <1>0, <1>1 DEF upload_skip, upload_done, s3_vars, TypeS3
<1>10. CASE abandon(p)
  <2>1. mirror' = mirror \/ mirror' = [mirror EXCEPT ![put[p].key] = put[p].body]
    BY <1>10 DEF abandon, s3_vars, Stored
  <2>2. put' = put \/ put' = [put EXCEPT ![p] = NoPut]
    BY <1>10 DEF abandon, s3_vars
  <2> QED
    BY <2>1, <2>2, <1>0, <1>1, <1>2 DEF TypeS3
<1> QED
  BY <1>3, <1>4, <1>5, <1>6, <1>7, <1>8, <1>9, <1>10 DEF Move, Step

LEMMA TypingHistory ==
    ASSUME TypeOK, Loops, NEW p \in Procs, Move(p)
    PROVE  /\ claim' \in Content /\ good' \subseteq Files
           /\ mirrored' \subseteq Files /\ listed' \subseteq mirrored'
           /\ alone' \subseteq Procs /\ settled' \in BOOLEAN /\ last' \in {"ok", "err"}
<1>0. /\ claim \in Content /\ good \subseteq Files /\ mirrored \subseteq Files /\ listed \subseteq mirrored
      /\ alone \subseteq Procs /\ settled \in BOOLEAN /\ last \in {"ok", "err"}
  BY DEF TypeOK
<1>1. CASE Begin(p)
  <2> DEFINE v == ops + 1
  <2>1. v \in Versions /\ 0 \in Versions
    BY <1>1, S3ClientAssumption DEF Begin, TypeOK, Versions
  <2>2. PICK j \in Jobs[p] :
            LET ns == {j.files[i] : i \in DOMAIN j.files}
                Shared(n) == \E q \in Procs : Active(q) /\ n \in FilesOf(q)
            IN /\ claim' = [n \in Files |-> IF n \notin ns THEN claim[n]
                                             ELSE IF Shared(n) THEN 0 ELSE v]
               /\ good' = good \ ns
    BY <1>1 DEF Begin
  <2> HIDE DEF v
  <2>3. claim' \in Content /\ good' \subseteq Files
    BY <2>1, <2>2, <1>0 DEF Content
  <2>4. /\ alone' = (IF Alone(p) THEN {p} ELSE {}) /\ listed' = (IF Alone(p) THEN listed ELSE {})
        /\ settled' = (settled /\ Alone(p)) /\ mirrored' = mirrored /\ last' = last
    BY <1>1 DEF Begin
  <2> QED
    BY <2>3, <2>4, <1>0
<1>2. CASE UNCHANGED hist_vars
  BY <1>0, <1>2 DEF hist_vars
<1>3. CASE Fail(p)
  BY <1>0, <1>3 DEF Fail, End
<1>4. CASE Published(p) /\ Active(p)
  <2>1. FilesOf(p) \subseteq Files
    BY <1>4, JobFacts
  <2>2. \/ mirrored' = mirrored \cup FilesOf(p) /\ (listed' = listed \cup FilesOf(p) \/ listed' = listed \ FilesOf(p))
        \/ mirrored' = mirrored \ FilesOf(p) /\ listed' = listed \ FilesOf(p)
    BY <1>4 DEF Published
  <2>3. /\ good' = good \cup {n \in FilesOf(p) : claim[n] = job[p].ver} /\ claim' = claim
        /\ settled' = (settled \/ p \in alone) /\ alone' = alone /\ last' = "ok"
    BY <1>4 DEF Published, End
  <2> QED
    BY <2>1, <2>2, <2>3, <1>0
<1>5. CASE publish_copy(p) \/ add_create_stage(p) \/ add_stage(p)
  BY <1>2, <1>3, <1>5 DEF publish_copy, add_create_stage, add_stage
<1>6. CASE run_repo_op_spawn(p) \/ run_repo_op_error(p) \/ run_repo_op_exit(p) \/ orphan_end(p)
  BY <1>2, <1>3, <1>6 DEF run_repo_op_spawn, run_repo_op_error, run_repo_op_exit, orphan_end
<1>7. CASE sign_db_read(p) \/ sign_error(p) \/ sign_pkg(p)
  BY <1>2, <1>3, <1>7 DEF sign_db_read, sign_error, sign_pkg
<1>8. CASE sign_db_write(p)
  <2>1. /\ UNCHANGED <<claim, good, mirrored, listed>>
        /\ \/ UNCHANGED <<alone, settled, last>>
           \/ alone' = alone /\ last' = "ok" /\ settled' = (settled \/ p \in alone)
    BY <1>8 DEF sign_db_write, End
  <2> QED
    BY <2>1, <1>0
<1>9. CASE publish_unstage(p) \/ publish_return(p)
  BY <1>2, <1>4, <1>9 DEF publish_unstage, publish_return, Active
<1>10. CASE upload_skip(p) \/ upload_path(p) \/ upload_answer(p) \/ upload_done(p)
  BY <1>2, <1>10 DEF upload_skip, upload_path, upload_answer, upload_done
<1>11. CASE abandon(p)
  <2>1. UNCHANGED <<claim, good, mirrored, listed, settled, alone>> /\ last' \in {last, "err"}
    BY <1>11 DEF abandon, End, hist_vars
  <2> QED
    BY <2>1, <1>0
<1> QED
  BY <1>1, <1>5, <1>6, <1>7, <1>8, <1>9, <1>10, <1>11 DEF Move, Step

\* Everything stays of its kind.
LEMMA Typing ==
    ASSUME TypeOK, Loops, NEW p \in Procs, Move(p)
    PROVE  TypeOK'
<1>1. PICK l \in Labels, r \in Job :
          pc' = [pc EXCEPT ![p] = l] /\ job' = [job EXCEPT ![p] = r] /\ ops' \in 0..MaxOps
  BY Locals
<1>2. pc' \in [Procs -> Labels] /\ job' \in [Procs -> Job]
  BY <1>1 DEF TypeOK
<1> QED
  BY <1>1, <1>2, TypingRepo, TypingS3, TypingHistory DEF TypeOK

LEMMA Versioning ==
    ASSUME NEW p \in Procs, Move(p)
    PROVE  ops' = ops \/ (Begin(p) /\ ops' = ops + 1)
<1>1. CASE Begin(p)
  BY <1>1 DEF Begin
<1>2. CASE publish_copy(p) \/ add_create_stage(p) \/ add_stage(p)
  BY <1>2 DEF publish_copy, add_create_stage, add_stage, Fail, End
<1>3. CASE run_repo_op_spawn(p) \/ run_repo_op_error(p) \/ run_repo_op_exit(p) \/ orphan_end(p)
  BY <1>3 DEF run_repo_op_spawn, run_repo_op_error, run_repo_op_exit, orphan_end, Fail, End
<1>4. CASE sign_db_read(p) \/ sign_db_write(p) \/ sign_error(p) \/ sign_pkg(p)
  BY <1>4 DEF sign_db_read, sign_db_write, sign_error, sign_pkg, Fail, End
<1>5. CASE publish_unstage(p) \/ publish_return(p)
  BY <1>5 DEF publish_unstage, publish_return, Published, End
<1>6. CASE upload_skip(p) \/ upload_path(p) \/ upload_answer(p) \/ upload_done(p)
  BY <1>6 DEF upload_skip, upload_path, upload_answer, upload_done, op_vars
<1>7. CASE abandon(p)
  BY <1>7 DEF abandon, End
<1> QED
  BY <1>1, <1>2, <1>3, <1>4, <1>5, <1>6, <1>7 DEF Move, Step

\* What is passed over is the signature of a package, and there is none.
LEMMA Skips ==
    ASSUME TypeOK, Loops, NEW p \in Procs, upload_skip(p)
    PROVE  /\ job[p].i \notin {1, 2 * Len(job[p].files) + 2}
           /\ \A k \in DOMAIN job[p].files :
                 /\ job[p].i # 2 * k
                 /\ job[p].i = 2 * k + 1 => arch[Sig(job[p].files[k])] = Absent
<1>1. Active(p) /\ job[p].files \in Seq(Files) /\ job[p].files # <<>>
  <2>1. Active(p)
    BY DEF upload_skip, Active
  <2> QED
    BY <2>1, JobFacts
<1>2. PICK n \in Files : UploadKey(p) = Sig(n)
  BY DEF upload_skip, Unsigned
<1>3. /\ Len(Uploads(job[p].files)) = 2 * Len(job[p].files) + 2 /\ Uploads(job[p].files)[1] = Db
      /\ \A k \in DOMAIN job[p].files :
            /\ Uploads(job[p].files)[2 * k] = Pkg(job[p].files[k])
            /\ Uploads(job[p].files)[2 * k + 1] = Sig(job[p].files[k])
  BY <1>1, UploadKeys
<1>4. Uploads(job[p].files)[2 * Len(job[p].files) + 2] = FilesDb
  <2> DEFINE N == 2 * Len(job[p].files) + 2
  <2>1. N \in 1..N /\ N # 1
    BY <1>1
  <2>2. Uploads(job[p].files)[N] = FilesDb
    BY <1>1, <2>1 DEF Uploads
  <2> QED
    BY <2>2
<1>5. \A f : Sig(n) # Pkg(f) /\ Sig(n) # Db /\ Sig(n) # FilesDb
  BY DEF Sig, Pkg, Db, FilesDb
<1> QED
  BY <1>2, <1>3, <1>4, <1>5 DEF upload_skip, Unsigned, UploadKey

\* The loops are left where they should be.
LEMMA LoopsStep ==
    ASSUME TypeOK, Loops, NEW p \in Procs, Move(p)
    PROVE  Loops'
<1> USE DEF Publishing, Uploading, AtFirst, Active
<1>0. /\ pc \in [Procs -> Labels] /\ job \in [Procs -> Job] /\ put \in [Procs -> Put]
      /\ ops \in Nat /\ NoProc \notin Procs
  BY S3ClientAssumption, RepoAssumption DEF TypeOK, TypeS3
<1>1. LoopsOf(p)
  BY DEF Loops
<1>2. Active(p) => Len(job[p].files) \in Nat \ {0} /\ job[p].i \in Nat
  BY JobFacts, <1>0 DEF Job
<1>3. ASSUME NEW q \in Procs, q # p PROVE LoopsOf(q)'
  <2>1. /\ pc'[q] = pc[q] /\ job'[q] = job[q] /\ put'[q] = put[q] /\ (db_lock' = q <=> db_lock = q)
    BY <1>3, Frame
  <2>2. LoopsOf(q)
    BY DEF Loops
  <2>3. ops' = ops \/ ops' = ops + 1
    BY Versioning
  <2>4. \A v \in 1..ops : v \in 1..ops'
    BY <2>3, <1>0
  <2> QED
    BY <2>1, <2>2, <2>4 DEF LoopsOf
<1> SUFFICES LoopsOf(p)'
  BY <1>3 DEF Loops
<1>4. CASE Begin(p)
  <2> DEFINE v == ops + 1
  <2>1. PICK j \in Jobs[p] :
            /\ job' = [job EXCEPT ![p] = [NoJob EXCEPT !.op = j.op, !.files = j.files, !.ver = v, !.i = 1]]
            /\ Goto(p, IF j.op = "publish" THEN "copy" ELSE "spawn")
    BY <1>4 DEF Begin
  <2>2. v \in 1..v /\ ops' = v
    BY <1>0, <1>4 DEF Begin
  <2> HIDE DEF v
  <2>3. job'[p].op = j.op /\ job'[p].files = j.files /\ job'[p].ver = v /\ job'[p].i = 1
    BY <2>1, <1>0 DEF NoJob
  <2>4. j.op \in {"publish", "remove"} /\ Len(j.files) >= 1 /\ Len(j.files) \in Nat
    BY RepoAssumption
  <2>5. pc'[p] = IF j.op = "publish" THEN "copy" ELSE "spawn"
    BY <2>1, <1>0 DEF Goto
  <2>6. pc[p] = "idle" /\ UNCHANGED db_lock
    BY <1>4 DEF Begin, repo_vars
  <2>7. db_lock' # p
    BY <2>6, <1>1 DEF LoopsOf
  <2> QED
    BY <2>2, <2>3, <2>4, <2>5, <2>7 DEF LoopsOf
<1>5. ASSUME NEW res, End(p, res), db_lock' # p PROVE LoopsOf(p)'
  <2>1. pc'[p] = "idle"
    BY <1>5, <1>0 DEF End
  <2> QED
    BY <2>1, <1>5 DEF LoopsOf
<1>7. CASE publish_copy(p)
  <2>1. PICK l \in {"copy", "stage_open"}, i \in 1..Len(job[p].files) :
            /\ pc' = [pc EXCEPT ![p] = l] /\ job' = [job EXCEPT ![p].i = i]
            /\ l = "stage_open" => i = 1
    BY <1>7, <1>1, Advances DEF publish_copy, LoopsOf
  <2>2. /\ pc'[p] = l /\ job'[p].files = job[p].files /\ job'[p].op = job[p].op /\ job'[p].ver = job[p].ver
        /\ job'[p].i = i
    BY <2>1, <1>0 DEF Job
  <2>3. UNCHANGED ops /\ UNCHANGED db_lock /\ pc[p] = "copy"
    BY <1>7 DEF publish_copy
  <2> QED
    BY <2>1, <2>2, <2>3, <1>1 DEF LoopsOf
<1>8. CASE add_create_stage(p)
  <2>1. /\ pc'[p] = "stage" /\ UNCHANGED <<job, ops, db_lock>> /\ pc[p] = "stage_open"
    BY <1>8, <1>0 DEF add_create_stage, Goto
  <2> QED
    BY <2>1, <1>1, <1>2 DEF LoopsOf
<1>9. CASE add_stage(p)
  <2>0. UNCHANGED db_lock /\ pc[p] = "stage"
    BY <1>9 DEF add_stage
  <2>1. CASE Fail(p)
    BY <2>0, <2>1, <1>1, <1>5 DEF Fail, LoopsOf
  <2>2. CASE Advance(p, "stage", "spawn") /\ UNCHANGED ops
    <3>1. PICK l \in {"stage", "spawn"}, i \in 1..Len(job[p].files) :
            /\ pc' = [pc EXCEPT ![p] = l] /\ job' = [job EXCEPT ![p].i = i]
            /\ l = "spawn" => i = 1
      BY <2>0, <2>2, <1>1, Advances DEF LoopsOf
    <3>2. /\ pc'[p] = l /\ job'[p].files = job[p].files /\ job'[p].op = job[p].op /\ job'[p].ver = job[p].ver
          /\ job'[p].i = i
      BY <3>1, <1>0 DEF Job
    <3> QED
      BY <3>1, <3>2, <2>0, <2>2, <1>1 DEF LoopsOf
  <2> QED
    BY <2>1, <2>2, <1>9 DEF add_stage
<1>10. CASE run_repo_op_spawn(p)
  <2>0. pc[p] = "spawn" /\ db_lock # p
    BY <1>10, <1>1 DEF run_repo_op_spawn, LoopsOf
  <2>1. CASE Fail(p) /\ UNCHANGED db_lock
    BY <2>0, <2>1, <1>5 DEF Fail
  <2>2. CASE db_lock' = p /\ Goto(p, "container") /\ UNCHANGED <<job, ops>>
    <3>1. pc'[p] = "container"
      BY <2>2, <1>0 DEF Goto
    <3> QED
      BY <3>1, <2>0, <2>2, <1>1 DEF LoopsOf
  <2> QED
    BY <2>1, <2>2, <1>10 DEF run_repo_op_spawn
<1>11. CASE run_repo_op_error(p) \/ sign_error(p)
  <2>1. Fail(p) /\ UNCHANGED db_lock /\ pc[p] \in {"spawn", "gpg_db", "sign_pkg"}
    BY <1>11 DEF run_repo_op_error, sign_error
  <2>2. db_lock' # p
    BY <2>1, <1>1 DEF LoopsOf
  <2> QED
    BY <2>1, <2>2, <1>5 DEF Fail
<1>12. CASE run_repo_op_exit(p)
  <2>0. pc[p] = "container" /\ db_lock' # p
    BY <1>12, <1>0 DEF run_repo_op_exit, container_end
  <2>1. CASE Fail(p)
    BY <2>0, <2>1, <1>5 DEF Fail
  <2>2. CASE Goto(p, "sign_db") /\ UNCHANGED <<job, ops>>
    <3>1. pc'[p] = "sign_db"
      BY <2>2, <1>0 DEF Goto
    <3> QED
      BY <3>1, <2>0, <2>2, <1>1 DEF LoopsOf
  <2> QED
    BY <2>1, <2>2, <1>12 DEF run_repo_op_exit
<1>13. CASE orphan_end(p)
  <2>1. Fail(p) /\ db_lock' # p
    BY <1>13, <1>0 DEF orphan_end, container_end
  <2> QED
    BY <2>1, <1>5 DEF Fail
<1>14. CASE sign_db_read(p)
  <2>1. /\ pc[p] = "sign_db" /\ pc'[p] = "gpg_db" /\ UNCHANGED <<ops, db_lock>>
        /\ job'[p].files = job[p].files /\ job'[p].op = job[p].op /\ job'[p].ver = job[p].ver /\ job'[p].i = job[p].i
    BY <1>14, <1>0 DEF sign_db_read, Goto, Job
  <2> QED
    BY <2>1, <1>1 DEF LoopsOf
<1>15. CASE sign_db_write(p)
  <2>0. pc[p] = "gpg_db" /\ UNCHANGED db_lock /\ db_lock # p
    BY <1>15, <1>1 DEF sign_db_write, LoopsOf
  <2>1. CASE End(p, "ok")
    BY <2>0, <2>1, <1>5
  <2>2. CASE job[p].op = "publish" /\ Goto(p, "sign_pkg") /\ job' = [job EXCEPT ![p].body = Absent] /\ UNCHANGED ops
    <3>1. /\ pc'[p] = "sign_pkg" /\ job'[p].files = job[p].files /\ job'[p].op = job[p].op
          /\ job'[p].ver = job[p].ver /\ job'[p].i = job[p].i
      BY <2>2, <1>0 DEF Goto, Job
    <3> QED
      BY <3>1, <2>0, <2>2, <1>1, <1>2 DEF LoopsOf
  <2> QED
    BY <2>1, <2>2, <1>15 DEF sign_db_write
<1>16. CASE sign_pkg(p)
  <2>1. PICK l \in {"sign_pkg", "unstage"}, i \in 1..Len(job[p].files) :
            /\ pc' = [pc EXCEPT ![p] = l] /\ job' = [job EXCEPT ![p].i = i]
            /\ l = "unstage" => i = 1
    BY <1>16, <1>1, Advances DEF sign_pkg, LoopsOf
  <2>2. /\ pc'[p] = l /\ job'[p].files = job[p].files /\ job'[p].op = job[p].op /\ job'[p].ver = job[p].ver
        /\ job'[p].i = i
    BY <2>1, <1>0 DEF Job
  <2>3. UNCHANGED ops /\ UNCHANGED db_lock /\ pc[p] = "sign_pkg"
    BY <1>16 DEF sign_pkg
  <2> QED
    BY <2>1, <2>2, <2>3, <1>1 DEF LoopsOf
<1>17. CASE publish_unstage(p)
  <2>0. pc[p] = "unstage" /\ UNCHANGED db_lock /\ db_lock # p
    BY <1>17, <1>1 DEF publish_unstage, LoopsOf
  <2>1. CASE Published(p)
    BY <2>0, <2>1, <1>5 DEF Published
  <2>2. CASE Goto(p, "upload") /\ UNCHANGED <<job, ops>>
    <3>1. pc'[p] = "upload"
      BY <2>2, <1>0 DEF Goto
    <3>2. 1 \in 1..(2 * Len(job[p].files) + 2)
      BY <2>0, <1>2
    <3> QED
      BY <3>1, <3>2, <2>0, <2>2, <1>1 DEF LoopsOf
  <2> QED
    BY <2>1, <2>2, <1>17 DEF publish_unstage
<1>18. CASE upload_path(p)
  <2>1. /\ pc[p] = "upload" /\ pc'[p] = "put" /\ UNCHANGED <<job, ops, db_lock>>
        /\ put'[p].key = Uploads(job[p].files)[job[p].i] /\ put'[p].res = "busy"
    BY <1>18, <1>0 DEF upload_path, UploadKey, Goto, Request, repo_vars
  <2> QED
    BY <2>1, <1>1 DEF LoopsOf
<1>19. CASE upload_answer(p)
  <2>1. pc[p] = "put" /\ UNCHANGED <<pc, job, ops, db_lock>>
    BY <1>19 DEF upload_answer, repo_vars, op_vars
  <2>2. put'[p].key = put[p].key /\ put'[p].res # "none"
    <3>1. \/ Finished(p, "ok") \/ Finished(p, "err")
          \/ put' = [put EXCEPT ![p].attempt = @ + 1]
      BY <1>19 DEF upload_answer, PutAnswer, put_success, put_transient, put_permanent, put_network
    <3>2. put[p].res # "none" /\ put[p] \in Put
      BY <2>1, <1>0, <1>1 DEF LoopsOf
    <3>3. CASE put' = [put EXCEPT ![p].attempt = @ + 1]
      <4> DEFINE a == put[p].attempt + 1
      <4>1. put' = [put EXCEPT ![p].attempt = a]
        BY <3>3
      <4> HIDE DEF a
      <4> QED
        BY <4>1, <3>2, <1>0 DEF Put
    <3> QED
      BY <3>1, <3>2, <3>3, <1>0 DEF Put, Finished
  <2> QED
    BY <2>1, <2>2, <1>1 DEF LoopsOf
<1>20. CASE upload_done(p)
  <2> DEFINE i == job[p].i + 1
             a == job[p].acked /\ put[p].res = "ok"
             N == 2 * Len(job[p].files) + 2
  <2>1. pc[p] = "put" /\ job[p].i \in 1..N /\ UNCHANGED <<ops, db_lock>> /\ N \in Nat /\ job[p].op = "publish"
    BY <1>20, <1>1, <1>2 DEF upload_done, repo_vars, LoopsOf
  <2>2. Len(Uploads(job[p].files)) = N
    BY <2>1, JobFacts, UploadKeys
  <2>3. pc'[p] = IF job[p].i = N THEN "return" ELSE "upload"
    BY <2>2, <1>20, <1>0 DEF upload_done, Goto
  <2>4. job' = [job EXCEPT ![p].acked = a, ![p].i = i]
    BY <1>20 DEF upload_done
  <2>5. job[p].i # N => i \in 1..N
    BY <2>1
  <2> HIDE DEF i, a
  <2>6. job'[p].files = job[p].files /\ job'[p].op = job[p].op /\ job'[p].ver = job[p].ver /\ job'[p].i = i
    BY <2>4, <1>0 DEF Job
  <2>7. CASE job[p].i = N
    <3>1. pc'[p] = "return"
      BY <2>3, <2>7
    <3> QED
      BY <3>1, <2>1, <2>6, <1>1 DEF LoopsOf
  <2>8. CASE job[p].i # N
    <3>1. pc'[p] = "upload"
      BY <2>3, <2>8
    <3> QED
      BY <3>1, <2>1, <2>5, <2>6, <2>8, <1>1 DEF LoopsOf
  <2> QED
    BY <2>7, <2>8
<1>23. CASE upload_skip(p)
  <2> DEFINE i == job[p].i + 1
             N == 2 * Len(job[p].files) + 2
  <2>1. pc[p] = "upload" /\ job[p].i \in 1..N /\ UNCHANGED <<pc, ops, db_lock>> /\ job' = [job EXCEPT ![p].i = i]
    BY <1>23, <1>1 DEF upload_skip, AtFile, repo_vars, LoopsOf
  <2>2. job[p].i # N
    BY <1>23, <2>1, Skips
  <2>3. i \in 1..N
    BY <2>1, <2>2, <1>2
  <2> HIDE DEF i
  <2>4. job'[p].files = job[p].files /\ job'[p].op = job[p].op /\ job'[p].ver = job[p].ver /\ job'[p].i = i
    BY <2>1, <1>0 DEF Job
  <2> QED
    BY <2>1, <2>3, <2>4, <1>1 DEF LoopsOf
<1>21. CASE publish_return(p)
  <2>1. db_lock' # p
    BY <1>21, <1>1 DEF publish_return, repo_vars, LoopsOf
  <2> QED
    BY <2>1, <1>21, <1>5 DEF publish_return, Published
<1>22. CASE abandon(p)
  <2>0. UNCHANGED db_lock /\ pc[p] # "orphan"
    BY <1>22 DEF abandon, repo_vars
  <2>1. CASE End(p, "err") /\ pc[p] # "container"
    BY <2>0, <2>1, <1>1, <1>5 DEF LoopsOf
  <2>2. CASE Goto(p, "orphan") /\ UNCHANGED <<job, ops>> /\ pc[p] \in {"container", "gpg_db"}
    <3>1. pc'[p] = "orphan"
      BY <2>2, <1>0 DEF Goto
    <3> QED
      BY <3>1, <2>0, <2>2, <1>1 DEF LoopsOf
  <2> QED
    BY <2>1, <2>2, <1>22 DEF abandon
<1> QED
  BY <1>4, <1>7, <1>8, <1>9, <1>10, <1>11, <1>12, <1>13, <1>14, <1>15, <1>16, <1>17, <1>18, <1>19,
     <1>20, <1>21, <1>22, <1>23 DEF Move, Step

------------------------------------------------------------------------------
(* Whose a file is *)

\* What a step may do to the files of a name that is not in the operation.
LEMMA Foreign ==
    ASSUME TypeOK, Loops, NEW p \in Procs, Move(p), NEW n \in Files,
           ~(Active(p) /\ n \in FilesOf(p))
    PROVE  /\ arch'[Pkg(n)] = arch[Pkg(n)] /\ arch'[Sig(n)] = arch[Sig(n)]
           /\ arch'[Db][n] = arch[Db][n] /\ stage'[n] \in {stage[n], 0}
           /\ mirror'[Pkg(n)] = mirror[Pkg(n)] /\ mirror'[Sig(n)] = mirror[Sig(n)]
<1>0. /\ arch \in [Path -> Content] /\ stage \in Content /\ mirror \in [Path -> Content]
      /\ Db \in Path /\ Pkg(n) \in Path /\ Sig(n) \in Path
  BY Paths DEF TypeOK, TypeS3
<1>1. Pkg(n) \notin {Db, DbSig, FilesDb} /\ Sig(n) \notin {Db, DbSig, FilesDb} /\ Db # DbSig /\ Db # FilesDb
  BY Paths
<1>2. ASSUME pc[p] \in {"copy", "stage", "sign_pkg"}
      PROVE  /\ File(p) \in Files /\ File(p) # n
             /\ Pkg(File(p)) \notin {Db, Pkg(n), Sig(n)} /\ Sig(File(p)) \notin {Db, Pkg(n), Sig(n)}
  <2>1. job[p].i \in 1..Len(job[p].files) /\ Active(p)
    BY <1>2 DEF Loops, LoopsOf, Active
  <2>2. File(p) \in FilesOf(p) /\ File(p) \in Files
    BY <2>1, JobFacts DEF File
  <2> QED
    BY <2>1, <2>2, Paths
<1>3. ASSUME pc[p] = "put"
      PROVE  put[p].key \notin {Pkg(n), Sig(n)}
  <2>1. Active(p) /\ put[p].key = Uploads(job[p].files)[job[p].i] /\ job[p].i \in 1..(2 * Len(job[p].files) + 2)
    BY <1>3 DEF Loops, LoopsOf, Active, Uploading
  <2>2. \/ put[p].key \in {Db, FilesDb}
        \/ \E k \in DOMAIN job[p].files : put[p].key \in {Pkg(job[p].files[k]), Sig(job[p].files[k])}
    <3> DEFINE fs == job[p].files
               i == job[p].i
    <3>1. fs \in Seq(Files) /\ fs # <<>>
      BY <2>1, JobFacts
    <3>2. i \in 1..(2 * Len(fs) + 2) /\ put[p].key = Uploads(fs)[i]
      BY <2>1
    <3> HIDE DEF fs, i
    <3>3. \/ i = 1 \/ Uploads(fs)[i] = FilesDb
          \/ \E k \in DOMAIN fs : i = 2 * k \/ i = 2 * k + 1
      BY <3>1, <3>2, UploadKeys
    <3>4. /\ Uploads(fs)[1] = Db
          /\ \A k \in DOMAIN fs : Uploads(fs)[2 * k] = Pkg(fs[k]) /\ Uploads(fs)[2 * k + 1] = Sig(fs[k])
      BY <3>1, UploadKeys
    <3>5. put[p].key \in {Db, FilesDb} \/ \E k \in DOMAIN fs : put[p].key \in {Pkg(fs[k]), Sig(fs[k])}
      BY <3>2, <3>3, <3>4
    <3> QED
      BY <3>5 DEF fs
  <2>3. \A k \in DOMAIN job[p].files : job[p].files[k] \in Files /\ job[p].files[k] # n
    BY <2>1, JobFacts
  <2> QED
    BY <2>2, <2>3, <1>1, Paths
<1>4. CASE Begin(p) \/ upload_skip(p) \/ upload_path(p) \/ upload_done(p) \/ publish_return(p)
  BY <1>4 DEF Begin, upload_skip, upload_path, upload_done, publish_return, repo_vars, s3_vars
<1>5. CASE publish_copy(p)
  <2>1. arch' = [arch EXCEPT ![Pkg(File(p))] = Only(File(p), job[p].ver)] /\ UNCHANGED <<stage, mirror>>
    BY <1>5 DEF publish_copy, s3_vars
  <2> QED
    BY <2>1, <1>0, <1>2, <1>5 DEF publish_copy
<1>6. CASE add_create_stage(p) \/ run_repo_op_error(p)
  BY <1>6 DEF add_create_stage, run_repo_op_error, Fail, s3_vars
<1>7. CASE add_stage(p)
  <2>1. /\ UNCHANGED <<arch, mirror>> /\ pc[p] = "stage"
        /\ stage' = stage \/ stage' = [stage EXCEPT ![File(p)] = arch[Pkg(File(p))][File(p)]]
    BY <1>7 DEF add_stage, Fail, s3_vars
  <2>2. File(p) \in Files /\ File(p) # n /\ stage \in [Files -> Versions]
    BY <2>1, <1>0, <1>2 DEF Content
  <2>3. stage'[n] = stage[n]
    BY <2>1, <2>2
  <2> QED
    BY <2>1, <2>3
<1>8. CASE run_repo_op_spawn(p) \/ sign_db_read(p) \/ sign_db_write(p)
  <2>1. UNCHANGED <<stage, mirror>> /\ \E c : arch' = [arch EXCEPT ![DbSig] = c]
    BY <1>8 DEF run_repo_op_spawn, sign_db_read, sign_db_write, Fail, s3_vars
  <2> QED
    BY <2>1, <1>0, <1>1
<1>9. CASE run_repo_op_exit(p) \/ orphan_end(p)
  <2>1. /\ UNCHANGED <<stage, mirror>> /\ Active(p)
        /\ \/ UNCHANGED arch
           \/ arch' = [arch EXCEPT ![Db] = NewDb(p), ![FilesDb] = NewDb(p)]
           \/ \E c : arch' = [arch EXCEPT ![DbSig] = c]
    BY <1>9 DEF run_repo_op_exit, orphan_end, container_end, Fail, s3_vars, Active
  <2>2. NewDb(p)[n] = arch[Db][n]
    BY <2>1 DEF NewDb
  <2> QED
    BY <2>1, <2>2, <1>0, <1>1
<1>10. CASE sign_error(p)
  <2>1. /\ UNCHANGED <<stage, mirror>>
        /\ UNCHANGED arch \/ (pc[p] = "sign_pkg" /\ arch' = [arch EXCEPT ![Sig(File(p))] = Absent])
    BY <1>10 DEF sign_error, Fail, s3_vars
  <2> QED
    BY <2>1, <1>0, <1>2
<1>11. CASE sign_pkg(p)
  <2>1. /\ UNCHANGED <<stage, mirror>> /\ pc[p] = "sign_pkg"
        /\ arch' = [arch EXCEPT ![Sig(File(p))] = arch[Pkg(File(p))]]
    BY <1>11 DEF sign_pkg, s3_vars
  <2> QED
    BY <2>1, <1>0, <1>2
<1>12. CASE publish_unstage(p)
  <2>1. stage'[n] = 0
    BY <1>12 DEF publish_unstage, Absent
  <2> QED
    BY <2>1, <1>12 DEF publish_unstage, s3_vars
<1>13. CASE upload_answer(p) \/ abandon(p)
  <2>1. /\ UNCHANGED <<arch, stage>>
        /\ UNCHANGED mirror \/ (pc[p] = "put" /\ mirror' = [mirror EXCEPT ![put[p].key] = put[p].body])
    BY <1>13 DEF upload_answer, abandon, PutAnswer, put_success, put_transient, put_permanent, put_network, Stored,
       repo_vars, s3_vars
  <2> QED
    BY <2>1, <1>0, <1>3
<1> QED
  BY <1>4, <1>5, <1>6, <1>7, <1>8, <1>9, <1>10, <1>11, <1>12, <1>13 DEF Move, Step

\* What a step does to the record of who owns a name.
LEMMA Claims ==
    ASSUME NEW p \in Procs, Move(p), ~Begin(p)
    PROVE  /\ Active(p) /\ claim' = claim /\ alone' = alone
           /\ \/ good' = good
              \/ /\ Published(p) /\ UNCHANGED <<arch, s3_vars>>
                 /\ pc[p] = "return" \/ (pc[p] = "unstage" /\ ~HasS3)
<1>1. CASE publish_copy(p) \/ add_create_stage(p) \/ add_stage(p)
  BY <1>1 DEF publish_copy, add_create_stage, add_stage, Fail, End, hist_vars, Active
<1>2. CASE run_repo_op_spawn(p) \/ run_repo_op_error(p) \/ run_repo_op_exit(p) \/ orphan_end(p)
  BY <1>2 DEF run_repo_op_spawn, run_repo_op_error, run_repo_op_exit, orphan_end, Fail, End, hist_vars, Active
<1>3. CASE sign_db_read(p) \/ sign_db_write(p) \/ sign_error(p) \/ sign_pkg(p)
  BY <1>3 DEF sign_db_read, sign_db_write, sign_error, sign_pkg, Fail, End, hist_vars, Active
<1>4. CASE publish_unstage(p) \/ publish_return(p)
  BY <1>4 DEF publish_unstage, publish_return, Published, End, hist_vars, repo_vars, Active
<1>5. CASE upload_skip(p) \/ upload_path(p) \/ upload_answer(p) \/ upload_done(p)
  BY <1>5 DEF upload_skip, upload_path, upload_answer, upload_done, hist_vars, Active
<1>6. CASE abandon(p)
  BY <1>6 DEF abandon, End, hist_vars, Active
<1> QED
  BY <1>1, <1>2, <1>3, <1>4, <1>5, <1>6 DEF Move, Step

\* An operation that goes on is the same operation.
LEMMA Kept ==
    ASSUME TypeOK, Loops, NEW p \in Procs, Move(p), ~Begin(p)
    PROVE  Active(p)' => /\ job'[p].ver = job[p].ver /\ job'[p].files = job[p].files
                         /\ job'[p].op = job[p].op
<1>0. job \in [Procs -> Job] /\ pc \in [Procs -> Labels]
  BY DEF TypeOK
<1>1. CASE UNCHANGED job
  BY <1>1
<1>2. ASSUME NEW res, End(p, res) PROVE ~Active(p)'
  BY <1>2, <1>0 DEF End, Active
<1>3. ASSUME NEW here, NEW next, Advance(p, here, next)
      PROVE  /\ job'[p].ver = job[p].ver /\ job'[p].files = job[p].files
             /\ job'[p].op = job[p].op
  <2>1. PICK i : job' = [job EXCEPT ![p].i = i]
    BY <1>3 DEF Advance, AtFile
  <2> QED
    BY <2>1, <1>0 DEF Job
<1>4. CASE publish_copy(p) \/ add_create_stage(p) \/ add_stage(p)
  BY <1>1, <1>2, <1>3, <1>4 DEF publish_copy, add_create_stage, add_stage, Fail
<1>5. CASE run_repo_op_spawn(p) \/ run_repo_op_error(p) \/ run_repo_op_exit(p) \/ orphan_end(p) \/ sign_error(p)
  BY <1>1, <1>2, <1>5 DEF run_repo_op_spawn, run_repo_op_error, run_repo_op_exit, orphan_end, sign_error, Fail
<1>6. CASE sign_db_read(p)
  BY <1>6, <1>0 DEF sign_db_read, Job
<1>7. CASE sign_db_write(p)
  <2>1. End(p, "ok") \/ job' = [job EXCEPT ![p].body = Absent]
    BY <1>7 DEF sign_db_write
  <2> QED
    BY <2>1, <1>2, <1>0 DEF Job
<1>8. CASE sign_pkg(p)
  BY <1>3, <1>8 DEF sign_pkg
<1>9. CASE publish_unstage(p) \/ upload_path(p) \/ upload_answer(p) \/ publish_return(p) \/ abandon(p)
  BY <1>1, <1>2, <1>9 DEF publish_unstage, upload_path, upload_answer, publish_return, abandon, Published, op_vars
<1>10. CASE upload_skip(p) \/ upload_done(p)
  <2>1. \/ \E i : job' = [job EXCEPT ![p].i = i]
        \/ \E a, i : job' = [job EXCEPT ![p].acked = a, ![p].i = i]
    BY <1>10 DEF upload_skip, upload_done, AtFile
  <2> QED
    BY <2>1, <1>0 DEF Job
<1> QED
  BY <1>4, <1>5, <1>6, <1>7, <1>8, <1>9, <1>10 DEF Move, Step

LEMMA Beginning ==
    ASSUME TypeOK, Loops, NEW p \in Procs, Begin(p)
    PROVE  /\ ~Active(p) /\ Active(p)' /\ pc'[p] \in {"copy", "spawn"}
           /\ job'[p].ver = ops + 1 /\ job'[p].i = 1 /\ (pc'[p] = "spawn" => job'[p].op = "remove")
           /\ FilesOf(p)' \subseteq Files /\ good' = good \ FilesOf(p)'
           /\ \A n \in FilesOf(p)' :
                  /\ claim'[n] \in {0, ops + 1}
                  /\ \A q \in Procs : Active(q) /\ n \in FilesOf(q) => claim'[n] = 0
           /\ \A n \in Files : n \notin FilesOf(p)' => claim'[n] = claim[n]
<1> DEFINE v == ops + 1
<1>1. PICK j \in Jobs[p] :
          /\ job' = [job EXCEPT ![p] = [NoJob EXCEPT !.op = j.op, !.files = j.files, !.ver = v, !.i = 1]]
          /\ Goto(p, IF j.op = "publish" THEN "copy" ELSE "spawn")
          /\ LET ns == {j.files[i] : i \in DOMAIN j.files}
                 Shared(n) == \E q \in Procs : Active(q) /\ n \in FilesOf(q)
             IN /\ claim' = [n \in Files |-> IF n \notin ns THEN claim[n]
                                             ELSE IF Shared(n) THEN 0 ELSE v]
                /\ good' = good \ ns
  BY DEF Begin
<1> DEFINE ns == {j.files[i] : i \in DOMAIN j.files}
<1> HIDE DEF v
<1>2. job \in [Procs -> Job] /\ pc \in [Procs -> Labels]
  BY DEF TypeOK
<1>3. job'[p].op = j.op /\ job'[p].files = j.files /\ job'[p].ver = v /\ job'[p].i = 1
  BY <1>1, <1>2 DEF NoJob
<1>4. pc'[p] = IF j.op = "publish" THEN "copy" ELSE "spawn"
  BY <1>1, <1>2 DEF Goto
<1>5. FilesOf(p)' = ns
  BY <1>3 DEF FilesOf
<1>6. j.op \in {"publish", "remove"} /\ j.files \in Seq(Files)
  BY RepoAssumption
<1>7. ns \subseteq Files
  BY <1>6
<1>8. ~Active(p) /\ Active(p)'
  BY <1>4 DEF Begin, Active
<1>9. /\ \A n \in ns : /\ claim'[n] \in {0, v}
                       /\ \A q \in Procs : Active(q) /\ n \in FilesOf(q) => claim'[n] = 0
      /\ \A n \in Files : n \notin ns => claim'[n] = claim[n]
      /\ good' = good \ ns
  BY <1>1, <1>7
<1> QED
  BY <1>3, <1>4, <1>5, <1>6, <1>7, <1>8, <1>9 DEF v

\* Ownership is kept: it is lost to an operation that begins, and ends with its own.
LEMMA OwnersStep ==
    ASSUME TypeOK, Loops, Owners, NEW p \in Procs, Move(p)
    PROVE  Owners'
<1>0. ops \in Nat /\ ops' \in {ops, ops + 1}
  BY Versioning, S3ClientAssumption DEF TypeOK
<1>1. \A q \in Procs : Active(q) => job[q].ver \in 1..ops /\ FilesOf(q) \subseteq Files
  BY JobFacts
<1>2. \A q \in Procs \ {p} : pc'[q] = pc[q] /\ job'[q] = job[q]
  BY Frame
<1>3. \A q \in Procs \ {p} : Active(q)' = Active(q) /\ FilesOf(q)' = FilesOf(q)
  BY <1>2 DEF Active, FilesOf
<1>4. CASE Begin(p)
  <2>1. /\ job'[p].ver = ops + 1 /\ good' = good \ FilesOf(p)' /\ FilesOf(p)' \subseteq Files
        /\ \A n \in FilesOf(p)' :
                  /\ claim'[n] \in {0, ops + 1}
                  /\ \A q \in Procs : Active(q) /\ n \in FilesOf(q) => claim'[n] = 0
        /\ \A n \in Files : n \notin FilesOf(p)' => claim'[n] = claim[n]
    BY <1>4, Beginning
  <2>2. \A q \in Procs \ {p} : Active(q)' => job'[q].ver # job'[p].ver
    <3> SUFFICES ASSUME NEW q \in Procs \ {p}, Active(q) PROVE job[q].ver # ops + 1
      BY <1>2, <1>3, <2>1
    <3> QED
      BY <1>0, <1>1
  <2>3. \A q, r \in Procs : Active(q)' /\ Active(r)' /\ q # r => job'[q].ver # job'[r].ver
    BY <1>2, <1>3, <2>2 DEF Owners
  <2>4. \A q \in Procs : Active(q)' => \A n \in FilesOf(q)' : n \notin good' /\ claim'[n] \in {0, job'[q].ver}
    <3> SUFFICES ASSUME NEW q \in Procs, Active(q)', NEW n \in FilesOf(q)'
                 PROVE  n \notin good' /\ claim'[n] \in {0, job'[q].ver}
      OBVIOUS
    <3>1. CASE q = p
      BY <3>1, <2>1
    <3>2. CASE q # p
      <4>1. Active(q) /\ n \in FilesOf(q) /\ n \in Files /\ job'[q] = job[q]
        BY <3>2, <1>1, <1>2, <1>3
      <4>2. n \notin good /\ claim[n] \in {0, job[q].ver}
        BY <4>1 DEF Owners
      <4> QED
        BY <4>1, <4>2, <2>1
    <3> QED
      BY <3>1, <3>2
  <2> QED
    BY <2>3, <2>4 DEF Owners
<1>5. CASE ~Begin(p)
  <2>1. /\ Active(p) /\ claim' = claim
        /\ good' = good \/ Published(p)
    BY <1>5, Claims
  <2>2. Active(p)' => job'[p].ver = job[p].ver /\ job'[p].files = job[p].files
    BY <1>5, Kept
  <2>3. Active(p)' => FilesOf(p)' = FilesOf(p)
    BY <2>2 DEF FilesOf
  <2>4. \A q, r \in Procs : Active(q)' /\ Active(r)' /\ q # r => job'[q].ver # job'[r].ver
    BY <1>2, <1>3, <2>1, <2>2 DEF Owners
  <2>5. \A q \in Procs : Active(q)' => \A n \in FilesOf(q)' : n \notin good /\ claim[n] \in {0, job'[q].ver}
    BY <1>2, <1>3, <2>1, <2>2, <2>3 DEF Owners
  <2>6. CASE good' = good
    BY <2>1, <2>4, <2>5, <2>6 DEF Owners
  <2>7. CASE Published(p)
    <3>1. ~Active(p)' /\ good' = good \cup {n \in FilesOf(p) : claim[n] = job[p].ver}
      BY <2>7 DEF Published, End, Active, TypeOK
    <3>2. ASSUME NEW q \in Procs, Active(q)', NEW n \in FilesOf(q)', n \in FilesOf(p)
          PROVE  claim[n] # job[p].ver
      <4>1. q # p /\ Active(q) /\ job[q].ver # job[p].ver /\ claim[n] \in {0, job[q].ver}
        BY <3>1, <3>2, <1>3, <2>1 DEF Owners
      <4>2. job[p].ver # 0
        BY <2>1, <1>0, <1>1
      <4> QED
        BY <4>1, <4>2
    <3> QED
      BY <3>1, <3>2, <2>1, <2>4, <2>5 DEF Owners
  <2> QED
    BY <2>1, <2>6, <2>7
<1> QED
  BY <1>4, <1>5

\* Another caller leaves alone what an owner has done, but for its staged copies.
LEMMA ProgressOthers ==
    ASSUME TypeOK, Loops, Owners, Progress, NEW p \in Procs, Move(p), NEW q \in Procs, q # p,
           job'[q].op = "publish", NEW k \in DOMAIN job'[q].files, Owns(q, job[q].files[k])'
    PROVE  ProgressOf(q, k)'
<1>1. pc'[q] = pc[q] /\ job'[q] = job[q] /\ put'[q] = put[q]
  BY Frame
<1> DEFINE n == job[q].files[k]
           v == job[q].ver
<1>2. Active(q) /\ n \in FilesOf(q) /\ claim'[n] = v
  BY <1>1 DEF Owns, Active, FilesOf
<1>3. n \in Files /\ v \in 1..ops /\ ops \in Nat
  BY <1>2, JobFacts
<1>4. ~(Active(p) /\ n \in FilesOf(p)) /\ claim[n] = v
  <2>1. CASE Begin(p)
    <3>1. n \notin FilesOf(p)'
      <4>1. n \in FilesOf(p)' => claim'[n] = 0
        BY <1>2, <2>1, Beginning
      <4> QED
        BY <4>1, <1>2, <1>3
    <3> QED
      BY <3>1, <2>1, <1>2, <1>3, Beginning
  <2>2. CASE ~Begin(p)
    <3>1. Active(p) /\ claim[n] = v
      BY <2>2, <1>2, Claims
    <3>2. n \in FilesOf(p) => claim[n] \in {0, job[p].ver} /\ job[p].ver # v
      BY <3>1, <1>2 DEF Owners
    <3> QED
      BY <3>1, <3>2, <1>3
  <2> QED
    BY <2>1, <2>2
<1>5. /\ arch'[Pkg(n)] = arch[Pkg(n)] /\ arch'[Sig(n)] = arch[Sig(n)]
      /\ arch'[Db][n] = arch[Db][n] /\ stage'[n] \in {stage[n], 0}
      /\ mirror'[Pkg(n)] = mirror[Pkg(n)] /\ mirror'[Sig(n)] = mirror[Sig(n)]
  BY <1>3, <1>4, Foreign
<1>6. ProgressOf(q, k)
  BY <1>1, <1>2, <1>4 DEF Progress, Owns
<1>7. PutOf(q, Pkg(n)) /\ PutOf(q, Sig(n)) => PutOf(q, Pkg(n))' /\ PutOf(q, Sig(n))'
  BY <1>1, <1>5 DEF PutOf, Pkg, Sig
<1>8. /\ Copied(q, k)' = Copied(q, k) /\ Staged(q, k)' = Staged(q, k) /\ Signed(q, k)' = Signed(q, k)
      /\ \A i : Sent(q, i)' = Sent(q, i)
  BY <1>1 DEF Copied, Staged, Signed, Sent
<1> QED
  BY <1>1, <1>5, <1>6, <1>7, <1>8 DEF ProgressOf, Pkg, Sig, Only

\* An answer leaves the request as it is, and stores the body or nothing.
LEMMA Answered ==
    ASSUME TypeOK, NEW p \in Procs, PutAnswer(p)
    PROVE  /\ put'[p].key = put[p].key /\ put'[p].body = put[p].body
           /\ \/ mirror' = mirror /\ put'[p].res \in {"busy", "err"}
              \/ mirror' = [mirror EXCEPT ![put[p].key] = put[p].body]
<1>1. put \in [Procs -> Put] /\ put[p] \in Put
  BY DEF TypeOK, TypeS3
<1>2. ASSUME NEW res, Finished(p, res)
      PROVE  put'[p].key = put[p].key /\ put'[p].body = put[p].body /\ put'[p].res = res
  BY <1>1, <1>2 DEF Finished, Put
<1>3. CASE put_success(p)
  BY <1>2, <1>3 DEF put_success, Stored
<1>4. CASE put_transient(p)
  <2>1. CASE Finished(p, "err")
    BY <1>2, <1>4, <2>1 DEF put_transient
  <2>2. CASE put' = [put EXCEPT ![p].attempt = @ + 1]
    <3> DEFINE a == put[p].attempt + 1
    <3>1. put' = [put EXCEPT ![p].attempt = a]
      BY <2>2
    <3> HIDE DEF a
    <3>2. put'[p].key = put[p].key /\ put'[p].body = put[p].body /\ put'[p].res = put[p].res
      BY <3>1, <1>1 DEF Put
    <3> QED
      BY <3>2, <1>4 DEF put_transient
  <2> QED
    BY <2>1, <2>2, <1>4 DEF put_transient
<1>5. CASE put_permanent(p)
  BY <1>2, <1>5 DEF put_permanent
<1>6. CASE put_network(p)
  BY <1>2, <1>6 DEF put_network, Stored
<1> QED
  BY <1>3, <1>4, <1>5, <1>6 DEF PutAnswer

\* An owner goes on with what it has done.
LEMMA ProgressOwn ==
    ASSUME TypeOK, Loops, Owners, Progress, NEW p \in Procs, Move(p),
           job'[p].op = "publish", NEW k \in DOMAIN job'[p].files, Owns(p, job[p].files[k])'
    PROVE  ProgressOf(p, k)'
<1> USE DEF Publishing, Uploading, AtFirst, AfterCopy, InDatabase, Finishing
<1> DEFINE n == job'[p].files[k]
           v == job'[p].ver
           i == job[p].i
           N == 2 * Len(job[p].files) + 2
<1>1. CASE Begin(p)
  <2>1. pc'[p] = "copy" /\ job'[p].i = 1
    BY <1>1, Beginning
  <2>2. DOMAIN job'[p].files \subseteq Nat \ {0}
    <3>1. PICK r \in Job : job' = [job EXCEPT ![p] = r]
      BY Locals
    <3>2. job'[p].files \in Seq(Files)
      BY <3>1 DEF TypeOK, Job
    <3> QED
      BY <3>2
  <2>3. ~(k < 1)
    BY <2>2
  <2> QED
    BY <2>1, <2>3 DEF ProgressOf, Copied, Staged, Signed, Sent, PutOf
<1> SUFFICES ASSUME ~Begin(p) PROVE ProgressOf(p, k)'
  BY <1>1
<1>2. Active(p)' /\ n \in FilesOf(p)' /\ claim'[n] = v
  BY DEF Owns
<1>3. /\ Active(p) /\ claim' = claim /\ job'[p].files = job[p].files /\ job'[p].op = job[p].op
      /\ v = job[p].ver /\ n = job[p].files[k] /\ FilesOf(p)' = FilesOf(p)
  BY <1>2, Claims, Kept DEF FilesOf
<1>4. /\ k \in DOMAIN job[p].files /\ job[p].op = "publish" /\ n \in FilesOf(p) /\ n \in Files /\ v \in Versions
      /\ k \in 1..Len(job[p].files) /\ Len(job[p].files) \in Nat \ {0} /\ v # 0 /\ k \in Nat
  BY <1>2, <1>3, JobFacts
<1>5. ProgressOf(p, k)
  BY <1>2, <1>3, <1>4 DEF Progress, Owns
<1> HIDE DEF n, v
\* What the lemma has to show, and what it has.
<1>6. /\ Copied(p, k) => arch[Pkg(n)] = Only(n, v)
      /\ Staged(p, k) => stage[n] \in {0, v}
      /\ pc[p] \in InDatabase => arch[Db][n] = v
      /\ Signed(p, k) => arch[Sig(n)] = Only(n, v)
      /\ PutOf(p, Pkg(n)) /\ PutOf(p, Sig(n))
      /\ Sent(p, 2 * k) => mirror[Pkg(n)] = arch[Pkg(n)]
      /\ Sent(p, 2 * k + 1) => mirror[Sig(n)] = arch[Sig(n)]
  BY <1>3, <1>5 DEF ProgressOf
<1> SUFFICES /\ Copied(p, k)' => arch'[Pkg(n)] = Only(n, v)
             /\ Staged(p, k)' => stage'[n] \in {0, v}
             /\ pc'[p] \in InDatabase => arch'[Db][n] = v
             /\ Signed(p, k)' => arch'[Sig(n)] = Only(n, v)
             /\ pc'[p] = "put" /\ put'[p].key = Pkg(n) =>
                   put'[p].body = arch'[Pkg(n)] /\ (put'[p].res = "ok" => mirror'[Pkg(n)] = arch'[Pkg(n)])
             /\ pc'[p] = "put" /\ put'[p].key = Sig(n) =>
                   put'[p].body = arch'[Sig(n)] /\ (put'[p].res = "ok" => mirror'[Sig(n)] = arch'[Sig(n)])
             /\ Sent(p, 2 * k)' => mirror'[Pkg(n)] = arch'[Pkg(n)]
             /\ Sent(p, 2 * k + 1)' => mirror'[Sig(n)] = arch'[Sig(n)]
  BY DEF ProgressOf, PutOf, n, v, Pkg, Sig, Only
<1>7. /\ pc \in [Procs -> Labels] /\ job \in [Procs -> Job] /\ put \in [Procs -> Put]
      /\ arch \in [Path -> Content] /\ stage \in [Files -> Versions] /\ mirror \in [Path -> Content]
      /\ Db \in Path /\ DbSig \in Path /\ FilesDb \in Path /\ Pkg(n) \in Path /\ Sig(n) \in Path
      /\ Pkg(n) \notin {Db, DbSig, FilesDb} /\ Sig(n) \notin {Db, DbSig, FilesDb}
      /\ Pkg(n) # Sig(n) /\ Db # DbSig /\ Db # FilesDb
  BY <1>4, Paths DEF TypeOK, TypeS3, Content
<1>8. LoopsOf(p)
  BY DEF Loops
<1>9. i \in Nat
  BY <1>7 DEF Job
<1>10. ASSUME pc[p] \in {"copy", "stage", "sign_pkg"}
       PROVE  /\ File(p) \in Files /\ (File(p) # n => Pkg(File(p)) # Pkg(n) /\ Sig(File(p)) # Sig(n))
              /\ Pkg(File(p)) \in Path \ {Db, DbSig, FilesDb, Sig(n)} /\ Sig(File(p)) \in Path \ {Db, DbSig, FilesDb, Pkg(n)}
              /\ (k = i => File(p) = n) /\ i \in 1..Len(job[p].files)
  <2>1. i \in DOMAIN job[p].files /\ i \in 1..Len(job[p].files)
    BY <1>8, <1>10, <1>3, JobFacts DEF LoopsOf
  <2>2. File(p) \in Files
    BY <2>1, <1>3, JobFacts DEF File
  <2> QED
    BY <2>1, <2>2, <1>3, <1>4, Paths DEF File
<1>11. CASE publish_copy(p)
  <2>1. PICK l \in {"copy", "stage_open"}, ii \in 1..Len(job[p].files) :
            /\ pc' = [pc EXCEPT ![p] = l] /\ job' = [job EXCEPT ![p].i = ii]
            /\ \/ l = "stage_open" /\ ii = 1 /\ i = Len(job[p].files)
               \/ l = "copy" /\ ii = i + 1 /\ i # Len(job[p].files)
    BY <1>3, <1>11, <1>10, Advances DEF publish_copy
  <2>2. pc'[p] = l /\ job'[p].i = ii /\ pc[p] = "copy"
    BY <2>1, <1>7, <1>11 DEF publish_copy, Job
  <2>3. arch' = [arch EXCEPT ![Pkg(File(p))] = Only(File(p), v)] /\ UNCHANGED stage
    BY <1>3, <1>11 DEF publish_copy
  <2>4. CASE Copied(p, k)'
    <3>1. k < i \/ k = i
      BY <2>1, <2>2, <2>4, <1>4, <1>9 DEF Copied
    <3>2. File(p) # n => Copied(p, k)
      BY <3>1, <2>2, <1>10 DEF Copied
    <3> QED
      BY <3>2, <2>2, <2>1, <2>3, <1>6, <1>7, <1>10 DEF Staged, Signed, Sent
  <2>5. CASE ~Copied(p, k)'
    BY <2>5, <2>1, <2>2 DEF Copied, Staged, Signed, Sent
  <2> QED
    BY <2>4, <2>5
<1>12. CASE add_create_stage(p)
  <2>1. pc[p] = "stage_open" /\ pc'[p] = "stage" /\ UNCHANGED <<arch, stage, job>>
    BY <1>12, <1>7 DEF add_create_stage, Goto
  <2>2. i = 1
    BY <2>1, <1>8 DEF LoopsOf
  <2>3. ~Staged(p, k)'
    BY <2>1, <2>2, <1>4 DEF Staged
  <2> QED
    BY <2>1, <2>3, <1>6 DEF Copied, Signed, Sent
<1>13. ASSUME NEW res, End(p, res) PROVE FALSE
  BY <1>13, <1>2, <1>7 DEF End, Active
<1>14. CASE add_stage(p)
  <2>0. Advance(p, "stage", "spawn") /\ pc[p] = "stage"
    BY <1>13, <1>14 DEF add_stage, Fail
  <2>1. PICK l \in {"stage", "spawn"}, ii \in 1..Len(job[p].files) :
            /\ pc' = [pc EXCEPT ![p] = l] /\ job' = [job EXCEPT ![p].i = ii]
            /\ \/ l = "spawn" /\ ii = 1 /\ i = Len(job[p].files)
               \/ l = "stage" /\ ii = i + 1 /\ i # Len(job[p].files)
    BY <2>0, <1>3, <1>10, Advances
  <2>2. pc'[p] = l /\ job'[p].i = ii
    BY <2>1, <1>7 DEF Job
  <2>3. stage' = [stage EXCEPT ![File(p)] = arch[Pkg(File(p))][File(p)]] /\ UNCHANGED arch
    BY <1>13, <1>14 DEF add_stage, Fail
  <2>4. arch[Pkg(n)] = Only(n, v) /\ Only(n, v)[n] = v
    BY <2>0, <1>6, <1>4, Contents DEF Copied
  <2>5. Staged(p, k)' => stage'[n] \in {0, v}
    <3> SUFFICES ASSUME Staged(p, k)' PROVE stage'[n] \in {0, v}
      OBVIOUS
    <3>1. k < i \/ k = i
      BY <2>1, <2>2, <1>4, <1>9 DEF Staged
    <3>2. CASE File(p) = n
      BY <3>2, <2>3, <2>4, <1>4, <1>7
    <3>3. CASE File(p) # n
      <4>1. stage[n] \in {0, v}
        BY <3>1, <3>3, <2>0, <1>10, <1>6 DEF Staged
      <4> QED
        BY <4>1, <3>3, <2>3, <1>4, <1>7
    <3> QED
      BY <3>2, <3>3
  <2> QED
    BY <2>1, <2>2, <2>3, <2>4, <2>5 DEF Signed, Sent
<1>15. CASE run_repo_op_spawn(p)
  <2>1. /\ pc[p] = "spawn" /\ pc'[p] = "container" /\ UNCHANGED stage
        /\ arch' = [arch EXCEPT ![DbSig] = Absent]
    BY <1>13, <1>15, <1>7 DEF run_repo_op_spawn, Fail, Goto
  <2> QED
    BY <2>1, <1>6, <1>7 DEF Copied, Staged, Signed, Sent
<1>16. CASE run_repo_op_error(p) \/ orphan_end(p) \/ sign_error(p) \/ publish_return(p)
  BY <1>13, <1>16 DEF run_repo_op_error, orphan_end, sign_error, publish_return, Fail, Published
<1>17. CASE run_repo_op_exit(p)
  <2>1. /\ pc[p] = "container" /\ pc'[p] = "sign_db" /\ Doable(p)
        /\ arch' = [arch EXCEPT ![Db] = NewDb(p), ![FilesDb] = NewDb(p)]
    BY <1>13, <1>17, <1>7 DEF run_repo_op_exit, container_end, Fail, Goto
  <2>2. stage[n] = v
    BY <2>1, <1>4, <1>6 DEF Doable, Staged
  <2>3. NewDb(p)[n] = v
    BY <2>2, <1>4 DEF NewDb
  <2>4. arch'[Db] = NewDb(p) /\ arch'[Pkg(n)] = arch[Pkg(n)]
    BY <2>1, <1>7
  <2> QED
    BY <2>1, <2>3, <2>4, <1>6 DEF Copied, Staged, Signed, Sent
<1>18. CASE sign_db_read(p) \/ sign_db_write(p)
  <2>1. /\ \/ pc[p] = "sign_db" /\ pc'[p] = "gpg_db"
           \/ pc[p] = "gpg_db" /\ pc'[p] = "sign_pkg" /\ job'[p].i = i
        /\ \E c : arch' = [arch EXCEPT ![DbSig] = c]
    <3>1. CASE sign_db_read(p)
      BY <3>1, <1>7 DEF sign_db_read, Goto
    <3>2. CASE sign_db_write(p)
      <4>1. pc[p] = "gpg_db" /\ Goto(p, "sign_pkg") /\ job' = [job EXCEPT ![p].body = Absent]
        BY <3>2, <1>13 DEF sign_db_write
      <4> QED
        BY <4>1, <3>2, <1>7 DEF sign_db_write, Goto, Job
    <3> QED
      BY <3>1, <3>2, <1>18
  <2>2. pc[p] = "gpg_db" => i = 1
    BY <1>8 DEF LoopsOf
  <2>3. ~Signed(p, k)'
    BY <2>1, <2>2, <1>4 DEF Signed
  <2> QED
    BY <2>1, <2>3, <1>6, <1>7 DEF Copied, Staged, Sent
<1>19. CASE sign_pkg(p)
  <2>1. PICK l \in {"sign_pkg", "unstage"}, ii \in 1..Len(job[p].files) :
            /\ pc' = [pc EXCEPT ![p] = l] /\ job' = [job EXCEPT ![p].i = ii]
            /\ \/ l = "unstage" /\ ii = 1 /\ i = Len(job[p].files)
               \/ l = "sign_pkg" /\ ii = i + 1 /\ i # Len(job[p].files)
    BY <1>3, <1>19, <1>10, Advances DEF sign_pkg
  <2>2. pc'[p] = l /\ job'[p].i = ii /\ pc[p] = "sign_pkg"
    BY <2>1, <1>7, <1>19 DEF sign_pkg, Job
  <2>3. arch' = [arch EXCEPT ![Sig(File(p))] = arch[Pkg(File(p))]]
    BY <1>19 DEF sign_pkg
  <2>4. arch[Pkg(n)] = Only(n, v) /\ arch[Db][n] = v
    BY <2>2, <1>6 DEF Copied
  <2>5. Signed(p, k)' => arch'[Sig(n)] = Only(n, v)
    <3> SUFFICES ASSUME Signed(p, k)' PROVE arch'[Sig(n)] = Only(n, v)
      OBVIOUS
    <3>1. k < i \/ k = i
      BY <2>1, <2>2, <1>4, <1>9 DEF Signed
    <3>2. CASE File(p) = n
      BY <3>2, <2>3, <2>4, <1>7
    <3>3. CASE File(p) # n
      <4>1. arch[Sig(n)] = Only(n, v)
        BY <3>1, <3>3, <2>2, <1>10, <1>6 DEF Signed
      <4> QED
        BY <4>1, <3>3, <2>2, <2>3, <1>10, <1>7
    <3> QED
      BY <3>2, <3>3
  <2>6. arch'[Pkg(n)] = arch[Pkg(n)] /\ arch'[Db] = arch[Db]
    BY <2>2, <2>3, <1>7, <1>10
  <2> QED
    BY <2>1, <2>2, <2>4, <2>5, <2>6 DEF Staged, Sent
<1>20. CASE publish_unstage(p)
  <2>1. pc[p] = "unstage" /\ pc'[p] = "upload" /\ UNCHANGED <<arch, job>>
    BY <1>13, <1>20, <1>7 DEF publish_unstage, Published, Goto
  <2>2. i = 1
    BY <2>1, <1>8 DEF LoopsOf
  <2>3. ~(2 * k < 1) /\ ~(2 * k + 1 < 1)
    BY <1>4
  <2>4. ~Sent(p, 2 * k)' /\ ~Sent(p, 2 * k + 1)'
    BY <2>1, <2>2, <2>3 DEF Sent
  <2> QED
    BY <2>1, <2>4, <1>6 DEF Copied, Staged, Signed
<1>21. CASE upload_path(p)
  <2> DEFINE key == Uploads(job[p].files)[i]
  <2>1. pc[p] = "upload" /\ pc'[p] = "put" /\ UNCHANGED <<arch, job, mirror>>
    BY <1>21, <1>7 DEF upload_path, Goto, repo_vars
  <2>2. put'[p].key = key /\ put'[p].body = arch[key] /\ put'[p].res = "busy"
    BY <1>21, <1>7 DEF upload_path, UploadKey, Request
  <2> HIDE DEF key
  <2>3. Sent(p, 2 * k)' = Sent(p, 2 * k) /\ Sent(p, 2 * k + 1)' = Sent(p, 2 * k + 1)
    BY <2>1 DEF Sent
  <2> QED
    BY <2>1, <2>2, <2>3, <1>6 DEF Copied, Staged, Signed
<1>22. CASE upload_answer(p)
  <2>1. pc[p] = "put" /\ UNCHANGED <<arch, pc, job>>
    BY <1>22 DEF upload_answer, repo_vars, op_vars
  <2>2. /\ put'[p].key = put[p].key /\ put'[p].body = put[p].body
        /\ \/ mirror' = mirror /\ put'[p].res \in {"busy", "err"}
           \/ mirror' = [mirror EXCEPT ![put[p].key] = put[p].body]
    BY <1>22, Answered DEF upload_answer
  <2>3. put[p].key \in Path
    BY <1>7 DEF Put
  <2>4. Sent(p, 2 * k)' = Sent(p, 2 * k) /\ Sent(p, 2 * k + 1)' = Sent(p, 2 * k + 1)
    BY <2>1 DEF Sent
  <2>5. /\ put[p].key = Pkg(n) => put[p].body = arch[Pkg(n)]
        /\ put[p].key = Sig(n) => put[p].body = arch[Sig(n)]
    BY <2>1, <1>6 DEF PutOf
  <2> QED
    BY <2>1, <2>2, <2>3, <2>4, <2>5, <1>6, <1>7 DEF Copied, Staged, Signed
<1>23. CASE upload_done(p)
  <2> DEFINE ii == i + 1
             a == job[p].acked /\ put[p].res = "ok"
  <2>1. /\ pc[p] = "put" /\ UNCHANGED <<arch, mirror>> /\ i \in 1..N /\ put[p].key = Uploads(job[p].files)[i]
    BY <1>23, <1>8 DEF upload_done, repo_vars, LoopsOf
  <2>2. /\ Len(Uploads(job[p].files)) = N
        /\ Uploads(job[p].files)[2 * k] = Pkg(n) /\ Uploads(job[p].files)[2 * k + 1] = Sig(n)
    BY <1>3, <1>4, JobFacts, UploadKeys
  <2>3. pc'[p] = (IF i = N THEN "return" ELSE "upload")
    BY <2>2, <1>23, <1>7 DEF upload_done, Goto
  <2>4. job' = [job EXCEPT ![p].acked = a, ![p].i = ii]
    BY <1>23 DEF upload_done
  <2>5. job'[p].acked = a /\ job'[p].i = ii
    <3> HIDE DEF a, ii
    <3> QED
      BY <2>4, <1>7 DEF Job
  <2>6. /\ 2 * k < N /\ 2 * k + 1 < N /\ 2 * k \in Nat
        /\ \A j \in Nat : j < ii => j < i \/ j = i
        /\ i = N => \A j \in Nat : j < N => j < i
    BY <1>4, <1>9
  <2>7. ASSUME NEW j \in Nat, j < N, Sent(p, j)' PROVE a /\ (j < i \/ j = i)
    <3> HIDE DEF a, ii, N
    <3> QED
      BY <2>3, <2>5, <2>6, <2>7 DEF Sent
  <2>8. Sent(p, 2 * k)' => mirror[Pkg(n)] = arch[Pkg(n)]
    <3> SUFFICES ASSUME Sent(p, 2 * k)' PROVE mirror[Pkg(n)] = arch[Pkg(n)]
      OBVIOUS
    <3>1. a /\ (2 * k < i \/ 2 * k = i)
      BY <2>6, <2>7
    <3>2. CASE 2 * k < i
      BY <3>1, <3>2, <2>1, <1>6 DEF Sent
    <3>3. CASE 2 * k = i
      BY <3>1, <3>3, <2>1, <2>2, <1>6 DEF PutOf
    <3> QED
      BY <3>1, <3>2, <3>3
  <2>9. Sent(p, 2 * k + 1)' => mirror[Sig(n)] = arch[Sig(n)]
    <3> SUFFICES ASSUME Sent(p, 2 * k + 1)' PROVE mirror[Sig(n)] = arch[Sig(n)]
      OBVIOUS
    <3>1. a /\ (2 * k + 1 < i \/ 2 * k + 1 = i)
      BY <2>6, <2>7
    <3>2. CASE 2 * k + 1 < i
      BY <3>1, <3>2, <2>1, <1>6 DEF Sent
    <3>3. CASE 2 * k + 1 = i
      BY <3>1, <3>3, <2>1, <2>2, <1>6 DEF PutOf
    <3> QED
      BY <3>1, <3>2, <3>3
  <2>10. pc'[p] \in {"return", "upload"}
    BY <2>3
  <2> QED
    BY <2>1, <2>8, <2>9, <2>10, <1>6 DEF Copied, Staged, Signed
\* An owner has signed what it uploads: only what is not its own is passed over.
<1>25. CASE upload_skip(p)
  <2> DEFINE ii == i + 1
  <2>1. pc[p] = "upload" /\ UNCHANGED <<pc, arch, put, mirror>> /\ job' = [job EXCEPT ![p].i = ii]
    BY <1>25 DEF upload_skip, AtFile, repo_vars, s3_vars
  <2>2. job'[p].acked = job[p].acked /\ job'[p].i = ii
    <3> HIDE DEF ii
    <3> QED
      BY <2>1, <1>7 DEF Job
  <2>3. i # 2 * k /\ i # 2 * k + 1
    <3>1. arch[Sig(n)] = Only(n, v) /\ Only(n, v) # Absent
      BY <2>1, <1>4, <1>6 DEF Signed, Only, Absent
    <3> QED
      BY <3>1, <1>25, <1>3, <1>4, Skips
  <2>4. \A j \in Nat : j < ii => j < i \/ i = j
    BY <1>9
  <2>5. Sent(p, 2 * k)' => Sent(p, 2 * k)
    <3>1. 2 * k \in Nat
      BY <1>4
    <3> QED
      BY <2>1, <2>2, <2>3, <2>4, <3>1 DEF Sent
  <2>6. Sent(p, 2 * k + 1)' => Sent(p, 2 * k + 1)
    <3>1. 2 * k + 1 \in Nat
      BY <1>4
    <3> QED
      BY <2>1, <2>2, <2>3, <2>4, <3>1 DEF Sent
  <2> QED
    BY <2>1, <2>5, <2>6, <1>6 DEF Copied, Staged, Signed
<1>24. CASE abandon(p)
  <2>1. pc'[p] = "orphan"
    BY <1>13, <1>24, <1>7 DEF abandon, Goto
  <2> QED
    BY <2>1 DEF Copied, Staged, Signed, Sent
<1> QED
  BY <1>11, <1>12, <1>14, <1>15, <1>16, <1>17, <1>18, <1>19, <1>20, <1>21, <1>22, <1>23, <1>24, <1>25 DEF Move, Step

------------------------------------------------------------------------------
(* The database and its signature *)

\* An operation on its own knows what it has made of the database, and what it
\* leaves is unsigned, or signed as it is.
LEMMA SoloOwn ==
    ASSUME TypeOK, Loops, NEW p \in Procs, Move(p), ~Begin(p), SoloOf(p)
    PROVE  /\ Active(p)' => SoloOf(p)'
           /\ \/ arch'[DbSig] = arch[DbSig] /\ arch'[Db] = arch[Db]
              \/ arch'[DbSig] = Absent
              \/ arch'[DbSig] = arch'[Db]
           /\ (~Active(p)' /\ last' = "ok") => arch'[DbSig] = arch'[Db]
<1> USE DEF Uploading, Finishing
<1>1. /\ pc \in [Procs -> Labels] /\ job \in [Procs -> Job] /\ put \in [Procs -> Put]
      /\ arch \in [Path -> Content] /\ mirror \in [Path -> Content]
      /\ Db \in Path /\ DbSig \in Path /\ FilesDb \in Path
      /\ Db # DbSig /\ Db # FilesDb /\ DbSig # FilesDb
  BY PathIn DEF TypeOK, TypeS3, Db, DbSig, FilesDb
<1>2. LoopsOf(p)
  BY DEF Loops
<1>3. Active(p)
  BY Claims
<1>4. Alone(p)'
  BY Frame DEF SoloOf, Alone, Active
<1>5. /\ pc[p] \in {"container", "sign_db", "gpg_db", "orphan"} => arch[DbSig] = Absent
      /\ (pc[p] = "gpg_db" \/ (pc[p] = "orphan" /\ db_lock # p)) => job[p].body = arch[Db]
      /\ pc[p] \in Finishing \cup {"sign_pkg"} => arch[DbSig] = arch[Db]
      /\ (pc[p] = "put" /\ put[p].key = Db) =>
            put[p].body = arch[Db] /\ (put[p].res = "ok" => mirror[Db] = arch[Db])
      /\ Sent(p, 1) => mirror[Db] = arch[Db]
  BY DEF SoloOf, PutOf
<1>6. SUFFICES /\ Active(p)' =>
                     /\ pc'[p] \in {"container", "sign_db", "gpg_db", "orphan"} => arch'[DbSig] = Absent
                     /\ (pc'[p] = "gpg_db" \/ (pc'[p] = "orphan" /\ db_lock' # p)) => job'[p].body = arch'[Db]
                     /\ pc'[p] \in Finishing \cup {"sign_pkg"} => arch'[DbSig] = arch'[Db]
                     /\ (pc'[p] = "put" /\ put'[p].key = Db) =>
                           put'[p].body = arch'[Db] /\ (put'[p].res = "ok" => mirror'[Db] = arch'[Db])
                     /\ Sent(p, 1)' => mirror'[Db] = arch'[Db]
               /\ \/ arch'[DbSig] = arch[DbSig] /\ arch'[Db] = arch[Db]
                  \/ arch'[DbSig] = Absent
                  \/ arch'[DbSig] = arch'[Db]
               /\ (~Active(p)' /\ last' = "ok") => arch'[DbSig] = arch'[Db]
  BY <1>4 DEF SoloOf, PutOf, Db, DbSig, Absent
<1>7. ASSUME NEW res, End(p, res) PROVE ~Active(p)' /\ last' = res
  BY <1>7, <1>1 DEF End, Active
<1>8. ASSUME NEW l \in Labels \ {"idle"}, pc'[p] = l PROVE Active(p)'
  BY <1>8 DEF Active
<1>9. ASSUME pc[p] \in {"copy", "stage", "sign_pkg"}
      PROVE  /\ Pkg(File(p)) \in Path \ {Db, DbSig} /\ Sig(File(p)) \in Path \ {Db, DbSig}
             /\ job[p].i \in 1..Len(job[p].files)
  <2>1. job[p].i \in 1..Len(job[p].files)
    BY <1>2, <1>9 DEF LoopsOf
  <2>2. File(p) \in Files
    BY <2>1, <1>3, JobFacts DEF File
  <2> QED
    BY <2>1, <2>2, Paths
<1>10. CASE publish_copy(p) \/ add_create_stage(p)
  <2>1. pc'[p] \in {"copy", "stage_open", "stage"}
    BY <1>1, <1>10 DEF publish_copy, add_create_stage, Advance, Goto
  <2>2. arch'[Db] = arch[Db] /\ arch'[DbSig] = arch[DbSig]
    BY <1>1, <1>9, <1>10 DEF publish_copy, add_create_stage
  <2> QED
    BY <2>1, <2>2 DEF Sent, Active
<1>11. CASE add_stage(p)
  <2>1. End(p, "err") \/ pc'[p] \in {"stage", "spawn"}
    BY <1>1, <1>11 DEF add_stage, Advance, Goto, Fail
  <2>2. UNCHANGED arch
    BY <1>11 DEF add_stage
  <2> QED
    BY <2>1, <2>2, <1>7 DEF Sent, Active
<1>12. CASE run_repo_op_spawn(p)
  <2>1. End(p, "err") \/ (pc'[p] = "container" /\ db_lock' = p)
    BY <1>1, <1>12 DEF run_repo_op_spawn, Goto, Fail
  <2>2. arch'[DbSig] = Absent
    BY <1>1, <1>12 DEF run_repo_op_spawn
  <2> QED
    BY <2>1, <2>2, <1>7 DEF Sent, Active
<1>13. CASE run_repo_op_error(p) \/ sign_error(p)
  <2>1. End(p, "err") /\ arch'[DbSig] = arch[DbSig] /\ arch'[Db] = arch[Db]
    BY <1>1, <1>9, <1>13 DEF run_repo_op_error, sign_error, Fail
  <2> QED
    BY <2>1, <1>7
<1>14. CASE run_repo_op_exit(p)
  <2>1. /\ pc[p] = "container" /\ (End(p, "err") \/ pc'[p] = "sign_db")
        /\ arch'[DbSig] = arch[DbSig]
    BY <1>1, <1>14 DEF run_repo_op_exit, container_end, Goto, Fail
  <2>2. arch'[DbSig] = Absent
    BY <2>1, <1>5
  <2> QED
    BY <2>1, <2>2, <1>7 DEF Sent, Active
<1>15. CASE orphan_end(p)
  <2>1. End(p, "err") /\ pc[p] = "orphan"
    BY <1>15 DEF orphan_end, Fail
  <2>2. CASE db_lock = p
    <3>1. arch'[DbSig] = arch[DbSig]
      BY <1>1, <1>15, <2>2 DEF orphan_end, container_end
    <3> QED
      BY <3>1, <2>1, <1>5, <1>7
  <2>3. CASE db_lock # p
    <3>1. arch'[DbSig] = job[p].body /\ arch'[Db] = arch[Db]
      BY <1>1, <1>15, <2>3 DEF orphan_end
    <3> QED
      BY <3>1, <2>1, <2>3, <1>5, <1>7
  <2> QED
    BY <2>2, <2>3
<1>16. CASE sign_db_read(p)
  <2>1. pc'[p] = "gpg_db" /\ arch'[DbSig] = Absent /\ arch'[Db] = arch[Db]
    BY <1>1, <1>16 DEF sign_db_read, Goto
  <2>2. job'[p].body = arch[Db]
    BY <1>1, <1>16 DEF sign_db_read, Job
  <2> QED
    BY <2>1, <2>2 DEF Sent, Active
<1>17. CASE sign_db_write(p)
  <2>1. pc[p] = "gpg_db" /\ arch'[DbSig] = job[p].body /\ arch'[Db] = arch[Db]
    BY <1>1, <1>17 DEF sign_db_write
  <2>2. arch'[DbSig] = arch'[Db]
    BY <2>1, <1>5
  <2>3. End(p, "ok") \/ pc'[p] = "sign_pkg"
    BY <1>1, <1>17 DEF sign_db_write, Goto
  <2> QED
    BY <2>2, <2>3, <1>7 DEF Sent, Active
<1>18. CASE sign_pkg(p)
  <2>1. pc[p] = "sign_pkg" /\ pc'[p] \in {"sign_pkg", "unstage"}
    BY <1>1, <1>18 DEF sign_pkg, Advance, Goto
  <2>2. arch'[DbSig] = arch[DbSig] /\ arch'[Db] = arch[Db]
    BY <1>1, <1>9, <1>18 DEF sign_pkg
  <2> QED
    BY <2>1, <2>2, <1>5 DEF Sent, Active
<1>19. CASE publish_unstage(p)
  <2>1. /\ pc[p] = "unstage" /\ UNCHANGED arch
        /\ End(p, "ok") \/ (pc'[p] = "upload" /\ UNCHANGED job)
    BY <1>1, <1>19 DEF publish_unstage, Published, Goto
  <2>2. pc'[p] = "upload" /\ UNCHANGED job => ~Sent(p, 1)'
    BY <2>1, <1>2 DEF LoopsOf, AtFirst, Sent
  <2> QED
    BY <2>1, <2>2, <1>5, <1>7 DEF Active
<1>20. CASE upload_path(p)
  <2> DEFINE key == Uploads(job[p].files)[job[p].i]
  <2>1. pc[p] = "upload" /\ pc'[p] = "put" /\ UNCHANGED <<arch, job, mirror>>
    BY <1>20, <1>1 DEF upload_path, Goto, repo_vars
  <2>2. put'[p].key = key /\ put'[p].body = arch[key] /\ put'[p].res = "busy"
    BY <1>20, <1>1 DEF upload_path, UploadKey, Request
  <2> HIDE DEF key
  <2>3. Sent(p, 1)' = Sent(p, 1)
    BY <2>1 DEF Sent
  <2> QED
    BY <2>1, <2>2, <2>3, <1>5 DEF Active
<1>21. CASE upload_answer(p)
  <2>1. pc[p] = "put" /\ UNCHANGED <<arch, pc, job>>
    BY <1>21 DEF upload_answer, repo_vars, op_vars
  <2>2. /\ put'[p].key = put[p].key /\ put'[p].body = put[p].body
        /\ \/ mirror' = mirror /\ put'[p].res \in {"busy", "err"}
           \/ mirror' = [mirror EXCEPT ![put[p].key] = put[p].body]
    BY <1>21, Answered DEF upload_answer
  <2>3. put[p].key \in Path
    BY <1>1 DEF Put
  <2>4. Sent(p, 1)' = Sent(p, 1)
    BY <2>1 DEF Sent
  <2> QED
    BY <2>1, <2>2, <2>3, <2>4, <1>1, <1>5 DEF Active
<1>22. CASE upload_done(p)
  <2> DEFINE i == job[p].i
             ii == i + 1
             a == job[p].acked /\ put[p].res = "ok"
  <2>1. pc[p] = "put" /\ UNCHANGED <<arch, mirror>> /\ put[p].key = Uploads(job[p].files)[i]
    BY <1>22, <1>2 DEF upload_done, repo_vars, LoopsOf
  <2>2. Uploads(job[p].files)[1] = Db /\ Len(Uploads(job[p].files)) # 1
    BY <1>3, JobFacts, UploadKeys
  <2>3. pc'[p] = (IF i = Len(Uploads(job[p].files)) THEN "return" ELSE "upload")
    BY <1>22, <1>1 DEF upload_done, Goto
  <2>4. job' = [job EXCEPT ![p].acked = a, ![p].i = ii]
    BY <1>22 DEF upload_done
  <2>5. job'[p].acked = a
    <3> HIDE DEF a, ii
    <3> QED
      BY <2>4, <1>1 DEF Job
  <2>6. i \in 1..(2 * Len(job[p].files) + 2)
    BY <2>1, <1>2 DEF LoopsOf
  <2>7. i = 1 \/ 1 < i
    BY <2>6
  <2>8. Sent(p, 1)' => mirror[Db] = arch[Db]
    <3>1. CASE i = 1
      BY <3>1, <2>1, <2>2, <2>5, <1>5 DEF Sent
    <3>2. CASE 1 < i
      BY <3>2, <2>1, <2>5, <1>5 DEF Sent
    <3> QED
      BY <3>1, <3>2, <2>7
  <2>9. pc'[p] \in {"return", "upload"}
    BY <2>3
  <2> QED
    BY <2>1, <2>8, <2>9, <1>5 DEF Active
<1>25. CASE upload_skip(p)
  <2> DEFINE ii == job[p].i + 1
  <2>1. pc[p] = "upload" /\ UNCHANGED <<pc, arch, put, mirror>> /\ job' = [job EXCEPT ![p].i = ii]
    BY <1>25 DEF upload_skip, AtFile, repo_vars, s3_vars
  <2>2. job'[p].acked = job[p].acked
    <3> HIDE DEF ii
    <3> QED
      BY <2>1, <1>1 DEF Job
  <2>3. 1 < job[p].i
    <3>1. job[p].i \in 1..(2 * Len(job[p].files) + 2) /\ job[p].i # 1
      BY <2>1, <1>2, <1>25, Skips DEF LoopsOf
    <3> QED
      BY <3>1
  <2>4. Sent(p, 1)' => mirror[Db] = arch[Db]
    BY <2>1, <2>2, <2>3, <1>5 DEF Sent
  <2> QED
    BY <2>1, <2>4, <1>5 DEF Active
<1>23. CASE publish_return(p)
  <2>1. pc[p] = "return" /\ End(p, "ok") /\ UNCHANGED arch
    BY <1>23 DEF publish_return, Published, repo_vars
  <2> QED
    BY <2>1, <1>5, <1>7
<1>24. CASE abandon(p)
  <2>1. UNCHANGED <<arch, db_lock>>
    BY <1>24 DEF abandon, repo_vars
  <2>2. \/ End(p, "err")
        \/ pc[p] \in {"container", "gpg_db"} /\ pc'[p] = "orphan" /\ UNCHANGED job
    BY <1>24, <1>1 DEF abandon, Goto
  <2>3. pc[p] = "container" => db_lock = p
    BY <1>2 DEF LoopsOf
  <2> QED
    BY <2>1, <2>2, <2>3, <1>5, <1>7 DEF Sent, Active
<1> QED
  BY <1>10, <1>11, <1>12, <1>13, <1>14, <1>15, <1>16, <1>17, <1>18, <1>19, <1>20, <1>21, <1>22, <1>23,
     <1>24, <1>25 DEF Move, Step

\* What a step does to the rest of the history.
LEMMA Histories ==
    ASSUME TypeOK, NEW p \in Procs, Move(p), ~Begin(p)
    PROVE  /\ \/ UNCHANGED <<good, mirrored, listed>>
              \/ Published(p) /\ ~Active(p)'
           /\ settled' = settled \/ (settled' = (settled \/ p \in alone) /\ ~Active(p)' /\ last' = "ok")
           /\ last' = last \/ ~Active(p)'
<1>1. ASSUME NEW res, End(p, res) PROVE ~Active(p)' /\ last' = res
  BY <1>1 DEF End, Active, TypeOK
<1>2. CASE publish_copy(p) \/ add_create_stage(p) \/ add_stage(p)
  BY <1>1, <1>2 DEF publish_copy, add_create_stage, add_stage, Fail, hist_vars
<1>3. CASE run_repo_op_spawn(p) \/ run_repo_op_error(p) \/ run_repo_op_exit(p) \/ orphan_end(p)
  BY <1>1, <1>3 DEF run_repo_op_spawn, run_repo_op_error, run_repo_op_exit, orphan_end, Fail, hist_vars
<1>4. CASE sign_db_read(p) \/ sign_error(p) \/ sign_pkg(p)
  BY <1>1, <1>4 DEF sign_db_read, sign_error, sign_pkg, Fail, hist_vars
<1>5. CASE sign_db_write(p)
  BY <1>1, <1>5 DEF sign_db_write
<1>6. CASE publish_unstage(p) \/ publish_return(p)
  BY <1>1, <1>6 DEF publish_unstage, publish_return, Published, hist_vars
<1>7. CASE upload_skip(p) \/ upload_path(p) \/ upload_answer(p) \/ upload_done(p)
  BY <1>7 DEF upload_skip, upload_path, upload_answer, upload_done, hist_vars
<1>8. CASE abandon(p)
  BY <1>1, <1>8 DEF abandon, hist_vars
<1> QED
  BY <1>2, <1>3, <1>4, <1>5, <1>6, <1>7, <1>8 DEF Move, Step

\* An operation that begins alone is alone; one that begins beside others is not,
\* and neither are they any more.
LEMMA SoloStep ==
    ASSUME TypeOK, Loops, Solo, NEW p \in Procs, Move(p)
    PROVE  Solo'
<1>1. CASE Begin(p)
  <2>1. alone' = (IF Alone(p) THEN {p} ELSE {})
    BY <1>1 DEF Begin
  <2>2. Alone(p) => Alone(p)'
    BY Frame DEF Alone, Active
  <2>3. pc'[p] \in {"copy", "spawn"}
    BY <1>1, Beginning
  <2>4. Alone(p) => SoloOf(p)'
    BY <2>2, <2>3 DEF SoloOf, PutOf, Sent, Finishing, Uploading
  <2> QED
    BY <2>1, <2>4 DEF Solo
<1>2. CASE ~Begin(p)
  <2>1. Active(p) /\ alone' = alone
    BY <1>2, Claims
  <2> SUFFICES ASSUME NEW q \in alone, Active(q)' PROVE SoloOf(q)'
    BY <2>1 DEF Solo
  <2>2. q \in Procs
    BY DEF TypeOK
  <2>3. q = p
    <3> SUFFICES ASSUME q # p PROVE FALSE
      OBVIOUS
    <3>1. Active(q)
      BY <2>2, Frame DEF Active
    <3> QED
      BY <3>1, <2>1 DEF Solo, SoloOf, Alone
  <2> QED
    BY <2>1, <2>3, <1>2, SoloOwn DEF Solo
<1> QED
  BY <1>1, <1>2

LEMMA QuietStep ==
    ASSUME TypeOK, Loops, Solo, Quiet, NEW p \in Procs, Move(p)
    PROVE  Quiet'
<1>0. \A q \in Procs \ {p} : Active(q)' = Active(q)
  BY Frame DEF Active
<1>1. CASE Begin(p)
  <2>1. /\ alone' = (IF Alone(p) THEN {p} ELSE {}) /\ listed' = (IF Alone(p) THEN listed ELSE {})
        /\ settled' = (settled /\ Alone(p))
    BY <1>1 DEF Begin
  <2>2. Alone(p) => \A q \in Procs : Active(q)' => q \in alone'
    BY <2>1, <1>0 DEF Alone
  <2> QED
    BY <2>1, <2>2 DEF Quiet
<1>2. CASE ~Begin(p)
  <2>1. Active(p) /\ alone' = alone
    BY <1>2, Claims
  <2>2. CASE settled \/ listed # {}
    BY <2>1, <2>2, <1>0 DEF Quiet
  <2>3. CASE p \in alone /\ ~Active(p)'
    <3>1. Alone(p)
      BY <2>1, <2>3 DEF Solo, SoloOf
    <3> QED
      BY <3>1, <2>3, <1>0 DEF Alone, Quiet
  <2>4. \/ ~settled' /\ listed' = {}
        \/ settled \/ listed # {}
        \/ p \in alone /\ ~Active(p)'
    BY <1>2, Histories DEF Published
  <2> QED
    BY <2>2, <2>3, <2>4 DEF Quiet
<1> QED
  BY <1>1, <1>2

LEMMA SignedStep ==
    ASSUME TypeOK, Loops, Solo, Quiet, SignedDatabase, NEW p \in Procs, Move(p)
    PROVE  SignedDatabase'
<1> SUFFICES ASSUME settled'
             PROVE  /\ arch'[DbSig] \in {Absent, arch'[Db]}
                    /\ (last' = "ok" /\ \A q \in Procs : ~Active(q)') => arch'[DbSig] = arch'[Db]
  BY DEF SignedDatabase, DbSig, Db, Absent
<1>1. CASE Begin(p)
  <2>1. settled /\ UNCHANGED arch
    BY <1>1 DEF Begin, repo_vars
  <2> QED
    BY <2>1, <1>1, Beginning DEF SignedDatabase
<1>2. CASE ~Begin(p)
  <2>1. Active(p)
    BY <1>2, Claims
  <2>2. SoloOf(p)
    BY <2>1, <1>2, Histories DEF Quiet, Solo
  <2>3. /\ \/ arch'[DbSig] = arch[DbSig] /\ arch'[Db] = arch[Db]
           \/ arch'[DbSig] = Absent
           \/ arch'[DbSig] = arch'[Db]
        /\ (~Active(p)' /\ last' = "ok") => arch'[DbSig] = arch'[Db]
    BY <2>2, <1>2, SoloOwn
  <2>4. CASE settled
    BY <2>3, <2>4 DEF SignedDatabase
  <2>5. CASE ~settled
    <3>1. ~Active(p)' /\ last' = "ok"
      BY <2>5, <1>2, Histories
    <3> QED
      BY <3>1, <2>3, <1>2
  <2> QED
    BY <2>4, <2>5
<1> QED
  BY <1>1, <1>2

------------------------------------------------------------------------------
(* What was published, and what was mirrored *)

\* A publish that returns Ok has done everything for the names it owns.
LEMMA PublishedOwned ==
    ASSUME TypeOK, Loops, Owners, Progress, NEW p \in Procs, Published(p), pc[p] \in {"unstage", "return"},
           Active(p), NEW n \in FilesOf(p), claim[n] = job[p].ver
    PROVE  /\ n \in Files
           /\ arch[Pkg(n)] = Only(n, claim[n]) /\ arch[Sig(n)] = Only(n, claim[n]) /\ arch[Db][n] = claim[n]
           /\ (pc[p] = "return" /\ job[p].acked) => mirror[Pkg(n)] = arch[Pkg(n)] /\ mirror[Sig(n)] = arch[Sig(n)]
<1>1. PICK k \in DOMAIN job[p].files : n = job[p].files[k]
  BY DEF FilesOf
<1>2. job[p].op = "publish"
  BY DEF Loops, LoopsOf, Publishing
<1>3. ProgressOf(p, k)
  BY <1>1, <1>2 DEF Progress, Owns
<1>4. n \in Files
  BY JobFacts
<1> QED
  BY <1>1, <1>3, <1>4 DEF ProgressOf, Copied, Signed, Sent, AfterCopy, InDatabase, Finishing

\* A name that was published stays as it is until it is in an operation again.
LEMMA GoodKept ==
    ASSUME TypeOK, Loops, Owners, NEW p \in Procs, Move(p), NEW n \in good, n \in good'
    PROVE  /\ n \in Files /\ ~(Active(p) /\ n \in FilesOf(p)) /\ claim'[n] = claim[n]
<1>1. n \in Files /\ ~(Active(p) /\ n \in FilesOf(p))
  BY DEF TypeOK, Owners
<1>2. CASE Begin(p)
  BY <1>1, <1>2, Beginning
<1>3. CASE ~Begin(p)
  BY <1>1, <1>3, Claims
<1> QED
  BY <1>1, <1>2, <1>3

\* A name that is published now is in the operation that ends.
LEMMA GoodNew ==
    ASSUME TypeOK, Loops, Owners, NEW p \in Procs, Move(p), NEW n \in good', n \notin good
    PROVE  /\ ~Begin(p) /\ Active(p) /\ Published(p) /\ pc[p] \in {"unstage", "return"}
           /\ n \in FilesOf(p) /\ claim[n] = job[p].ver
           /\ UNCHANGED <<arch, s3_vars, claim>> /\ (HasS3 => pc[p] = "return")
<1>1. ~Begin(p)
  BY Beginning
<1>2. /\ Active(p) /\ claim' = claim
      /\ Published(p) /\ (pc[p] = "return" \/ (pc[p] = "unstage" /\ ~HasS3))
      /\ UNCHANGED <<arch, s3_vars>>
  BY <1>1, Claims
<1>3. n \in FilesOf(p) /\ claim[n] = job[p].ver
  BY <1>2 DEF Published
<1> QED
  BY <1>1, <1>2, <1>3

LEMMA InstallStep ==
    ASSUME TypeOK, Loops, Owners, Progress, PublishedInstallable, NEW p \in Procs, Move(p)
    PROVE  PublishedInstallable'
<1> SUFFICES ASSUME NEW n \in good'
             PROVE  /\ arch'[Pkg(n)] = Only(n, claim'[n]) /\ arch'[Sig(n)] = Only(n, claim'[n])
                    /\ arch'[Db][n] = claim'[n]
  BY DEF PublishedInstallable, Pkg, Sig, Db, Only, Absent
<1>1. CASE n \in good
  <2>1. n \in Files /\ ~(Active(p) /\ n \in FilesOf(p)) /\ claim'[n] = claim[n]
    BY <1>1, GoodKept
  <2>2. arch'[Pkg(n)] = arch[Pkg(n)] /\ arch'[Sig(n)] = arch[Sig(n)] /\ arch'[Db][n] = arch[Db][n]
    BY <2>1, Foreign
  <2> QED
    BY <1>1, <2>1, <2>2 DEF PublishedInstallable
<1>2. CASE n \notin good
  <2>1. /\ Active(p) /\ Published(p) /\ pc[p] \in {"unstage", "return"}
        /\ n \in FilesOf(p) /\ claim[n] = job[p].ver /\ UNCHANGED <<arch, claim>>
    BY <1>2, GoodNew
  <2> QED
    BY <2>1, PublishedOwned
<1> QED
  BY <1>1, <1>2

\* An upload changes the mirror's database to what is served when nobody else is there.
LEMMA MirrorDb ==
    ASSUME TypeOK, Loops, Solo, Quiet, listed # {}, NEW p \in Procs, Move(p)
    PROVE  mirror'[Db] \in {mirror[Db], arch[Db]}
<1>1. CASE upload_answer(p) \/ abandon(p)
  <2>1. \/ UNCHANGED mirror
        \/ pc[p] = "put" /\ mirror' = [mirror EXCEPT ![put[p].key] = put[p].body]
    BY <1>1 DEF upload_answer, abandon, PutAnswer, put_success, put_transient, put_permanent, put_network, Stored, s3_vars
  <2>2. pc[p] = "put" => SoloOf(p)
    BY DEF Quiet, Solo, Active
  <2>3. pc[p] = "put" /\ put[p].key = Db => put[p].body = arch[Db]
    BY <2>2 DEF SoloOf, PutOf
  <2> QED
    BY <2>1, <2>3, PathIn DEF TypeOK, TypeS3
<1>2. CASE Begin(p) \/ publish_copy(p) \/ add_create_stage(p) \/ add_stage(p)
  BY <1>2 DEF Begin, publish_copy, add_create_stage, add_stage, Fail, s3_vars
<1>3. CASE run_repo_op_spawn(p) \/ run_repo_op_error(p) \/ run_repo_op_exit(p) \/ orphan_end(p)
  BY <1>3 DEF run_repo_op_spawn, run_repo_op_error, run_repo_op_exit, orphan_end, Fail, s3_vars
<1>4. CASE sign_db_read(p) \/ sign_db_write(p) \/ sign_error(p) \/ sign_pkg(p)
  BY <1>4 DEF sign_db_read, sign_db_write, sign_error, sign_pkg, Fail, s3_vars
<1>5. CASE publish_unstage(p) \/ publish_return(p) \/ upload_skip(p) \/ upload_path(p) \/ upload_done(p)
  BY <1>5 DEF publish_unstage, publish_return, upload_skip, upload_path, upload_done, s3_vars
<1> QED
  BY <1>1, <1>2, <1>3, <1>4, <1>5 DEF Move, Step

LEMMA MirrorStep ==
    ASSUME TypeOK, Loops, Owners, Progress, Solo, Quiet, PublishedInstallable, MirrorServes,
           NEW p \in Procs, Move(p)
    PROVE  MirrorServes'
<1> SUFFICES ASSUME NEW n \in mirrored', n \in good'
             PROVE  /\ mirror'[Pkg(n)] = arch'[Pkg(n)] /\ mirror'[Sig(n)] = arch'[Sig(n)]
                    /\ n \in listed' => mirror'[Db][n] = claim'[n]
  BY DEF MirrorServes, Pkg, Sig, Db
<1>1. CASE n \in good
  <2>1. n \in Files /\ ~(Active(p) /\ n \in FilesOf(p)) /\ claim'[n] = claim[n]
    BY <1>1, GoodKept
  <2>2. /\ arch'[Pkg(n)] = arch[Pkg(n)] /\ arch'[Sig(n)] = arch[Sig(n)]
        /\ mirror'[Pkg(n)] = mirror[Pkg(n)] /\ mirror'[Sig(n)] = mirror[Sig(n)]
    BY <2>1, Foreign
  <2>3. n \in mirrored /\ (n \in listed' => n \in listed)
    <3>1. CASE Begin(p)
      BY <3>1 DEF Begin
    <3>2. CASE ~Begin(p)
      BY <3>2, <2>1, Claims, Histories DEF Published
    <3> QED
      BY <3>1, <3>2
  <2>4. n \in listed => mirror'[Db][n] = claim[n]
    <3>1. n \in listed => mirror'[Db] \in {mirror[Db], arch[Db]}
      BY MirrorDb
    <3> QED
      BY <3>1, <2>3, <1>1 DEF MirrorServes, PublishedInstallable
  <2> QED
    BY <1>1, <2>1, <2>2, <2>3, <2>4 DEF MirrorServes
<1>2. CASE n \notin good
  <2>1. /\ Active(p) /\ Published(p) /\ pc[p] \in {"unstage", "return"}
        /\ n \in FilesOf(p) /\ claim[n] = job[p].ver
        /\ UNCHANGED <<arch, mirror, claim>> /\ (HasS3 => pc[p] = "return")
    BY <1>2, GoodNew DEF s3_vars
  <2>2. /\ HasS3 /\ job[p].acked /\ (n \in listed' => p \in alone)
    BY <2>1 DEF Published
  <2>3. /\ mirror[Pkg(n)] = arch[Pkg(n)] /\ mirror[Sig(n)] = arch[Sig(n)] /\ arch[Db][n] = claim[n]
    BY <2>1, <2>2, PublishedOwned
  <2>4. n \in listed' => mirror[Db] = arch[Db]
    BY <2>1, <2>2 DEF Solo, SoloOf, Sent
  <2> QED
    BY <2>1, <2>3, <2>4
<1> QED
  BY <1>1, <1>2

LEMMA ProgressStep ==
    ASSUME TypeOK, Loops, Owners, Progress, NEW p \in Procs, Move(p)
    PROVE  Progress'
<1> SUFFICES ASSUME NEW q \in Procs, job'[q].op = "publish", NEW k \in DOMAIN job'[q].files,
                    Owns(q, job[q].files[k])'
             PROVE  ProgressOf(q, k)'
  BY DEF Progress
<1> QED
  BY ProgressOthers, ProgressOwn

------------------------------------------------------------------------------
(* The invariant *)

LEMMA InitRInv == Init => RInv
<1> SUFFICES ASSUME Init PROVE RInv
  OBVIOUS
<1>1. /\ pc = [p \in Procs |-> "idle"] /\ job = [p \in Procs |-> NoJob] /\ ops = 1 /\ put = [p \in Procs |-> NoPut]
      /\ db_lock = NoProc /\ alone = {} /\ last = "ok"
  BY DEF Init
<1>2. /\ Stocked \in Content /\ Absent \in Content
      /\ \A n \in Files : Stocked[n] \in Versions /\ Only(n, Stocked[n]) \in Content
  <2>1. Stocked \in Content /\ Absent \in Content
    BY S3ClientAssumption, RepoAssumption DEF Stocked, Absent, Content, Versions
  <2> QED
    BY <2>1, Contents DEF Content
<1>3. /\ Served \in [Path -> Content] /\ Served[Db] = Stocked /\ Served[DbSig] = Stocked
      /\ \A n \in Files : Served[Pkg(n)] = Only(n, Stocked[n]) /\ Served[Sig(n)] = Only(n, Stocked[n])
  <2>1. \A f \in Path : f \in {Db, DbSig, FilesDb} \/ \E n \in Files : f \in {Pkg(n), Sig(n)} /\ f[2] = n
    BY DEF Path, Pkg, Sig
  <2>2. \A f \in Path : Served[f] = IF f \in {Db, DbSig, FilesDb} THEN Stocked ELSE Only(f[2], Stocked[f[2]])
    BY DEF Served
  <2>3. DOMAIN Served = Path
    BY DEF Served
  <2>4. \A n \in Files : /\ Pkg(n) \in Path /\ Sig(n) \in Path /\ Pkg(n)[2] = n /\ Sig(n)[2] = n
                         /\ Pkg(n) \notin {Db, DbSig, FilesDb} /\ Sig(n) \notin {Db, DbSig, FilesDb}
    BY DEF Path, Pkg, Sig, Db, DbSig, FilesDb
  <2>5. \A f \in Path : Served[f] \in Content
    BY <2>1, <2>2, <1>2
  <2>6. Served \in [Path -> Content]
    BY <2>5 DEF Served
  <2> QED
    BY <2>2, <2>4, <2>6, PathIn
<1>4. NoJob \in Job /\ NoPut \in Put
  <2>1. <<>> \in Seq(Files) /\ 0 \in Versions /\ 0 \in Nat
    BY S3ClientAssumption DEF Versions
  <2> QED
    BY <2>1, <1>2, PathIn, S3ClientAssumption DEF NoJob, Job, NoPut, Put
<1>5. /\ mirror \in [Path -> Content] /\ mirrored \subseteq Stock /\ listed = mirrored
      /\ \A n \in mirrored : /\ mirror[Db] = Stocked
                             /\ \A f \in {Pkg(n), Sig(n)} : f \in Path /\ f # DbSig => mirror[f] = Served[f]
  BY <1>2, <1>3, PathIn DEF Init, Db, DbSig
<1>6. TypeOK
  <2>1. TypeS3
    BY <1>1, <1>4, <1>5 DEF TypeS3
  <2>2. /\ arch \in [Path -> Content] /\ stage \in Content /\ stage_dir \in BOOLEAN
        /\ db_lock \in Procs \cup {NoProc}
    BY <1>1, <1>2, <1>3 DEF Init
  <2>3. pc \in [Procs -> Labels] /\ job \in [Procs -> Job]
    BY <1>1, <1>4 DEF Labels
  <2>4. ops \in 0..MaxOps
    BY <1>1, S3ClientAssumption
  <2>5. /\ claim \in Content /\ good \subseteq Files /\ mirrored \subseteq Files /\ listed \subseteq mirrored
        /\ alone \subseteq Procs /\ settled \in BOOLEAN /\ last \in {"ok", "err"}
    BY <1>1, <1>2, RepoAssumption DEF Init
  <2> QED
    BY <2>1, <2>2, <2>3, <2>4, <2>5 DEF TypeOK
<1>7. Loops /\ Owners /\ Solo /\ Quiet
  BY <1>1, RepoAssumption DEF Loops, LoopsOf, Owners, Solo, Quiet, Active, Publishing, Uploading, AtFirst
<1>8. Progress
  BY <1>1 DEF Progress, NoJob
<1>9. \A n \in good : n \in Files /\ claim[n] = Stocked[n] /\ arch = Served
  BY RepoAssumption DEF Init
<1>10. PublishedInstallable /\ SignedDatabase
  BY <1>3, <1>9 DEF Init, PublishedInstallable, SignedDatabase
<1>11. MirrorServes
  <2> SUFFICES ASSUME NEW n \in mirrored, n \in good
               PROVE  mirror[Pkg(n)] = arch[Pkg(n)] /\ mirror[Sig(n)] = arch[Sig(n)] /\ mirror[Db][n] = claim[n]
    BY DEF MirrorServes
  <2>1. n \in Files /\ claim[n] = Stocked[n] /\ arch = Served
    BY <1>9
  <2>2. Pkg(n) \in Path /\ Sig(n) \in Path /\ Pkg(n) # DbSig /\ Sig(n) # DbSig
    BY <2>1, Paths
  <2> QED
    BY <2>1, <2>2, <1>5
<1> QED
  BY <1>6, <1>7, <1>8, <1>10, <1>11 DEF RInv

LEMMA NextRInv == RInv /\ [Next]_vars => RInv'
<1> SUFFICES ASSUME RInv, [Next]_vars PROVE RInv'
  OBVIOUS
<1>1. CASE Next
  <2>1. PICK p \in Procs : Move(p)
    BY <1>1 DEF Next, Move
  <2> QED
    BY <2>1, Typing, LoopsStep, OwnersStep, ProgressStep, SoloStep, QuietStep, SignedStep, InstallStep,
       MirrorStep DEF RInv
<1>2. CASE UNCHANGED vars
  <2>1. TypeOK' /\ Loops' /\ Owners'
    BY <1>2 DEF RInv, vars, repo_vars, op_vars, s3_vars, hist_vars, TypeOK, TypeS3, Loops, LoopsOf, Owners,
       Active, FilesOf
  <2>2. Progress'
    BY <1>2 DEF RInv, vars, repo_vars, op_vars, s3_vars, Progress, ProgressOf, Owns, Active, FilesOf,
       Copied, Staged, Signed, Sent, PutOf, hist_vars
  <2>3. Solo' /\ Quiet'
    BY <1>2 DEF RInv, vars, repo_vars, op_vars, s3_vars, hist_vars, Solo, SoloOf, Quiet, Alone, Active, Sent, PutOf
  <2>4. PublishedInstallable' /\ SignedDatabase' /\ MirrorServes'
    BY <1>2 DEF RInv, vars, repo_vars, op_vars, s3_vars, hist_vars, PublishedInstallable, SignedDatabase,
       MirrorServes, Active
  <2> QED
    BY <2>1, <2>2, <2>3, <2>4 DEF RInv
<1> QED
  BY <1>1, <1>2

LEMMA AlwaysRInv == Spec => []RInv
  BY InitRInv, NextRInv, PTL DEF Spec

\* Every file, database and record of the operations is of its kind, for any
\* callers, files and faults (publish_with and remove_with, lib.rs:194-347).
THEOREM TypeCorrect == Spec => []TypeOK
<1>1. RInv => TypeOK
  BY DEF RInv
<1> QED
  BY <1>1, AlwaysRInv, PTL

\* A package whose publish returned Ok installs until the next operation on it,
\* however many publishers share the stage and the database, whichever of their
\* containers fail and whoever dies where (publish_with, lib.rs:194-303).
THEOREM PublishesInstall == Spec => []PublishedInstallable
<1>1. RInv => PublishedInstallable
  BY DEF RInv
<1> QED
  BY <1>1, AlwaysRInv, PTL

\* While operations come one at a time the database is never served with the
\* signature of another, and one that succeeded leaves it signed
\* (lib.rs:225-230, build.sh:216-219).
THEOREM DatabaseSigned == Spec => []SignedDatabase
<1>1. RInv => SignedDatabase
  BY DEF RInv
<1> QED
  BY <1>1, AlwaysRInv, PTL

\* What a fully acknowledged publish mirrored is what is served, whatever the
\* store answered to the uploads of the others and however often they were
\* retried (S3Client::put, and the upload loop of publish_with).
THEOREM MirrorIsServed == Spec => []MirrorServes
<1>1. RInv => MirrorServes
  BY DEF RInv
<1> QED
  BY <1>1, AlwaysRInv, PTL

------------------------------------------------------------------------------
(* Those who install see a Repository *)

\* What else an owner knows: where its container outlives it, the copy is still
\* its own, and where it removes, the entry is gone before it is signed for.
EffectsOf(p) ==
    /\ ~Active(p) => job[p] = NoJob
    /\ \A n \in FilesOf(p) : Owns(p, n) =>
          /\ (pc[p] = "orphan" /\ job[p].op = "publish") => arch[Pkg(n)] = Only(n, job[p].ver)
          /\ (pc[p] \in {"sign_db", "gpg_db"} /\ job[p].op = "remove") => arch[Db][n] = 0

Effects == \A p \in Procs : EffectsOf(p)

\* What an operation that owns a name is spared: the others leave the name alone.
LEMMA OwnedAlone ==
    ASSUME TypeOK, Loops, Owners, NEW p \in Procs, Move(p), NEW q \in Procs, q # p,
           NEW n \in FilesOf(q), Active(q), claim'[n] = job[q].ver
    PROVE  n \in Files /\ ~(Active(p) /\ n \in FilesOf(p)) /\ claim[n] = job[q].ver
<1>1. n \in Files /\ job[q].ver \in 1..ops /\ ops \in Nat
  BY JobFacts
<1>2. CASE Begin(p)
  <2>1. n \notin FilesOf(p)'
    <3>1. n \in FilesOf(p)' => claim'[n] = 0
      BY <1>2, Beginning
    <3> QED
      BY <3>1, <1>1
  <2> QED
    BY <2>1, <1>1, <1>2, Beginning
<1>3. CASE ~Begin(p)
  <2>1. Active(p) /\ claim[n] = job[q].ver
    BY <1>3, Claims
  <2>2. n \in FilesOf(p) => claim[n] \in {0, job[p].ver} /\ job[p].ver # job[q].ver
    BY <2>1 DEF Owners
  <2> QED
    BY <2>1, <2>2, <1>1
<1> QED
  BY <1>2, <1>3

LEMMA EffectsOthers ==
    ASSUME TypeOK, Loops, Owners, NEW p \in Procs, Move(p), NEW q \in Procs, q # p, EffectsOf(q)
    PROVE  EffectsOf(q)'
<1>1. pc'[q] = pc[q] /\ job'[q] = job[q]
  BY Frame
<1>2. Active(q)' = Active(q) /\ FilesOf(q)' = FilesOf(q)
  BY <1>1 DEF Active, FilesOf
<1>3. ASSUME NEW n \in FilesOf(q), Active(q), claim'[n] = job[q].ver
      PROVE  claim[n] = job[q].ver /\ arch'[Pkg(n)] = arch[Pkg(n)] /\ arch'[Db][n] = arch[Db][n]
  BY <1>3, OwnedAlone, Foreign
<1>4. ASSUME NEW n \in FilesOf(q), Active(q), claim'[n] = job[q].ver
      PROVE  /\ (pc[q] = "orphan" /\ job[q].op = "publish") => arch'[Pkg(n)] = Only(n, job[q].ver)
             /\ (pc[q] \in {"sign_db", "gpg_db"} /\ job[q].op = "remove") => arch'[Db][n] = 0
  BY <1>3, <1>4 DEF EffectsOf, Owns
<1>5. ~Active(q) => job[q] = NoJob
  BY DEF EffectsOf
<1> QED
  BY <1>1, <1>2, <1>4, <1>5 DEF EffectsOf, Owns, Pkg, Db, Only, Absent, NoJob

\* Where a caller can be after a step.
LEMMA Whither ==
    ASSUME TypeOK, Loops, NEW p \in Procs, Move(p), ~Begin(p)
    PROVE  /\ pc'[p] = "orphan" => UNCHANGED arch /\ pc[p] \in {"container", "gpg_db"}
           /\ pc'[p] = "gpg_db" => pc[p] \in {"sign_db", "gpg_db"} /\ arch'[Db] = arch[Db]
           /\ pc'[p] = "sign_db" => /\ pc[p] = "container"
                                    /\ arch' = [arch EXCEPT ![Db] = NewDb(p), ![FilesDb] = NewDb(p)]
           /\ Active(p)' => UNCHANGED last
           /\ ~Active(p)' => /\ job'[p] = NoJob
                             /\ \/ last' = "err"
                                \/ /\ last' = "ok" /\ UNCHANGED arch /\ pc[p] \in {"unstage", "return"}
                                   /\ Published(p)
                                \/ /\ last' = "ok" /\ pc[p] = "gpg_db" /\ job[p].op = "remove"
                                   /\ arch' = [arch EXCEPT ![DbSig] = job[p].body]
<1>0. pc \in [Procs -> Labels] /\ job \in [Procs -> Job] /\ arch \in [Path -> Content]
      /\ Db # DbSig /\ DbSig \in Path /\ Db \in Path
  BY PathIn DEF TypeOK, Db, DbSig
<1>1. ASSUME NEW res, End(p, res)
      PROVE  pc'[p] = "idle" /\ ~Active(p)' /\ job'[p] = NoJob /\ last' = res
  BY <1>0, <1>1 DEF End, Active
<1>2. ASSUME NEW here, NEW next, Advance(p, here, next)
      PROVE  pc'[p] \in {here, next}
  BY <1>0, <1>2 DEF Advance, Goto
<1>3. ASSUME NEW l, Goto(p, l)
      PROVE  pc'[p] = l
  BY <1>0, <1>3 DEF Goto
<1>4. CASE publish_copy(p) \/ add_create_stage(p) \/ sign_pkg(p)
  BY <1>2, <1>3, <1>4 DEF publish_copy, add_create_stage, sign_pkg, hist_vars, Active
<1>5. CASE add_stage(p)
  BY <1>1, <1>2, <1>5 DEF add_stage, hist_vars, Active, Fail
<1>6. CASE run_repo_op_spawn(p) \/ run_repo_op_error(p)
  BY <1>1, <1>3, <1>6 DEF run_repo_op_spawn, run_repo_op_error, hist_vars, Active, Fail
<1>7. CASE run_repo_op_exit(p)
  BY <1>1, <1>3, <1>7 DEF run_repo_op_exit, container_end, hist_vars, Active, Fail
<1>8. CASE orphan_end(p) \/ sign_error(p)
  BY <1>1, <1>8 DEF orphan_end, sign_error, Fail
<1>9. CASE sign_db_read(p)
  BY <1>3, <1>9, <1>0 DEF sign_db_read, hist_vars, Active
<1>10. CASE sign_db_write(p)
  BY <1>1, <1>3, <1>10 DEF sign_db_write, Active
<1>11. CASE publish_unstage(p) \/ publish_return(p)
  BY <1>1, <1>3, <1>11 DEF publish_unstage, publish_return, Published, hist_vars, repo_vars, Active
<1>12. CASE upload_skip(p) \/ upload_path(p) \/ upload_done(p)
  BY <1>3, <1>12 DEF upload_skip, upload_path, upload_done, hist_vars, Active
<1>13. CASE upload_answer(p)
  BY <1>13 DEF upload_answer, hist_vars, op_vars, Active
<1>14. CASE abandon(p)
  BY <1>1, <1>3, <1>14 DEF abandon, hist_vars, repo_vars, Active
<1> QED
  BY <1>4, <1>5, <1>6, <1>7, <1>8, <1>9, <1>10, <1>11, <1>12, <1>13, <1>14 DEF Move, Step

LEMMA EffectsOwn ==
    ASSUME TypeOK, Loops, Owners, Progress, NEW p \in Procs, Move(p), EffectsOf(p)
    PROVE  EffectsOf(p)'
<1>1. CASE Begin(p)
  <2>1. Active(p)' /\ pc'[p] \in {"copy", "spawn"}
    BY <1>1, Beginning
  <2> QED
    BY <2>1 DEF EffectsOf
<1>2. CASE ~Begin(p) /\ ~Active(p)'
  BY <1>2, Whither DEF EffectsOf, Owns, NoJob, Absent
<1>3. CASE ~Begin(p) /\ Active(p)'
  <2>1. /\ Active(p) /\ claim' = claim /\ job'[p].ver = job[p].ver /\ job'[p].files = job[p].files
        /\ job'[p].op = job[p].op /\ FilesOf(p)' = FilesOf(p)
    BY <1>3, Claims, Kept DEF FilesOf
  <2> SUFFICES ASSUME NEW n \in FilesOf(p), claim[n] = job[p].ver
               PROVE  /\ (pc'[p] = "orphan" /\ job[p].op = "publish") => arch'[Pkg(n)] = Only(n, job[p].ver)
                      /\ (pc'[p] \in {"sign_db", "gpg_db"} /\ job[p].op = "remove") => arch'[Db][n] = 0
    BY <1>3, <2>1 DEF EffectsOf, Owns, Pkg, Db, Only, Absent
  <2>2. PICK k \in DOMAIN job[p].files : n = job[p].files[k]
    BY DEF FilesOf
  <2>3. n \in Files /\ Owns(p, n)
    BY <2>1, JobFacts DEF Owns
  <2>4. (pc[p] \in {"container", "gpg_db"} /\ job[p].op = "publish") => arch[Pkg(n)] = Only(n, job[p].ver)
    BY <2>2, <2>3 DEF Progress, ProgressOf, Copied, AfterCopy, InDatabase
  <2>5. (pc'[p] = "sign_db" /\ job[p].op = "remove") => arch'[Db][n] = 0
    <3> SUFFICES ASSUME pc'[p] = "sign_db", job[p].op = "remove" PROVE arch'[Db][n] = 0
      OBVIOUS
    <3>1. arch' = [arch EXCEPT ![Db] = NewDb(p), ![FilesDb] = NewDb(p)]
      BY <1>3, Whither
    <3>2. arch \in [Path -> Content] /\ Db \in Path /\ Db # FilesDb
      BY PathIn DEF TypeOK, Db, FilesDb
    <3>3. NewDb(p)[n] = 0
      BY <2>3 DEF NewDb
    <3> QED
      BY <3>1, <3>2, <3>3
  <2>6. (pc'[p] = "gpg_db" /\ job[p].op = "remove") => arch'[Db][n] = 0
    BY <1>3, <2>3, Whither DEF EffectsOf
  <2>7. pc'[p] = "orphan" => UNCHANGED arch /\ pc[p] \in {"container", "gpg_db"}
    BY <1>3, Whither
  <2> QED
    BY <2>4, <2>5, <2>6, <2>7
<1> QED
  BY <1>1, <1>2, <1>3

\* What is offered after a step, without the primed definitions.
LEMMA Offering ==
    ASSUME NEW n \in Files
    PROVE  Offer(n)' = IF arch'[Pkg(n)] = Only(n, arch'[Db][n]) /\ arch'[Sig(n)] = Only(n, arch'[Db][n])
                         THEN arch'[Db][n] ELSE 0
  BY DEF Offer, Pkg, Sig, Db, Only, Absent

LEMMA OfferKept ==
    ASSUME NEW n \in Files, arch'[Pkg(n)] = arch[Pkg(n)], arch'[Sig(n)] = arch[Sig(n)],
           arch'[Db][n] = arch[Db][n]
    PROVE  Offer(n)' = Offer(n)
  BY Offering DEF Offer

\* A package file of one version can only be offered at that version.
LEMMA OfferOfFile ==
    ASSUME TypeOK', NEW n \in Files, NEW v \in Versions, arch'[Pkg(n)] = Only(n, v)
    PROVE  Offer(n)' \in {0, v}
<1> DEFINE w == arch'[Db][n]
<1>1. w \in Versions
  BY PathIn DEF TypeOK, Content, Db, Path, DbSig, FilesDb, Pkg, Sig
<1>2. Only(n, w)[n] = w /\ Only(n, v)[n] = v
  BY <1>1, Contents
<1>3. Offer(n)' # 0 => Only(n, w) = Only(n, v) /\ Offer(n)' = w
  BY Offering
<1> QED
  BY <1>2, <1>3

LEMMA OfferIn ==
    ASSUME TypeOK, NEW n \in Files
    PROVE  Offer(n) \in Versions
<1>1. arch[Db] \in Content /\ 0 \in Versions
  BY PathIn, S3ClientAssumption DEF TypeOK, Versions
<1> QED
  BY <1>1 DEF Offer, Content

\* A step may change what is offered for a name of its operation, a removal by
\* taking it away, and the owner of the name by putting its version in place.
LEMMA OfferStep ==
    ASSUME TypeOK, TypeOK', Loops, Progress, Effects, NEW p \in Procs, Move(p), ~Begin(p),
           NEW n \in FilesOf(p)
    PROVE  \/ Offer(n)' = Offer(n)
           \/ job[p].op = "remove" /\ Offer(n)' = 0
           \/ job[p].op = "publish" /\ (claim[n] = job[p].ver => Offer(n)' \in {0, job[p].ver})
<1>0. Active(p)
  BY Claims
<1>1. n \in Files /\ job[p].ver \in Versions /\ job[p].op \in {"publish", "remove"}
  BY <1>0, JobFacts
<1>2. /\ arch \in [Path -> Content]
      /\ Db \in Path /\ Pkg(n) \in Path /\ Sig(n) \in Path
      /\ Pkg(n) \notin {Db, DbSig, FilesDb} /\ Sig(n) \notin {Db, DbSig, FilesDb} /\ Db # DbSig /\ Db # FilesDb
      /\ Pkg(n) # Sig(n)
  BY <1>1, Paths DEF TypeOK
<1>3. PICK k \in DOMAIN job[p].files : n = job[p].files[k]
  BY DEF FilesOf
<1>4. ASSUME job[p].op = "publish", claim[n] = job[p].ver,
             pc[p] \in {"container", "sign_pkg", "gpg_db", "orphan"}
      PROVE  arch[Pkg(n)] = Only(n, job[p].ver)
  <2>1. Owns(p, n)
    BY <1>0, <1>4 DEF Owns
  <2>2. CASE pc[p] = "orphan"
    BY <2>1, <2>2, <1>4 DEF Effects, EffectsOf
  <2>3. CASE pc[p] # "orphan"
    BY <2>1, <2>3, <1>3, <1>4 DEF Progress, ProgressOf, Copied, AfterCopy, InDatabase
  <2> QED
    BY <2>2, <2>3
<1>5. ASSUME arch'[Pkg(n)] = arch[Pkg(n)], arch'[Sig(n)] = arch[Sig(n)], arch'[Db][n] = arch[Db][n]
      PROVE  Offer(n)' = Offer(n)
  BY <1>1, <1>5, OfferKept
<1>6. ASSUME job[p].op = "publish", claim[n] = job[p].ver, arch'[Pkg(n)] = Only(n, job[p].ver)
      PROVE  Offer(n)' \in {0, job[p].ver}
  BY <1>1, <1>6, OfferOfFile
<1>7. ASSUME pc[p] \in {"copy", "sign_pkg"}
      PROVE  /\ File(p) \in Files /\ job[p].op = "publish"
             /\ Pkg(File(p)) \notin {Db, Sig(n)} /\ Sig(File(p)) \notin {Db, Pkg(n)}
             /\ File(p) # n => Pkg(File(p)) # Pkg(n)
  <2>1. job[p].i \in 1..Len(job[p].files) /\ job[p].op = "publish"
    BY <1>7 DEF Loops, LoopsOf, Publishing
  <2>2. File(p) \in Files
    BY <2>1, <1>0, JobFacts DEF File
  <2> QED
    BY <2>1, <2>2, <1>1, Paths
<1>8. CASE UNCHANGED arch \/ \E c : arch' = [arch EXCEPT ![DbSig] = c]
  BY <1>8, <1>5, <1>2
<1>9. CASE publish_copy(p)
  <2>1. pc[p] = "copy" /\ arch' = [arch EXCEPT ![Pkg(File(p))] = Only(File(p), job[p].ver)]
    BY <1>9 DEF publish_copy
  <2>2. CASE File(p) = n
    BY <2>1, <2>2, <1>2, <1>6, <1>7
  <2>3. CASE File(p) # n
    BY <2>1, <2>3, <1>2, <1>5, <1>7
  <2> QED
    BY <2>2, <2>3
<1>10. CASE sign_pkg(p) \/ sign_error(p)
  <2>1. UNCHANGED arch \/ (pc[p] = "sign_pkg" /\ \E c : arch' = [arch EXCEPT ![Sig(File(p))] = c])
    BY <1>10 DEF sign_pkg, sign_error
  <2>2. CASE pc[p] = "sign_pkg" /\ \E c : arch' = [arch EXCEPT ![Sig(File(p))] = c]
    <3>1. arch'[Pkg(n)] = arch[Pkg(n)] /\ job[p].op = "publish"
      BY <2>2, <1>2, <1>7
    <3> QED
      BY <3>1, <2>2, <1>4, <1>6
  <2> QED
    BY <2>1, <2>2, <1>8
<1>11. CASE run_repo_op_exit(p) \/ orphan_end(p)
  <2>1. /\ pc[p] \in {"container", "orphan"}
        /\ \/ UNCHANGED arch
           \/ arch' = [arch EXCEPT ![Db] = NewDb(p), ![FilesDb] = NewDb(p)]
           \/ \E c : arch' = [arch EXCEPT ![DbSig] = c]
    BY <1>11 DEF run_repo_op_exit, orphan_end, container_end
  <2>2. CASE arch' = [arch EXCEPT ![Db] = NewDb(p), ![FilesDb] = NewDb(p)]
    <3>1. arch'[Pkg(n)] = arch[Pkg(n)] /\ arch'[Db][n] = NewDb(p)[n]
      BY <2>2, <1>2
    <3>2. CASE job[p].op = "publish"
      BY <3>1, <3>2, <2>1, <1>4, <1>6
    <3>3. CASE job[p].op = "remove"
      <4>1. NewDb(p)[n] = 0
        BY <3>3, <1>1 DEF NewDb
      <4> QED
        BY <4>1, <3>1, <3>3, <1>1, Offering
    <3> QED
      BY <3>2, <3>3, <1>1
  <2> QED
    BY <2>1, <2>2, <1>8
<1>12. CASE add_create_stage(p) \/ add_stage(p) \/ run_repo_op_error(p) \/ publish_unstage(p)
  BY <1>12, <1>8 DEF add_create_stage, add_stage, run_repo_op_error, publish_unstage
<1>13. CASE run_repo_op_spawn(p) \/ sign_db_read(p) \/ sign_db_write(p)
  BY <1>13, <1>8 DEF run_repo_op_spawn, sign_db_read, sign_db_write
<1>14. CASE upload_skip(p) \/ upload_path(p) \/ upload_answer(p) \/ upload_done(p) \/ publish_return(p) \/ abandon(p)
  BY <1>14, <1>8 DEF upload_skip, upload_path, upload_answer, upload_done, publish_return, abandon, repo_vars
<1> QED
  BY <1>9, <1>10, <1>11, <1>12, <1>13, <1>14 DEF Move, Step

\* A step of an operation leaves what the others have open as it is, and its own
\* unless it ends there.
LEMMA OpenStep ==
    ASSUME TypeOK, Loops, Effects, Effects', NEW p \in Procs, Move(p), ~Begin(p)
    PROVE  /\ Active(p)' => Open' = Open
           /\ ~Active(p)' => Open' = [Open EXCEPT ![p] = Promise!Closed]
<1>1. Active(p) /\ claim' = claim /\ alone' = alone
  BY Claims
<1>2. ASSUME NEW q \in Procs \ {p} PROVE OpenOf(q)' = OpenOf(q)
  <2>1. pc'[q] = pc[q] /\ job'[q] = job[q]
    BY Frame
  <2> QED
    BY <2>1, <1>1 DEF OpenOf, FilesOf, Active
<1>3. CASE Active(p)'
  <2>1. job'[p].ver = job[p].ver /\ job'[p].files = job[p].files /\ job'[p].op = job[p].op
    BY <1>3, Kept
  <2>2. OpenOf(p)' = OpenOf(p)
    BY <2>1, <1>1, <1>3 DEF OpenOf, FilesOf
  <2> QED
    BY <1>2, <1>3, <2>2 DEF Open
<1>4. CASE ~Active(p)'
  <2>1. job'[p] = NoJob
    BY <1>4 DEF Effects, EffectsOf
  <2>2. OpenOf(p)' = Promise!Closed
    <3>1. FilesOf(p)' = {}
      BY <2>1 DEF FilesOf, NoJob
    <3>2. job'[p].op = "none" /\ job'[p].ver = 0
      BY <2>1 DEF NoJob
    <3>3. (Active(p) /\ p \in alone)' = FALSE
      BY <1>4
    <3> QED
      BY <3>1, <3>2, <3>3 DEF OpenOf, Promise!Closed
  <2> QED
    BY <1>2, <1>4, <2>2 DEF Open
<1> QED
  BY <1>3, <1>4

LEMMA Reduced ==
    ASSUME NEW x, NEW t, NEW f, DOMAIN x = {"op", "names", "ver", "sole", "alone"}
    PROVE  [x EXCEPT !.sole = t, !.alone = f]
             = [op |-> x.op, names |-> x.names, ver |-> x.ver, sole |-> t, alone |-> f]
<1>1. [x EXCEPT !.sole = t, !.alone = f]
        = [k \in {"op", "names", "ver", "sole", "alone"} |->
              IF k = "sole" THEN t ELSE IF k = "alone" THEN f ELSE x[k]]
  BY Zenon
<1> QED
  BY <1>1

\* An operation that begins takes its names from the sole hands of the others.
LEMMA OpenBegin ==
    ASSUME TypeOK, Loops, Owners, Effects, NEW p \in Procs, Begin(p)
    PROVE  \E op \in {"publish", "remove"}, ns \in SUBSET Files, v \in Versions \ {0} :
               Promise!Begin(p, op, ns, v)
<1> DEFINE op == job'[p].op
           ns == FilesOf(p)'
           v == job'[p].ver
<1>1. /\ ~Active(p) /\ Active(p)' /\ v = ops + 1 /\ ns \subseteq Files
      /\ \A n \in ns : /\ claim'[n] \in {0, ops + 1}
                       /\ \A q \in Procs : Active(q) /\ n \in FilesOf(q) => claim'[n] = 0
      /\ \A n \in Files : n \notin ns => claim'[n] = claim[n]
  BY Beginning
<1>2. PICK j \in Jobs[p] :
          /\ op = j.op /\ ns = {j.files[i] : i \in DOMAIN j.files}
          /\ claim' = [n \in Files |->
                         IF n \notin {j.files[i] : i \in DOMAIN j.files} THEN claim[n]
                         ELSE IF \E q \in Procs : Active(q) /\ n \in FilesOf(q) THEN 0 ELSE ops + 1]
  BY DEF Begin, TypeOK, NoJob, FilesOf
<1>3. op \in {"publish", "remove"}
  BY <1>2, RepoAssumption
<1>4. ops \in Nat /\ ops + 1 \in 0..MaxOps
  BY S3ClientAssumption DEF Begin, TypeOK
<1>5. v \in Versions \ {0}
  BY <1>1, <1>4 DEF Versions
<1>6. \A q \in Procs : /\ Active(q) => job[q].ver \in 1..ops /\ job[q].op \in {"publish", "remove"} /\ FilesOf(q) \subseteq Files
                       /\ ~Active(q) => job[q] = NoJob
  BY JobFacts DEF Effects, EffectsOf
<1>7. \A q \in Procs : ~Active(q) => job[q].op = "none" /\ job[q].ver = 0 /\ FilesOf(q) = {}
  BY <1>6 DEF NoJob, FilesOf
<1>8. \A q \in Procs : job[q].ver # v
  BY <1>1, <1>4, <1>6, <1>7
<1>9. \A q \in Procs : /\ Open[q].op = job[q].op /\ Open[q].ver = job[q].ver /\ Open[q].names = FilesOf(q)
                       /\ Promise!IsOpen(q) <=> Active(q)
  BY <1>6, <1>7 DEF Open, OpenOf, Promise!IsOpen
<1>10. alone' = IF Alone(p) THEN {p} ELSE {}
  BY DEF Begin
<1>11. OpenOf(p)' = [op |-> op, names |-> ns, ver |-> v,
                     sole  |-> {n \in ns : \A r \in Procs : n \notin Open[r].names},
                     alone |-> \A r \in Procs : ~Promise!IsOpen(r)]
  <2>1. {n \in ns : claim'[n] = v} = {n \in ns : \A r \in Procs : n \notin Open[r].names}
    <3>1. ASSUME NEW n \in ns
          PROVE  claim'[n] = v <=> \A r \in Procs : n \notin Open[r].names
      <4>1. claim'[n] = IF \E q \in Procs : Active(q) /\ n \in FilesOf(q) THEN 0 ELSE ops + 1
        BY <1>1, <1>2
      <4>2. (\E q \in Procs : Active(q) /\ n \in FilesOf(q)) <=> (\E q \in Procs : n \in Open[q].names)
        BY <1>7, <1>9
      <4> QED
        BY <4>1, <4>2, <1>1, <1>4
    <3> QED
      BY <3>1
  <2>2. (Active(p)' /\ p \in alone') = (\A r \in Procs : ~Promise!IsOpen(r))
    BY <1>1, <1>9, <1>10 DEF Alone
  <2> QED
    BY <2>1, <2>2 DEF OpenOf
<1>12. ASSUME NEW q \in Procs \ {p}
       PROVE  OpenOf(q)' = [Open[q] EXCEPT !.sole = @ \ ns, !.alone = FALSE]
  <2>1. pc'[q] = pc[q] /\ job'[q] = job[q]
    BY Frame DEF Move
  <2>2. FilesOf(q)' = FilesOf(q) /\ Active(q)' = Active(q)
    BY <2>1 DEF FilesOf, Active
  <2>3. {n \in FilesOf(q) : claim'[n] = job[q].ver} = {n \in FilesOf(q) : claim[n] = job[q].ver} \ ns
    <3> SUFFICES ASSUME NEW n \in FilesOf(q)
                 PROVE  claim'[n] = job[q].ver <=> claim[n] = job[q].ver /\ n \notin ns
      OBVIOUS
    <3>1. Active(q) /\ n \in Files /\ job[q].ver # 0
      BY <1>4, <1>6, <1>7
    <3> QED
      BY <3>1, <1>1
  <2>4. ~(Active(q) /\ q \in alone')
    BY <1>10 DEF Alone
  <2>5. OpenOf(q)' = [op |-> job[q].op, names |-> FilesOf(q), ver |-> job[q].ver,
                      sole |-> {n \in FilesOf(q) : claim[n] = job[q].ver} \ ns, alone |-> FALSE]
    BY <2>1, <2>2, <2>3, <2>4 DEF OpenOf
  <2>6. PICK s : s = {n \in FilesOf(q) : claim[n] = job[q].ver}
    OBVIOUS
  <2>7. PICK a \in BOOLEAN : a = (Active(q) /\ q \in alone)
    OBVIOUS
  <2>8. OpenOf(q)' = [op |-> job[q].op, names |-> FilesOf(q), ver |-> job[q].ver, sole |-> s \ ns, alone |-> FALSE]
    BY <2>5, <2>6
  <2>9. Open[q] = [op |-> job[q].op, names |-> FilesOf(q), ver |-> job[q].ver, sole |-> s, alone |-> a]
    BY <2>6, <2>7 DEF Open, OpenOf
  <2>10. DOMAIN Open[q] = {"op", "names", "ver", "sole", "alone"}
    BY <2>9
  <2>11. [Open[q] EXCEPT !.sole = Open[q].sole \ ns, !.alone = FALSE]
           = [op |-> Open[q].op, names |-> Open[q].names, ver |-> Open[q].ver,
              sole |-> Open[q].sole \ ns, alone |-> FALSE]
    BY <2>10, Reduced, Zenon
  <2>12. /\ Open[q].sole = s /\ Open[q].op = job[q].op /\ Open[q].names = FilesOf(q)
         /\ Open[q].ver = job[q].ver
    BY <2>9
  <2> QED
    BY <2>8, <2>11, <2>12
<1>13. UNCHANGED <<Offers, Seal, last>>
  BY DEF Begin, repo_vars, Offers, Offer, Seal, Pkg, Sig, Db, DbSig, Only, Absent
<1> HIDE DEF op, ns, v
<1>14. Open' = [q \in Procs |->
          IF q # p THEN [Open[q] EXCEPT !.sole = @ \ ns, !.alone = FALSE]
          ELSE [op |-> op, names |-> ns, ver |-> v,
                sole  |-> {n \in ns : \A r \in Procs : n \notin Open[r].names},
                alone |-> \A r \in Procs : ~Promise!IsOpen(r)]]
  BY <1>11, <1>12 DEF Open
<1>15. ~Promise!IsOpen(p) /\ \A q \in Procs : Open[q].ver # v
  BY <1>1, <1>8, <1>9
<1>16. Promise!Begin(p, op, ns, v)
  BY <1>13, <1>14, <1>15 DEF Promise!Begin
<1>17. ns \in SUBSET Files
  BY <1>1 DEF ns
<1> QED
  BY <1>3, <1>5, <1>16, <1>17 DEF op, v

\* The signature of the database an operation met alone is never another's, and
\* its own when the operation succeeds.
LEMMA SealStep ==
    ASSUME TypeOK, Loops, Solo, NEW p \in Procs, Move(p), ~Begin(p), p \in alone
    PROVE  /\ Seal' = "wrong" => Seal = "wrong"
           /\ (~Active(p)' /\ last' = "ok") => Seal' = "valid"
<1>1. Active(p) /\ SoloOf(p)
  BY Claims DEF Solo
<1>2. /\ \/ arch'[DbSig] = arch[DbSig] /\ arch'[Db] = arch[Db]
         \/ arch'[DbSig] = Absent
         \/ arch'[DbSig] = arch'[Db]
      /\ (~Active(p)' /\ last' = "ok") => arch'[DbSig] = arch'[Db]
  BY <1>1, SoloOwn
<1>3. Seal' = IF arch'[DbSig] = arch'[Db] THEN "valid"
              ELSE IF arch'[DbSig] = Absent THEN "none" ELSE "wrong"
  BY DEF Seal, Db, DbSig, Absent
<1> QED
  BY <1>2, <1>3 DEF Seal

\* An operation that succeeds has done what it was asked for the names it owns.
LEMMA Succeeded ==
    ASSUME TypeOK, Loops, Owners, Progress, Effects, NEW p \in Procs, Move(p), ~Begin(p), ~Active(p)', last' = "ok",
           NEW n \in FilesOf(p), claim[n] = job[p].ver
    PROVE  Offer(n)' = IF job[p].op = "publish" THEN job[p].ver ELSE 0
<1>1. Active(p)
  BY Claims
<1>2. n \in Files
  BY <1>1, JobFacts
<1>3. \/ UNCHANGED arch /\ pc[p] \in {"unstage", "return"} /\ Published(p)
      \/ pc[p] = "gpg_db" /\ job[p].op = "remove" /\ arch' = [arch EXCEPT ![DbSig] = job[p].body]
  BY Whither
<1>4. CASE UNCHANGED arch /\ pc[p] \in {"unstage", "return"} /\ Published(p)
  <2>1. job[p].op = "publish"
    BY <1>4 DEF Loops, LoopsOf, Publishing
  <2>2. arch[Pkg(n)] = Only(n, claim[n]) /\ arch[Sig(n)] = Only(n, claim[n]) /\ arch[Db][n] = claim[n]
    BY <1>1, <1>4, PublishedOwned
  <2> QED
    BY <1>2, <1>4, <2>1, <2>2, Offering
<1>5. CASE pc[p] = "gpg_db" /\ job[p].op = "remove" /\ arch' = [arch EXCEPT ![DbSig] = job[p].body]
  <2>1. arch[Db][n] = 0
    BY <1>1, <1>5 DEF Effects, EffectsOf, Owns
  <2>2. arch'[Db] = arch[Db]
    BY <1>5, PathIn DEF TypeOK, Db, DbSig
  <2> QED
    BY <1>2, <1>5, <2>1, <2>2, Offering
<1> QED
  BY <1>3, <1>4, <1>5

\* Every step of an operation is one of the promised ones.
LEMMA MoveRefines ==
    ASSUME RInv, RInv', Effects, Effects', NEW p \in Procs, Move(p), ~Begin(p)
    PROVE  Promise!Work(p) \/ Promise!Abort(p) \/ Promise!Complete(p)
<1>0. /\ TypeOK /\ TypeOK' /\ Loops /\ Owners /\ Progress /\ Solo
      /\ Active(p) /\ p \in Procs
  BY Claims DEF RInv
<1>1. /\ Open[p].op = job[p].op /\ Open[p].names = FilesOf(p) /\ Open[p].ver = job[p].ver
      /\ Open[p].sole = {n \in FilesOf(p) : claim[n] = job[p].ver}
      /\ Open[p].alone <=> p \in alone
  BY <1>0 DEF Open, OpenOf
<1>2. /\ job[p].op \in {"publish", "remove"} /\ FilesOf(p) \subseteq Files
  BY <1>0, JobFacts
<1>3. \A n \in Files : /\ Offers[n] = Offer(n) /\ Offers'[n] = Offer(n)'
                       /\ Offer(n) \in Versions /\ Offer(n)' \in Versions
  <2>1. \A n \in Files : Offer(n)' \in Versions
    <3> SUFFICES ASSUME NEW n \in Files PROVE Offer(n)' \in Versions
      OBVIOUS
    <3>1. arch'[Db] \in Content /\ 0 \in Versions
      BY <1>0, S3ClientAssumption DEF TypeOK, Versions, Db, Path, DbSig, FilesDb, Pkg, Sig
    <3> QED
      BY <3>1, Offering DEF Content
  <2> QED
    BY <1>0, <2>1, OfferIn DEF Offers
<1>4. Promise!Touch(p)
  <2>1. Promise!IsOpen(p)
    BY <1>1, <1>2 DEF Promise!IsOpen
  <2>2. Offers' \in [Files -> Versions] /\ Seal' \in {"valid", "none", "wrong"}
    BY <1>3 DEF Offers, Seal
  <2>3. ASSUME NEW n \in Files, Offers'[n] # Offers[n]
        PROVE  /\ n \in Open[p].names
               /\ Open[p].op = "remove" => Offers'[n] = 0
               /\ n \in Open[p].sole => Offers'[n] \in {0, Open[p].ver}
    <3>1. Offer(n)' # Offer(n)
      BY <1>3, <2>3
    <3>2. n \in FilesOf(p)
      <4> SUFFICES ASSUME n \notin FilesOf(p) PROVE FALSE
        OBVIOUS
      <4>1. /\ arch'[Pkg(n)] = arch[Pkg(n)] /\ arch'[Sig(n)] = arch[Sig(n)]
            /\ arch'[Db][n] = arch[Db][n]
        BY <1>0, Foreign
      <4> QED
        BY <3>1, <4>1, OfferKept
    <3>3. \/ job[p].op = "remove" /\ Offer(n)' = 0
          \/ job[p].op = "publish" /\ (claim[n] = job[p].ver => Offer(n)' \in {0, job[p].ver})
      BY <1>0, <3>1, <3>2, OfferStep
    <3> QED
      BY <1>1, <1>3, <3>2, <3>3
  <2>4. Open[p].alone /\ Seal' = "wrong" => Seal = "wrong"
    BY <1>0, <1>1, SealStep
  <2> QED
    BY <2>1, <2>2, <2>3, <2>4 DEF Promise!Touch
<1>5. CASE Active(p)'
  <2>1. UNCHANGED <<Open, last>>
    BY <1>0, <1>5, OpenStep, Whither
  <2> QED
    BY <1>4, <2>1 DEF Promise!Work
<1>6. CASE ~Active(p)'
  <2>1. Promise!Close(p)
    BY <1>0, <1>6, OpenStep DEF Promise!Close
  <2>2. CASE last' = "err"
    BY <1>4, <2>1, <2>2 DEF Promise!Abort
  <2>3. CASE last' = "ok"
    <3>1. ASSUME NEW n \in Open[p].sole
          PROVE  Offers'[n] = IF Open[p].op = "publish" THEN Open[p].ver ELSE 0
      <4>1. n \in FilesOf(p) /\ claim[n] = job[p].ver /\ n \in Files
        BY <1>1, <1>2
      <4>2. Offer(n)' = IF job[p].op = "publish" THEN job[p].ver ELSE 0
        BY <1>0, <1>6, <2>3, <4>1, Succeeded
      <4> QED
        BY <1>1, <1>3, <4>1, <4>2
    <3>2. Open[p].alone => Seal' = "valid"
      BY <1>0, <1>1, <1>6, <2>3, SealStep
    <3> QED
      BY <1>4, <2>1, <2>3, <3>1, <3>2 DEF Promise!Complete
  <2> QED
    BY <1>0, <1>6, <2>2, <2>3, Whither
<1> QED
  BY <1>5, <1>6

LEMMA EffectsStep == RInv /\ Effects /\ [Next]_vars => Effects'
<1> SUFFICES ASSUME RInv, Effects, [Next]_vars PROVE Effects'
  OBVIOUS
<1>1. CASE Next
  <2>1. PICK p \in Procs : Move(p)
    BY <1>1 DEF Next, Move
  <2>2. \A q \in Procs : EffectsOf(q)'
    BY <2>1, EffectsOwn, EffectsOthers DEF RInv, Effects
  <2> QED
    BY <2>2 DEF Effects
<1>2. CASE UNCHANGED vars
  <2>1. UNCHANGED <<arch, pc, job, claim>>
    BY <1>2 DEF vars, repo_vars, op_vars, hist_vars
  <2> SUFFICES ASSUME NEW q \in Procs PROVE EffectsOf(q)'
    BY DEF Effects
  <2>2. EffectsOf(q)
    BY DEF Effects
  <2>3. FilesOf(q)' = FilesOf(q) /\ Active(q)' = Active(q)
    BY <2>1 DEF FilesOf, Active
  <2>4. \A n \in FilesOf(q) : Owns(q, n)' => Owns(q, n)
    BY <2>1, <2>3 DEF Owns
  <2> QED
    BY <2>1, <2>2, <2>3, <2>4 DEF EffectsOf, Pkg, Db, Only, Absent, NoJob
<1> QED
  BY <1>1, <1>2

\* Where the callers begin, nothing is open.
LEMMA InitRefines == Init => Effects /\ Promise!Init
<1> SUFFICES ASSUME Init PROVE Effects /\ Promise!Init
  OBVIOUS
<1>0. TypeOK
  BY InitRInv DEF RInv
<1>1. \A p \in Procs : job[p] = NoJob /\ ~Active(p)
  BY DEF Init, Active
<1>2. ASSUME NEW p \in Procs PROVE FilesOf(p) = {}
  <2>1. job[p].files = <<>>
    BY <1>1 DEF NoJob
  <2> QED
    BY <2>1 DEF FilesOf
<1>3. Effects
  BY <1>1, <1>2 DEF Effects, EffectsOf
<1>4. \A p \in Procs : OpenOf(p) = Promise!Closed
  <2> SUFFICES ASSUME NEW p \in Procs PROVE OpenOf(p) = Promise!Closed
    OBVIOUS
  <2>1. (Active(p) /\ p \in alone) = FALSE
    BY <1>1
  <2>2. job[p].op = "none" /\ job[p].ver = 0
    BY <1>1 DEF NoJob
  <2> QED
    BY <1>2, <2>1, <2>2 DEF OpenOf, Promise!Closed
<1>5. Open = [p \in Procs |-> Promise!Closed]
  BY <1>4 DEF Open
<1>6. Offers \in [Files -> Versions]
  BY <1>0, OfferIn DEF Offers
<1>7. Seal = "valid"
  <2>1. arch[DbSig] = arch[Db]
    BY PathIn DEF Init, Served
  <2> QED
    BY <2>1 DEF Seal
<1>8. last = "ok"
  BY DEF Init
<1> QED
  BY <1>3, <1>5, <1>6, <1>7, <1>8 DEF Promise!Init

LEMMA NextRefines ==
    ASSUME RInv, RInv', Effects, Effects', [Next]_vars
    PROVE  [Promise!Next]_(Promise!rvars)
<1>1. CASE Next
  <2>1. PICK p \in Procs : Move(p)
    BY <1>1 DEF Next, Move
  <2>2. CASE Begin(p)
    <3>1. PICK op \in {"publish", "remove"}, ns \in SUBSET Files, v \in Versions \ {0} :
             Promise!Begin(p, op, ns, v)
      BY <2>2, OpenBegin DEF RInv
    <3>2. ~Promise!IsOpen(p)
      BY <3>1 DEF Promise!Begin
    <3> QED
      BY <3>1, <3>2 DEF Promise!Next
  <2>3. CASE ~Begin(p)
    BY <2>1, <2>3, MoveRefines DEF Promise!Next
  <2> QED
    BY <2>2, <2>3
<1>2. CASE UNCHANGED vars
  <2>1. UNCHANGED <<Offers, Seal>>
    BY <1>2 DEF vars, repo_vars, Offers, Offer, Seal, Pkg, Sig, Db, DbSig, Only, Absent
  <2>2. UNCHANGED <<Open, last>>
    BY <1>2 DEF vars, op_vars, hist_vars, Open, OpenOf, FilesOf, Active
  <2> QED
    BY <2>1, <2>2 DEF Promise!rvars
<1> QED
  BY <1>1, <1>2

\* Those who install see a Repository, for any callers, files, faults and
\* operations: no name is disturbed but by an operation on it, the only one on a
\* name takes it to its own version or away and has done so when it returns Ok,
\* and the database carries another's signature only after two have met
\* (publish_with and remove_with, lib.rs:194-379).
THEOREM RepositoryImplemented == Spec => ImplementsRepository
<1>1. Init => Effects /\ Promise!Init
  BY InitRefines
<1>2. RInv /\ Effects /\ [Next]_vars => Effects'
  BY EffectsStep
<1>3. RInv /\ RInv' /\ Effects /\ Effects' /\ [Next]_vars => [Promise!Next]_(Promise!rvars)
  BY NextRefines
<1> QED
  BY <1>1, <1>2, <1>3, AlwaysRInv, PTL DEF Spec, ImplementsRepository, Promise!Spec

=============================================================================
