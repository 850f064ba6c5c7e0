------------------------------- MODULE S3Client -------------------------------
(***************************************************************************)
(* paur-s3: S3Client::put, a loop over the HTTP answers of an object store *)
(* that keeps the bytes of a key.  A file's content is abstracted to the   *)
(* versions of the packages in it: a package file holds one package at one *)
(* version, a database holds several, a signature holds what it signs.     *)
(* S3Client::delete has the same loop and no caller.                       *)
(***************************************************************************)
EXTENDS Naturals

CONSTANTS
    Procs,        \* tasks and processes that publish or remove
    Files,        \* names of package files
    MaxOps,       \* versions: the first is what was published before, then one per operation
    RetryDelays,  \* RETRY_DELAYS.len(), 4 in the code
    PutFaults     \* answers the store may give: "transient", "permanent", "network"

ASSUME S3ClientAssumption ==
    /\ MaxOps \in Nat \ {0} /\ RetryDelays \in Nat
    /\ PutFaults \subseteq {"transient", "permanent", "network"}

Versions == 0..MaxOps
Content  == [Files -> Versions]
Absent   == [n \in Files |-> 0]                  \* no such file, or a database of nothing
Only(n, v) == [Absent EXCEPT ![n] = v]

Db      == <<"db", "paur">>                      \* <repo>.db.tar.gz
DbSig   == <<"sig", "paur">>                     \* <repo>.db.tar.gz.sig
FilesDb == <<"files", "paur">>                   \* <repo>.files.tar.gz
Pkg(n)  == <<"pkg", n>>
Sig(n)  == <<"pkg.sig", n>>
Path    == {Db, DbSig, FilesDb} \cup {Pkg(n) : n \in Files} \cup {Sig(n) : n \in Files}

VARIABLES
    mirror,   \* the bucket: what it holds at each key
    put       \* per process: the request being retried

Put == [key : Path, body : Content, attempt : 0..RetryDelays, res : {"none", "busy", "ok", "err"}]
NoPut == [key |-> Db, body |-> Absent, attempt |-> 0, res |-> "none"]

TypeS3 ==
    /\ mirror \in [Path -> Content]
    /\ put \in [Procs -> Put]

Request(p, key, body) ==
    put' = [put EXCEPT ![p] = [key |-> key, body |-> body, attempt |-> 0, res |-> "busy"]]

\* put returns: the attempts were its own.
Finished(p, res) == put' = [put EXCEPT ![p].res = res, ![p].attempt = 0]
Stored(p)        == mirror' = [mirror EXCEPT ![put[p].key] = put[p].body]

put_success(p) ==
    /\ put[p].res = "busy"
    /\ Stored(p)
    /\ Finished(p, "ok")

\* Mutant: one retry more than there are delays.
put_transient_once_more(p) ==
    /\ put[p].res = "busy" /\ "transient" \in PutFaults
    /\ UNCHANGED mirror
    /\ IF put[p].attempt > RetryDelays
         THEN Finished(p, "err")
         ELSE put' = [put EXCEPT ![p].attempt = @ + 1]

\* 408, 429 and 5xx, taken to mean that nothing was kept: retried after a
\* sleep, until the delays are used up.
put_transient(p) ==
    /\ put[p].res = "busy" /\ "transient" \in PutFaults
    /\ UNCHANGED mirror
    /\ IF put[p].attempt >= RetryDelays
         THEN Finished(p, "err")
         ELSE put' = [put EXCEPT ![p].attempt = @ + 1]

\* Mutant: a refused upload is reported as done.
put_permanent_ok(p) ==
    /\ put[p].res = "busy" /\ "permanent" \in PutFaults
    /\ UNCHANGED mirror
    /\ Finished(p, "ok")

put_permanent(p) ==
    /\ put[p].res = "busy" /\ "permanent" \in PutFaults
    /\ UNCHANGED mirror
    /\ Finished(p, "err")

\* The transport fails, before or after the object was stored: `?` leaves the
\* loop at once, whatever the attempt.
put_network(p) ==
    /\ put[p].res = "busy" /\ "network" \in PutFaults
    /\ Stored(p) \/ UNCHANGED mirror
    /\ Finished(p, "err")

PutAnswer(p) == put_success(p) \/ put_transient(p) \/ put_permanent(p) \/ put_network(p)
=============================================================================
