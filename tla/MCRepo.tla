------------------------------- MODULE MCRepo -------------------------------
(***************************************************************************)
(* Two callers at a time.  One is the worker with a package that is split  *)
(* in two files, or a `paur keyring build` with its package; the other is  *)
(* a second `paur keyring build`, or a handler that deletes the worker's   *)
(* package.                                                                *)
(***************************************************************************)
EXTENDS RepoPublish

JobOf(op, fs) == [op |-> op, files |-> fs]
TwoCallers ==
    [p \in Procs |->
        {JobOf("publish", <<"keyring">>)}
            \cup (IF p = "one" THEN {JobOf("publish", <<"app", "lib">>)}
                               ELSE {JobOf("remove", <<"app">>)})]
=============================================================================
