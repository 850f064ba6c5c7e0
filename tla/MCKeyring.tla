------------------------------ MODULE MCKeyring ------------------------------
(***************************************************************************)
(* The operator's commands: init for one of two emails, forced or not, and *)
(* the other commands.                                                     *)
(***************************************************************************)
EXTENDS Keyring, TLC

Command(op, force, e) == [op |-> op, force |-> force, email |-> e]
AllCommands ==
    {Command("init", f, e) : f \in BOOLEAN, e \in Emails}
        \cup {Command(op, FALSE, CHOOSE e \in Emails : TRUE) :
              op \in {"repo_init", "keyring_build", "config_set"}}
CliSymmetry == Permutations(Clis)
=============================================================================
