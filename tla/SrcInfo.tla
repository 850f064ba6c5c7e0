------------------------------- MODULE SrcInfo -------------------------------
(***************************************************************************)
(* paur_aur::srcinfo::parse, line by line, against a definition of what a  *)
(* .SRCINFO means.  A line is its key and its values: one for `key = v`,   *)
(* any number for `key = ( v ... )`.  The keys stand for their kind:       *)
(* pkgver, pkgrel and epoch for the scalars, depends for the lists, "other"*)
(* for what is ignored and "malformed" for a line without a `=`.           *)
(***************************************************************************)
EXTENDS Naturals, Sequences, SequencesExt

CONSTANTS
    Lines,      \* the lines of the inputs: [key, values]
    Names,      \* package names
    Values,     \* what stands on the right of a `=`
    NoName,     \* current_pkg is None
    None,       \* a scalar that is not set
    Empty,      \* the empty string
    MaxLines

Scalar == {"pkgver", "pkgrel", "epoch"}
Key    == Scalar \cup {"pkgname", "depends", "other", "malformed"}

ASSUME SrcInfoAssumption ==
    /\ MaxLines \in Nat /\ NoName \notin Names /\ None # Empty
    /\ Lines \subseteq [key : Key, values : Seq(Values)]
    /\ \A l \in Lines : l.key = "pkgname" => l.values \in Seq(Names)

VARIABLES
    input,        \* the lines read
    current_pkg,
    base,
    packages,     \* a function from the names of the blocks
    result        \* "parsing", "ok", "error"

vars == <<input, current_pkg, base, packages, result>>

NoInfo == [pkgname |-> <<>>, pkgver |-> None, pkgrel |-> None, epoch |-> None, depends |-> <<>>]

Init ==
    /\ input = <<>> /\ current_pkg = NoName
    /\ base = NoInfo /\ packages = [n \in {} |-> NoInfo]
    /\ result = "parsing"

FirstOf(values) == IF values = <<>> THEN None ELSE values[1]

\* Mutant: a list is replaced too.
Set_last(info, key, values) ==
    CASE key \in Scalar   -> [info EXCEPT ![key] = FirstOf(values)]
      [] key = "depends"  -> [info EXCEPT !.depends = values]
      [] OTHER            -> info

\* The later part of apply_key: a list is extended, a scalar replaced.
Set(info, key, values) ==
    CASE key \in Scalar   -> [info EXCEPT ![key] = FirstOf(values)]
      [] key = "depends"  -> [info EXCEPT !.depends = @ \o values]
      [] OTHER            -> info

\* packages.entry(name).or_default()
Entry(n) == IF n \in DOMAIN packages THEN packages[n] ELSE NoInfo
Put(n, info) == [m \in DOMAIN packages \cup {n} |-> IF m = n THEN info ELSE packages[m]]

\* Mutant: the block of a package is left only for a name that has none yet.
apply_pkgname_new(values) ==
    IF base.pkgname # <<>> /\ values[1] \notin DOMAIN packages
    THEN current_pkg' = values[1] /\ packages' = Put(values[1], Entry(values[1])) /\ UNCHANGED base
    ELSE base' = [base EXCEPT !.pkgname = values] /\ UNCHANGED <<current_pkg, packages>>

\* apply_key for a pkgname line: a name other than the current one starts, or
\* resumes, a block once the base has its name.
apply_pkgname(values) ==
    IF base.pkgname # <<>> /\ values[1] # current_pkg
    THEN current_pkg' = values[1] /\ packages' = Put(values[1], Entry(values[1])) /\ UNCHANGED base
    ELSE base' = [base EXCEPT !.pkgname = values] /\ UNCHANGED <<current_pkg, packages>>

apply_key(key, values) ==
    CASE key = "pkgname" /\ values = <<>> -> UNCHANGED <<current_pkg, base, packages>>
      [] key = "pkgname" /\ values # <<>> -> apply_pkgname(values)
      [] key # "pkgname" /\ current_pkg = NoName ->
            base' = Set(base, key, values) /\ UNCHANGED <<current_pkg, packages>>
      [] OTHER ->
            /\ packages' = Put(current_pkg, Set(Entry(current_pkg), key, values))
            /\ UNCHANGED <<current_pkg, base>>

\* A line of parse; a malformed one ends it.
parse_line ==
    /\ result = "parsing" /\ Len(input) < MaxLines
    /\ \E l \in Lines :
         /\ input' = Append(input, l)
         /\ IF l.key = "malformed"
            THEN result' = "error" /\ UNCHANGED <<current_pkg, base, packages>>
            ELSE apply_key(l.key, l.values) /\ UNCHANGED result

\* merge_from: what the block o sets goes over the base b.
merge_from(b, o) ==
    [k \in DOMAIN b |-> IF k \in Scalar THEN (IF o[k] # None THEN o[k] ELSE b[k])
                        ELSE (IF o[k] # <<>> THEN o[k] ELSE b[k])]

\* Mutant: the blocks are returned as they are.
parse_end_unmerged ==
    /\ result = "parsing"
    /\ result' = "ok"
    /\ UNCHANGED <<input, current_pkg, base, packages>>

\* The end of the input: the base's fields go under each block's.
parse_end ==
    /\ result = "parsing"
    /\ result' = "ok"
    /\ packages' = [n \in DOMAIN packages |-> merge_from(base, packages[n])]
    /\ UNCHANGED <<input, current_pkg, base>>

\* <<epoch, pkgver, pkgrel>>; an empty epoch is none.
full_version(info) ==
    IF None \in {info.pkgver, info.pkgrel} THEN <<>>
    ELSE <<IF info.epoch = Empty THEN None ELSE info.epoch, info.pkgver, info.pkgrel>>
full_version_of(n) == full_version(IF n \in DOMAIN packages THEN packages[n] ELSE base)

Next == parse_line \/ parse_end
Spec == Init /\ [][Next]_vars

------------------------------------------------------------------------------
(* What a .SRCINFO means *)

\* The lines with a name before line i, and the block it is in: the base's until
\* a second one, then that of the last name.
NamesBefore(i) == {j \in 1..(i - 1) : input[j].key = "pkgname" /\ input[j].values # <<>>}
Owner(i) ==
    LET s == NamesBefore(i) IN
    IF \A j, k \in s : j = k THEN NoName ELSE input[Max(s)].values[1]

\* The lines of one block that set one key.
LinesOf(n, key) == {i \in DOMAIN input : input[i].key = key /\ Owner(i) = n}

OwnScalar(n, key) ==
    LET s == LinesOf(n, key) IN IF s = {} THEN None ELSE FirstOf(input[Max(s)].values)
Given(n, key) ==
    [i \in DOMAIN input |-> IF i \in LinesOf(n, key) THEN input[i].values ELSE <<>>]
OwnList(n, key) == FlattenSeq(Given(n, key))
MeantScalar(n, key) ==
    IF OwnScalar(n, key) # None THEN OwnScalar(n, key) ELSE OwnScalar(NoName, key)
MeantList(n, key) ==
    IF OwnList(n, key) # <<>> THEN OwnList(n, key) ELSE OwnList(NoName, key)

------------------------------------------------------------------------------
(* Properties *)

\* Every input is read as it is meant: a package has an entry if it has a block
\* of its own, with the last value of a scalar of the package's own blocks,
\* wherever they are, or else of the base; a malformed line, and only that, is
\* an error.
ParsesAsMeant ==
    /\ result = "error" <=> \E i \in DOMAIN input : input[i].key = "malformed"
    /\ result = "ok" =>
         /\ \A k \in Scalar : base[k] = OwnScalar(NoName, k)
         /\ DOMAIN packages = {Owner(i) : i \in 1..(Len(input) + 1)} \ {NoName}
         /\ \A n \in DOMAIN packages, k \in Scalar : packages[n][k] = MeantScalar(n, k)

\* And a list has all values of its lines in order, the package's own if it has
\* any, or else the base's.
ListsAsMeant ==
    result = "ok" =>
        /\ base.depends = OwnList(NoName, "depends")
        /\ \A n \in DOMAIN packages : packages[n].depends = MeantList(n, "depends")

\* The version of a build (worker.rs:287-290): when, as makepkg writes it, the
\* version is given before the first name, it is the version of every package,
\* of the base and of a package that has no block.
OneVersion ==
    (result = "ok" /\ \A i \in DOMAIN input : input[i].key \in Scalar => NamesBefore(i) = {}) =>
        \A n \in Names : full_version_of(n) = full_version(base)

\* srcinfo.rs:18-19: the base is what all packages share, and a package's own
\* lines are in its block: what follows the first pkgname is the first package's.
FirstBlockIsOwn ==
    (result = "ok" /\ \E i \in DOMAIN input :
                        input[i].key = "depends" /\ Cardinality(NamesBefore(i)) = 1)
        => \A n \in DOMAIN packages :
             packages[n].depends \in {OwnList(n, "depends"), <<>>}
=============================================================================
