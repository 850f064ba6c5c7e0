--------------------------- MODULE SrcInfoProofs ----------------------------
(***************************************************************************)
(* The parser reads scalars, lists, blocks and malformed lines as they are *)
(* meant, whatever the input: of any length, over any names and values.    *)
(* After each line the base and the blocks hold the last values, and the   *)
(* lists all values, of the lines read so far (Midway, MidLists), and the  *)
(* current block is the one the next line belongs to.                      *)
(***************************************************************************)
EXTENDS SrcInfo, WellFoundedInduction, TLAPS

Info == [pkgname : Seq(Names), pkgver : Values \cup {None}, pkgrel : Values \cup {None},
         epoch : Values \cup {None}, depends : Seq(Values)]

\* The blocks begun so far, and the base's.
Owners == {Owner(i) : i \in 1..(Len(input) + 1)}

InfosOK == base \in Info /\ \A n \in DOMAIN packages : packages[n] \in Info

\* Between two lines.
Midway ==
    /\ \A i \in DOMAIN input : input[i].key # "malformed"
    /\ current_pkg = Owner(Len(input) + 1)
    /\ base.pkgname = <<>> <=> NamesBefore(Len(input) + 1) = {}
    /\ DOMAIN packages = Owners \ {NoName}
    /\ \A k \in Scalar : base[k] = OwnScalar(NoName, k)
    /\ \A n \in DOMAIN packages, k \in Scalar : packages[n][k] = OwnScalar(n, k)

SInv ==
    /\ input \in Seq(Lines) /\ result \in {"parsing", "ok", "error"}
    /\ InfosOK /\ ParsesAsMeant
    /\ result = "parsing" => Midway

-----------------------------------------------------------------------------
(* The operators *)

LEMMA LeastNat ==
    ASSUME NEW S \in SUBSET Nat, S # {}
    PROVE  \E x \in S : \A y \in S : x <= y
<1>1. PICK x \in S : \A y \in S : ~(<<y, x>> \in OpToRel(<, Nat))
    BY NatLessThanWellFounded, WFMin, Zenon
<1>2. \A y \in S : y < x => <<y, x>> \in OpToRel(<, Nat)
    BY DEF OpToRel
<1>3. \A y \in S : ~(y < x)
    BY <1>1, <1>2, Zenon
<1>4. \A y \in S : x \in Nat /\ y \in Nat
    OBVIOUS
<1> QED BY <1>3, <1>4

\* The last of some lines is one of them.
LEMMA LastLine ==
    ASSUME NEW m \in Nat, NEW S \in SUBSET (1..m), S # {}
    PROVE  Max(S) \in S /\ \A y \in S : y <= Max(S)
<1> DEFINE T == {t \in Nat : \E x \in S : t = m - x}
<1>0. \A x \in S : x \in Nat /\ m - x \in T
    OBVIOUS
<1>1. T \in SUBSET Nat /\ T # {}
    BY <1>0
<1>2. PICK t \in T : \A y \in T : t <= y
    BY <1>1, LeastNat
<1>3. PICK x \in S : t = m - x
    BY <1>2
<1>4. \A y \in S : x >= y
    <2> SUFFICES ASSUME NEW y \in S PROVE x >= y
        OBVIOUS
    <2>1. t <= m - y
        BY <1>0, <1>2
    <2> QED BY <1>0, <1>3, <2>1
<1>5. \E z \in S : \A y \in S : z >= y
    BY <1>4
<1>6. Max(S) \in S /\ \A y \in S : Max(S) >= y
    BY <1>5 DEF Max
<1> QED BY <1>6

\* A line after all others is the last.
LEMMA LastAdded ==
    ASSUME NEW m \in Nat, NEW S \in SUBSET (1..m)
    PROVE  Max(S \cup {m + 1}) = m + 1
<1> DEFINE T == S \cup {m + 1}
<1>1. T \in SUBSET (1..(m + 1)) /\ T # {} /\ m + 1 \in Nat
    OBVIOUS
<1>2. Max(T) \in T /\ \A y \in T : y <= Max(T)
    BY <1>1, LastLine
<1>3. m + 1 \in T /\ T = S \cup {m + 1}
    OBVIOUS
<1> DEFINE M == Max(T)
<1>4. M \in 1..(m + 1) /\ m + 1 <= M
    BY <1>1, <1>2, <1>3
<1>5. M = Max(S \cup {m + 1})
    OBVIOUS
<1> HIDE DEF M
<1> QED BY <1>4, <1>5

\* What a line that is not a name does to an entry.
LEMMA SetInfo ==
    ASSUME NEW info \in Info, NEW key \in Key, NEW values \in Seq(Values)
    PROVE  /\ Set(info, key, values) \in Info
           /\ Set(info, key, values).pkgname = info.pkgname
           /\ \A k \in Scalar :
                Set(info, key, values)[k] = IF key = k THEN FirstOf(values) ELSE info[k]
<1>1. FirstOf(values) \in Values \cup {None}
    BY DEF FirstOf
<1>2. CASE key \in Scalar
    <2> DEFINE v == FirstOf(values)
    <2>1. Set(info, key, values) = [info EXCEPT ![key] = v]
        BY <1>2 DEF Set, Scalar
    <2>2. v \in Values \cup {None}
        BY <1>1
    <2> HIDE DEF v
    <2>3. /\ [info EXCEPT ![key] = v] \in Info
          /\ [info EXCEPT ![key] = v].pkgname = info.pkgname
          /\ \A k \in Scalar : [info EXCEPT ![key] = v][k] = IF key = k THEN v ELSE info[k]
        BY <1>2, <2>2 DEF Info, Scalar
    <2> QED BY <2>1, <2>3 DEF v
<1>3. CASE key = "depends"
    <2> DEFINE w == info.depends \o values
    <2>1. Set(info, key, values) = [info EXCEPT !.depends = w]
        BY <1>3 DEF Set, Scalar
    <2>2. w \in Seq(Values)
        BY DEF Info
    <2> HIDE DEF w
    <2>3. /\ [info EXCEPT !.depends = w] \in Info
          /\ [info EXCEPT !.depends = w].pkgname = info.pkgname
          /\ \A k \in Scalar : [info EXCEPT !.depends = w][k] = info[k]
        BY <2>2 DEF Info, Scalar
    <2>4. \A k \in Scalar : key # k
        BY <1>3 DEF Scalar
    <2> QED BY <2>1, <2>3, <2>4
<1>4. CASE key \notin Scalar /\ key # "depends"
    BY <1>4 DEF Set
<1> QED BY <1>2, <1>3, <1>4

LEMMA NoInfoIs == NoInfo \in Info /\ NoInfo.pkgname = <<>> /\ \A k \in Scalar : NoInfo[k] = None
<1>1. NoInfo \in Info /\ NoInfo.pkgname = <<>>
    BY DEF NoInfo, Info
<1>2. \A k \in Scalar : NoInfo[k] = None
    BY DEF NoInfo, Scalar
<1> QED BY <1>1, <1>2

\* The base goes under what a block has set.
LEMMA MergedInfo ==
    ASSUME NEW b \in Info, NEW o \in Info
    PROVE  /\ merge_from(b, o) \in Info
           /\ \A k \in Scalar : merge_from(b, o)[k] = IF o[k] # None THEN o[k] ELSE b[k]
  BY DEF merge_from, Info, Scalar

-----------------------------------------------------------------------------
(* One more line *)

Named(l) == l.key = "pkgname" /\ l.values # <<>>

\* A line leaves what is known of the earlier ones; it is in the block it was
\* read in, and a name says where the next one is.
LEMMA OneMoreLine ==
    ASSUME input \in Seq(Lines), NEW l \in Lines, input' = Append(input, l), NEW m, m = Len(input)
    PROVE  /\ m \in Nat /\ Len(input') = m + 1 /\ input'[m + 1] = l
           /\ \A i \in 1..m : input'[i] = input[i]
           /\ \A i \in 1..(m + 1) : Owner(i)' = Owner(i)
           /\ ~Named(l) => /\ Owner(m + 2)' = Owner(m + 1)
                           /\ NamesBefore(m + 2)' = NamesBefore(m + 1)
           /\ Named(l) => /\ NamesBefore(m + 2)' # {}
                          /\ Owner(m + 2)' = IF NamesBefore(m + 1) = {} THEN NoName
                                             ELSE l.values[1]
<1>1. /\ m \in Nat /\ Len(input') = m + 1 /\ input'[m + 1] = l
      /\ \A i \in 1..m : input'[i] = input[i]
    OBVIOUS
<1> DEFINE B == NamesBefore(m + 1)
<1>2. B \in SUBSET (1..m)
    BY <1>1 DEF NamesBefore
<1>3. \A i \in 1..(m + 1) : NamesBefore(i)' = NamesBefore(i)
    BY <1>1 DEF NamesBefore
<1>4. ASSUME NEW i \in 1..(m + 1) PROVE Owner(i)' = Owner(i)
    <2> DEFINE S == NamesBefore(i)
    <2>1. S \in SUBSET (1..m) /\ NamesBefore(i)' = S
        BY <1>1, <1>3 DEF NamesBefore
    <2>2. CASE \A j, k \in S : j = k
        BY <2>1, <2>2 DEF Owner
    <2>3. CASE ~(\A j, k \in S : j = k)
        <3>1. Max(S) \in 1..m
            BY <1>1, <2>1, <2>3, LastLine
        <3>2. input'[Max(S)] = input[Max(S)]
            BY <1>1, <3>1
        <3> HIDE DEF S
        <3> QED BY <2>1, <2>3, <3>2 DEF Owner, S
    <2> QED BY <2>2, <2>3
<1>5. NamesBefore(m + 2)' = IF Named(l) THEN B \cup {m + 1} ELSE B
    <2>1. \A j : j \in 1..((m + 2) - 1) <=> j \in 1..m \/ j = m + 1
        BY <1>1
    <2>2. \A j : j \in 1..((m + 1) - 1) <=> j \in 1..m
        BY <1>1
    <2> QED BY <1>1, <2>1, <2>2 DEF NamesBefore, Named
<1>6. ASSUME ~Named(l) PROVE Owner(m + 2)' = Owner(m + 1) /\ NamesBefore(m + 2)' = B
    <2>1. NamesBefore(m + 2)' = B
        BY <1>5, <1>6
    <2>2. CASE \A j, k \in B : j = k
        BY <2>1, <2>2 DEF Owner
    <2>3. CASE ~(\A j, k \in B : j = k)
        <3>1. Max(B) \in 1..m
            BY <1>1, <1>2, <2>3, LastLine
        <3>2. input'[Max(B)] = input[Max(B)]
            BY <1>1, <3>1
        <3> HIDE DEF B
        <3> QED BY <2>1, <2>3, <3>2 DEF Owner, B
    <2> QED BY <2>1, <2>2, <2>3
<1>7. ASSUME Named(l)
      PROVE  /\ NamesBefore(m + 2)' # {}
             /\ Owner(m + 2)' = IF B = {} THEN NoName ELSE l.values[1]
    <2>1. NamesBefore(m + 2)' = B \cup {m + 1}
        BY <1>5, <1>7
    <2>2. CASE B = {}
        <3>1. \A j, k \in NamesBefore(m + 2)' : j = k
            BY <2>1, <2>2
        <3> QED BY <2>1, <2>2, <3>1 DEF Owner
    <2>3. CASE B # {}
        <3>1. PICK j \in B : j \in 1..m
            BY <1>2, <2>3
        <3>2. j # m + 1 /\ j \in NamesBefore(m + 2)' /\ m + 1 \in NamesBefore(m + 2)'
            BY <1>1, <2>1, <3>1
        <3>3. Max(NamesBefore(m + 2)') = m + 1
            BY <1>1, <1>2, <2>1, LastAdded
        <3> HIDE DEF B
        <3> QED BY <1>1, <2>1, <2>3, <3>2, <3>3 DEF Owner
    <2> QED BY <2>1, <2>2, <2>3
<1> QED BY <1>1, <1>4, <1>6, <1>7

\* The scalars of every block, with one more line: only the block the line is in
\* has another value of its key, the line's.
LEMMA OneMoreScalar ==
    ASSUME input \in Seq(Lines), NEW l \in Lines, input' = Append(input, l), NEW m, m = Len(input),
           NEW n, NEW k \in Scalar
    PROVE  OwnScalar(n, k)' = IF l.key = k /\ Owner(m + 1) = n THEN FirstOf(l.values)
                              ELSE OwnScalar(n, k)
<1> DEFINE S == LinesOf(n, k)
<1>1. /\ m \in Nat /\ Len(input') = m + 1 /\ input'[m + 1] = l
      /\ \A i \in 1..m : input'[i] = input[i]
      /\ \A i \in 1..(m + 1) : Owner(i)' = Owner(i)
    BY OneMoreLine
<1>2. DOMAIN input = 1..m /\ DOMAIN input' = 1..(m + 1)
    BY <1>1
<1>3. S \in SUBSET (1..m)
    BY <1>2 DEF LinesOf
<1>4. LinesOf(n, k)' = IF l.key = k /\ Owner(m + 1) = n THEN S \cup {m + 1} ELSE S
    <2>1. \A i : i \in 1..(m + 1) <=> i \in 1..m \/ i = m + 1
        BY <1>1
    <2>2. \A i \in 1..m : i \in 1..(m + 1) /\ i # m + 1
        BY <1>1
    <2>3. m + 1 \in 1..(m + 1)
        BY <1>1
    <2> QED BY <1>1, <1>2, <2>1, <2>2, <2>3 DEF LinesOf
<1>5. CASE l.key = k /\ Owner(m + 1) = n
    <2>1. LinesOf(n, k)' = S \cup {m + 1}
        BY <1>4, <1>5
    <2>2. Max(LinesOf(n, k)') = m + 1
        BY <1>1, <1>3, <2>1, LastAdded
    <2> HIDE DEF S
    <2> QED BY <1>1, <1>5, <2>1, <2>2 DEF OwnScalar
<1>6. CASE ~(l.key = k /\ Owner(m + 1) = n)
    <2>1. LinesOf(n, k)' = S
        BY <1>4, <1>6
    <2>2. CASE S = {}
        BY <1>6, <2>1, <2>2 DEF OwnScalar
    <2>3. CASE S # {}
        <3>1. Max(S) \in 1..m
            BY <1>1, <1>3, <2>3, LastLine
        <3>2. input'[Max(S)] = input[Max(S)]
            BY <1>1, <3>1
        <3> HIDE DEF S
        <3> QED BY <1>6, <2>1, <2>3, <3>2 DEF OwnScalar, S
    <2> QED BY <2>2, <2>3
<1> QED BY <1>5, <1>6

\* A name that has no block has no lines.
LEMMA Unowned ==
    ASSUME input \in Seq(Lines), NEW n, n \notin Owners, NEW k
    PROVE  OwnScalar(n, k) = None
<1>1. \A i \in DOMAIN input : i \in 1..(Len(input) + 1)
    OBVIOUS
<1>2. LinesOf(n, k) = {}
    BY <1>1 DEF LinesOf, Owners
<1> QED BY <1>2 DEF OwnScalar

-----------------------------------------------------------------------------
(* The steps *)

LEMMA LineIs ==
    ASSUME NEW l \in Lines
    PROVE  /\ l.key \in Key /\ l.values \in Seq(Values)
           /\ Named(l) => l.values \in Seq(Names) /\ l.values # <<>> /\ l.values[1] \in Names
                          /\ l.values[1] # NoName
<1>1. l.key \in Key /\ l.values \in Seq(Values)
    BY SrcInfoAssumption DEF SrcInfoAssumption
<1>2. ASSUME Named(l) PROVE l.values \in Seq(Names) /\ l.values # <<>> /\ l.values[1] \in Names
                            /\ l.values[1] # NoName
    BY <1>2, SrcInfoAssumption DEF SrcInfoAssumption, Named
<1> QED BY <1>1, <1>2

LEMMA EntryIs ==
    ASSUME InfosOK, NEW n
    PROVE  Entry(n) \in Info
  BY NoInfoIs DEF Entry, InfosOK

LEMMA PutIs ==
    ASSUME NEW n, NEW info, packages' = Put(n, info)
    PROVE  /\ DOMAIN packages' = DOMAIN packages \cup {n} /\ packages'[n] = info
           /\ \A i \in DOMAIN packages \ {n} : packages'[i] = packages[i]
  BY DEF Put

LEMMA MidwayLine ==
    ASSUME SInv, result = "parsing", NEW l \in Lines, l.key # "malformed",
           input' = Append(input, l), apply_key(l.key, l.values), NEW m, m = Len(input)
    PROVE  InfosOK' /\ Midway'
<1> DEFINE Own(n, k) == IF l.key = k /\ Owner(m + 1) = n THEN FirstOf(l.values)
                        ELSE OwnScalar(n, k)
<1>0. input \in Seq(Lines) /\ InfosOK /\ Midway
    BY DEF SInv
<1>1. /\ m \in Nat /\ Len(input') = m + 1 /\ input'[m + 1] = l
      /\ \A i \in 1..m : input'[i] = input[i]
      /\ \A i \in 1..(m + 1) : Owner(i)' = Owner(i)
    BY <1>0, OneMoreLine
<1>2. \A n, k : k \in Scalar => OwnScalar(n, k)' = Own(n, k)
    BY <1>0, OneMoreScalar
<1>3. Owners' = Owners \cup {Owner(m + 2)'}
    <2>1. \A i : i \in 1..(Len(input') + 1) <=> i \in 1..(m + 1) \/ i = m + 2
        BY <1>1
    <2> QED BY <1>1, <2>1 DEF Owners
<1>4. Owner(m + 1) \in Owners
    BY <1>1 DEF Owners
<1>5. \A i \in DOMAIN input' : input'[i].key # "malformed"
    <2>1. \A i : i \in DOMAIN input' <=> i \in 1..m \/ i = m + 1
        BY <1>1
    <2>2. \A i \in 1..m : input[i].key # "malformed"
        BY <1>0 DEF Midway
    <2> QED BY <1>1, <2>1, <2>2
<1>6. Len(input') + 1 = m + 2
    BY <1>1
<1>7. ASSUME l.key \notin Scalar PROVE \A n, k : k \in Scalar => OwnScalar(n, k)' = OwnScalar(n, k)
    BY <1>2, <1>7
<1>8. CASE Named(l)
    <2> DEFINE v == l.values[1]
    <2>0. l.key = "pkgname" /\ l.values # <<>> /\ l.key \notin Scalar
        BY <1>8 DEF Named, Scalar
    <2>1. apply_pkgname(l.values)
        BY <2>0 DEF apply_key
    <2>2. l.values \in Seq(Names) /\ v # NoName
        BY <1>8, LineIs
    <2>3. /\ NamesBefore(m + 2)' # {}
          /\ Owner(m + 2)' = IF NamesBefore(m + 1) = {} THEN NoName ELSE v
        BY <1>0, <1>8, OneMoreLine
    <2>4. CASE base.pkgname # <<>> /\ v # current_pkg
        <3>1. current_pkg' = v /\ packages' = Put(v, Entry(v)) /\ base' = base
            BY <2>1, <2>4 DEF apply_pkgname
        <3>2. Owner(m + 2)' = v
            BY <1>0, <2>3, <2>4 DEF Midway
        <3>3. /\ DOMAIN packages' = DOMAIN packages \cup {v} /\ packages'[v] = Entry(v)
              /\ \A n \in DOMAIN packages \ {v} : packages'[n] = packages[n]
            BY <3>1, PutIs
        <3>4. InfosOK'
            BY <1>0, <3>1, <3>3, EntryIs DEF InfosOK
        <3>5. DOMAIN packages' = Owners' \ {NoName}
            BY <1>0, <1>3, <2>2, <3>2, <3>3 DEF Midway
        <3>6. ASSUME NEW n \in DOMAIN packages', NEW k \in Scalar
              PROVE  packages'[n][k] = OwnScalar(n, k)'
            <4>1. OwnScalar(n, k)' = OwnScalar(n, k)
                BY <1>7, <2>0
            <4>2. CASE n \in DOMAIN packages
                <5>1. packages'[n] = packages[n]
                    BY <3>3, <4>2 DEF Entry
                <5> QED BY <1>0, <4>1, <4>2, <5>1 DEF Midway
            <4>3. CASE n \notin DOMAIN packages
                <5>1. n = v /\ packages'[n] = NoInfo
                    BY <3>3, <4>3 DEF Entry
                <5>2. n \notin Owners
                    BY <1>0, <2>2, <4>3, <5>1 DEF Midway
                <5>3. OwnScalar(n, k) = None
                    BY <1>0, <5>2, Unowned
                <5> QED BY <4>1, <5>1, <5>3, NoInfoIs
            <4> QED BY <4>2, <4>3
        <3>7. \A k \in Scalar : base'[k] = OwnScalar(NoName, k)'
            BY <1>0, <1>7, <2>0, <3>1 DEF Midway
        <3> QED BY <1>0, <1>5, <1>6, <2>3, <2>4, <3>1, <3>2, <3>4, <3>5, <3>6, <3>7 DEF Midway
    <2>5. CASE ~(base.pkgname # <<>> /\ v # current_pkg)
        <3>1. /\ base' = [base EXCEPT !.pkgname = l.values]
              /\ UNCHANGED <<current_pkg, packages>>
            BY <2>1, <2>5 DEF apply_pkgname
        <3>2. /\ base' \in Info /\ base'.pkgname # <<>> /\ \A k \in Scalar : base'[k] = base[k]
            BY <1>0, <2>0, <2>2, <3>1 DEF InfosOK, Info, Scalar
        <3>3. Owner(m + 2)' = current_pkg'
            <4>1. CASE base.pkgname = <<>>
                <5>1. NamesBefore(m + 1) = {}
                    BY <1>0, <4>1 DEF Midway
                <5>2. current_pkg = NoName
                    BY <1>0, <5>1 DEF Midway, Owner
                <5> QED BY <2>3, <3>1, <5>1, <5>2
            <4>2. CASE base.pkgname # <<>>
                BY <1>0, <2>3, <2>5, <3>1, <4>2 DEF Midway
            <4> QED BY <4>1, <4>2
        <3>4. Owners' = Owners
            BY <1>0, <1>3, <1>4, <3>1, <3>3 DEF Midway
        <3>5. InfosOK'
            BY <1>0, <3>1, <3>2 DEF InfosOK
        <3>6. /\ \A k \in Scalar : base'[k] = OwnScalar(NoName, k)'
              /\ \A n \in DOMAIN packages', k \in Scalar : packages'[n][k] = OwnScalar(n, k)'
            BY <1>0, <1>7, <2>0, <3>1, <3>2 DEF Midway
        <3> QED BY <1>0, <1>5, <1>6, <2>3, <3>1, <3>2, <3>3, <3>4, <3>5, <3>6 DEF Midway
    <2> QED BY <2>4, <2>5
<1>9. CASE ~Named(l)
    <2>1. Owner(m + 2)' = Owner(m + 1) /\ NamesBefore(m + 2)' = NamesBefore(m + 1)
        BY <1>0, <1>9, OneMoreLine
    <2>2. Owners' = Owners
        BY <1>3, <1>4, <2>1
    <2>3. l.key \in Key /\ l.values \in Seq(Values)
        BY LineIs
    <2>4. CASE l.key = "pkgname"
        <3>1. l.values = <<>> /\ l.key \notin Scalar
            BY <1>9, <2>4 DEF Named, Scalar
        <3>2. UNCHANGED <<current_pkg, base, packages>>
            BY <2>4, <3>1 DEF apply_key
        <3>3. \A n, k : k \in Scalar => OwnScalar(n, k)' = OwnScalar(n, k)
            BY <1>7, <3>1
        <3> QED BY <1>0, <1>5, <1>6, <2>1, <2>2, <3>2, <3>3 DEF InfosOK, Midway
    <2>5. CASE l.key # "pkgname" /\ current_pkg = NoName
        <3>1. base' = Set(base, l.key, l.values) /\ UNCHANGED <<current_pkg, packages>>
            BY <2>5 DEF apply_key
        <3>2. /\ base' \in Info /\ base'.pkgname = base.pkgname
              /\ \A k \in Scalar : base'[k] = IF l.key = k THEN FirstOf(l.values) ELSE base[k]
            BY <1>0, <2>3, <3>1, SetInfo DEF InfosOK
        <3>3. InfosOK'
            BY <1>0, <3>1, <3>2 DEF InfosOK
        <3>4. Owner(m + 1) = NoName
            BY <1>0, <2>5 DEF Midway
        <3>5. \A k \in Scalar : base'[k] = OwnScalar(NoName, k)'
            BY <1>0, <1>2, <3>2, <3>4 DEF Midway
        <3>6. \A n \in DOMAIN packages', k \in Scalar : packages'[n][k] = OwnScalar(n, k)'
            <4>1. \A n \in DOMAIN packages : n # NoName
                BY <1>0 DEF Midway
            <4> QED BY <1>0, <1>2, <3>1, <3>4, <4>1 DEF Midway
        <3> QED BY <1>0, <1>5, <1>6, <2>1, <2>2, <3>1, <3>2, <3>3, <3>5, <3>6 DEF Midway
    <2>6. CASE l.key # "pkgname" /\ current_pkg # NoName
        <3> DEFINE c == current_pkg
                   info == Set(Entry(c), l.key, l.values)
        <3>1. packages' = Put(c, info) /\ UNCHANGED <<current_pkg, base>>
            BY <2>6 DEF apply_key
        <3>2. c = Owner(m + 1) /\ c \in DOMAIN packages /\ c # NoName
            BY <1>0, <1>4, <2>6 DEF Midway
        <3>3. Entry(c) = packages[c] /\ packages[c] \in Info
            BY <1>0, <3>2 DEF Entry, InfosOK
        <3>4. /\ info \in Info
              /\ \A k \in Scalar : info[k] = IF l.key = k THEN FirstOf(l.values) ELSE packages[c][k]
            BY <2>3, <3>3, SetInfo
        <3> HIDE DEF info
        <3>5. /\ DOMAIN packages' = DOMAIN packages \cup {c} /\ packages'[c] = info
              /\ \A n \in DOMAIN packages \ {c} : packages'[n] = packages[n]
            BY <3>1, PutIs
        <3>6. InfosOK'
            BY <1>0, <3>1, <3>4, <3>5 DEF InfosOK
        <3>7. \A k \in Scalar : base'[k] = OwnScalar(NoName, k)'
            BY <1>0, <1>2, <3>1, <3>2 DEF Midway
        <3>8. ASSUME NEW n \in DOMAIN packages', NEW k \in Scalar
              PROVE  packages'[n][k] = OwnScalar(n, k)'
            <4>1. CASE n = c
                BY <1>0, <1>2, <3>2, <3>4, <3>5, <4>1 DEF Midway
            <4>2. CASE n # c
                BY <1>0, <1>2, <3>2, <3>5, <4>2 DEF Midway
            <4> QED BY <4>1, <4>2
        <3>9. DOMAIN packages' = Owners' \ {NoName}
            BY <1>0, <2>2, <3>2, <3>5 DEF Midway
        <3> QED BY <1>0, <1>5, <1>6, <2>1, <3>1, <3>2, <3>6, <3>7, <3>8, <3>9 DEF Midway
    <2> QED BY <2>4, <2>5, <2>6
<1> QED BY <1>8, <1>9

LEMMA InitSInv == Init => SInv
<1> SUFFICES ASSUME Init PROVE SInv
    OBVIOUS
<1>1. input = <<>> /\ current_pkg = NoName /\ base = NoInfo /\ DOMAIN packages = {} /\ result = "parsing"
    BY DEF Init
<1>2. Len(input) + 1 = 1 /\ DOMAIN input = {} /\ input \in Seq(Lines)
    BY <1>1
<1>3. NamesBefore(1) = {}
    BY DEF NamesBefore
<1>4. Owner(1) = NoName
    BY <1>3 DEF Owner
<1>5. Owners = {NoName}
    <2>1. \A i : i \in 1..(Len(input) + 1) <=> i = 1
        BY <1>2
    <2> QED BY <1>4, <2>1 DEF Owners
<1>6. \A n, k : OwnScalar(n, k) = None
    BY <1>2 DEF OwnScalar, LinesOf
<1>7. Midway
    BY <1>1, <1>2, <1>3, <1>4, <1>5, <1>6, NoInfoIs DEF Midway
<1>8. InfosOK
    BY <1>1, NoInfoIs DEF InfosOK
<1> QED BY <1>1, <1>2, <1>7, <1>8 DEF SInv, ParsesAsMeant

LEMMA NextSInv == SInv /\ [Next]_vars => SInv'
<1> SUFFICES ASSUME SInv, [Next]_vars PROVE SInv'
    OBVIOUS
<1>0. input \in Seq(Lines) /\ InfosOK /\ (result = "parsing" => Midway)
    BY DEF SInv
<1>1. ASSUME NEW l \in Lines, result = "parsing", input' = Append(input, l),
             l.key = "malformed", result' = "error", UNCHANGED <<current_pkg, base, packages>>
      PROVE  SInv'
    <2>1. /\ Len(input) \in Nat /\ Len(input') = Len(input) + 1 /\ input'[Len(input) + 1] = l
          /\ input' \in Seq(Lines)
        BY <1>0, <1>1
    <2>2. Len(input) + 1 \in DOMAIN input'
        BY <2>1
    <2>3. ParsesAsMeant'
        BY <1>1, <2>1, <2>2 DEF ParsesAsMeant
    <2> QED BY <1>0, <1>1, <2>1, <2>3 DEF SInv, InfosOK
<1>2. ASSUME NEW l \in Lines, result = "parsing", input' = Append(input, l),
             l.key # "malformed", result' = result, apply_key(l.key, l.values)
      PROVE  SInv'
    <2>1. InfosOK' /\ Midway'
        <3>1. PICK m : m = Len(input)
            OBVIOUS
        <3> QED BY <1>2, <3>1, MidwayLine
    <2>2. input' \in Seq(Lines)
        BY <1>0, <1>2
    <2>3. ParsesAsMeant'
        BY <1>2, <2>1 DEF ParsesAsMeant, Midway
    <2> QED BY <1>2, <2>1, <2>2, <2>3 DEF SInv
<1>3. CASE parse_line
    BY <1>1, <1>2, <1>3 DEF parse_line
<1>4. CASE parse_end
    <2>1. /\ result = "parsing" /\ result' = "ok" /\ UNCHANGED <<input, current_pkg, base>>
          /\ packages' = [n \in DOMAIN packages |-> merge_from(base, packages[n])]
        BY <1>4 DEF parse_end
    <2>2. DOMAIN packages' = DOMAIN packages
          /\ \A n \in DOMAIN packages : packages'[n] = merge_from(base, packages[n])
        BY <2>1
    <2>3. InfosOK'
        BY <1>0, <2>1, <2>2, MergedInfo DEF InfosOK
    <2>4. /\ \A n, k : OwnScalar(n, k)' = OwnScalar(n, k)
          /\ \A i : Owner(i)' = Owner(i)
        BY <2>1 DEF OwnScalar, LinesOf, Owner, NamesBefore
    <2>5. ASSUME NEW n \in DOMAIN packages', NEW k \in Scalar
          PROVE  packages'[n][k] = MeantScalar(n, k)'
        <3>1. packages[n][k] = OwnScalar(n, k) /\ base[k] = OwnScalar(NoName, k)
            BY <1>0, <2>1, <2>2 DEF Midway
        <3>2. packages'[n][k] = IF packages[n][k] # None THEN packages[n][k] ELSE base[k]
            BY <1>0, <2>2, MergedInfo DEF InfosOK
        <3> QED BY <2>4, <3>1, <3>2 DEF MeantScalar
    <2>6. ParsesAsMeant'
        <3>1. \A i \in DOMAIN input' : input'[i].key # "malformed"
            BY <1>0, <2>1 DEF Midway
        <3>2. \A k \in Scalar : base'[k] = OwnScalar(NoName, k)'
            BY <1>0, <2>1, <2>4 DEF Midway
        <3>3. DOMAIN packages' = {Owner(i)' : i \in 1..(Len(input') + 1)} \ {NoName}
            BY <1>0, <2>1, <2>2, <2>4 DEF Midway, Owners
        <3> QED BY <2>1, <2>5, <3>1, <3>2, <3>3 DEF ParsesAsMeant
    <2> QED BY <1>0, <2>1, <2>3, <2>6 DEF SInv
<1>5. CASE UNCHANGED vars
    <2>1. UNCHANGED <<input, current_pkg, base, packages, result>>
        BY <1>5 DEF vars
    <2>2. /\ \A i : NamesBefore(i)' = NamesBefore(i) /\ Owner(i)' = Owner(i)
          /\ \A n, k : OwnScalar(n, k)' = OwnScalar(n, k)
        BY <2>1 DEF OwnScalar, LinesOf, Owner, NamesBefore
    <2>3. Owners' = Owners /\ \A n, k : MeantScalar(n, k)' = MeantScalar(n, k)
        BY <2>1, <2>2 DEF Owners, MeantScalar
    <2>4. ParsesAsMeant'
        <3>1. {Owner(i)' : i \in 1..(Len(input') + 1)} = {Owner(i) : i \in 1..(Len(input) + 1)}
            BY <2>1, <2>2
        <3> QED BY <2>1, <2>2, <2>3, <3>1 DEF SInv, ParsesAsMeant
    <2>5. result = "parsing" => Midway'
        BY <1>0, <2>1, <2>2, <2>3 DEF Midway
    <2> QED BY <1>0, <2>1, <2>4, <2>5 DEF SInv, InfosOK
<1> QED BY <1>3, <1>4, <1>5 DEF Next

-----------------------------------------------------------------------------
(* Concatenation *)

\* f has the concatenations of the first, the first two, ... of the sequences in s.
Concats(f, s, n) ==
    /\ f[1] = s[1]
    /\ \A i \in 2..n : f[i] = f[i - 1] \o s[i]

LEMMA ConcatsUnique ==
    ASSUME NEW s, NEW n \in Nat, NEW f, NEW g, Concats(f, s, n), Concats(g, s, n)
    PROVE  \A i \in 1..n : f[i] = g[i]
<1> DEFINE T == {i \in 1..n : f[i] # g[i]}
<1> SUFFICES ASSUME T # {} PROVE FALSE
    OBVIOUS
<1>1. T \in SUBSET Nat
    OBVIOUS
<1>2. PICK i \in T : \A j \in T : i <= j
    BY <1>1, LeastNat
<1>3. i # 1
    BY <1>2 DEF Concats
<1>4. i \in 2..n /\ i - 1 \in 1..n /\ ~(i <= i - 1)
    BY <1>2, <1>3
<1>5. f[i - 1] = g[i - 1]
    BY <1>2, <1>4
<1> QED BY <1>2, <1>4, <1>5 DEF Concats

LEMMA ConcatsExist ==
    ASSUME NEW V, NEW s \in Seq(Seq(V)), s # <<>>
    PROVE  \E f \in [1..Len(s) -> Seq(V)] : Concats(f, s, Len(s))
<1> DEFINE P(n) == \E f \in [1..n -> Seq(V)] : Concats(f, s, n)
           T == {n \in 1..Len(s) : ~P(n)}
<1>0. Len(s) \in Nat /\ Len(s) >= 1 /\ \A i \in 1..Len(s) : s[i] \in Seq(V)
    OBVIOUS
<1> SUFFICES ASSUME T # {} PROVE FALSE
    BY <1>0
<1>1. T \in SUBSET Nat
    OBVIOUS
<1>2. PICK n \in T : \A j \in T : n <= j
    BY <1>1, LeastNat
<1>3. n # 1
    <2> DEFINE f == [i \in 1..1 |-> s[1]]
    <2>1. f \in [1..1 -> Seq(V)] /\ f[1] = s[1]
        BY <1>0
    <2>2. Concats(f, s, 1)
        BY <2>1 DEF Concats
    <2> QED BY <1>2, <2>1, <2>2
<1>4. n \in 2..Len(s) /\ n - 1 \in 1..Len(s) /\ ~(n <= n - 1) /\ n \in Nat
    BY <1>0, <1>2, <1>3
<1>5. PICK f \in [1..(n - 1) -> Seq(V)] : Concats(f, s, n - 1)
    BY <1>2, <1>4
<1> DEFINE x == f[n - 1] \o s[n]
           g == [i \in 1..n |-> IF i = n THEN x ELSE f[i]]
<1>6. x \in Seq(V)
    BY <1>0, <1>4, <1>5
<1>7. \A i \in 1..(n - 1) : i \in 1..n /\ g[i] = f[i]
    <2>1. \A i \in 1..(n - 1) : i \in 1..n /\ i # n
        BY <1>4
    <2> HIDE DEF x
    <2> QED BY <2>1
<1>8. g \in [1..n -> Seq(V)] /\ g[n] = x
    <2> HIDE DEF x
    <2>1. \A i \in 1..n : i # n => i \in 1..(n - 1)
        BY <1>4
    <2> QED BY <1>4, <1>5, <1>6, <2>1
<1> HIDE DEF g
<1>9. Concats(g, s, n)
    <2>1. g[1] = s[1]
        BY <1>4, <1>5, <1>7 DEF Concats
    <2>2. ASSUME NEW i \in 2..n PROVE g[i] = g[i - 1] \o s[i]
        <3>1. i - 1 \in 1..(n - 1)
            BY <1>4
        <3>2. CASE i = n
            BY <1>7, <1>8, <3>1, <3>2
        <3>3. CASE i # n
            <4>1. i \in 2..(n - 1) /\ i \in 1..(n - 1)
                BY <1>4, <3>3
            <4> QED BY <1>5, <1>7, <3>1, <4>1 DEF Concats
        <3> QED BY <3>2, <3>3
    <2> QED BY <2>1, <2>2 DEF Concats
<1> QED BY <1>2, <1>8, <1>9

LEMMA FlattenIs ==
    ASSUME NEW V, NEW s \in Seq(Seq(V)), s # <<>>
    PROVE  \E f \in [1..Len(s) -> Seq(V)] : Concats(f, s, Len(s)) /\ FlattenSeq(s) = f[Len(s)]
<1>0. Len(s) \in Nat /\ Len(s) >= 1 /\ Len(s) # 0
    OBVIOUS
<1>1. PICK f \in [1..Len(s) -> Seq(V)] : Concats(f, s, Len(s))
    BY ConcatsExist
<1> DEFINE R(h) == [i \in 1..Len(s) |-> IF i = 1 THEN s[i] ELSE h[i - 1] \o s[i]]
           F == CHOOSE h : h = R(h)
<1>2. f = R(f)
    <2>1. \A i \in 1..Len(s) : i = 1 \/ i \in 2..Len(s)
        BY <1>0
    <2>2. \A i \in 1..Len(s) : f[i] = IF i = 1 THEN s[i] ELSE f[i - 1] \o s[i]
        BY <1>1, <2>1 DEF Concats
    <2> QED BY <2>2
<1>3. F = R(F)
    BY <1>2
<1>4. FlattenSeq(s) = F[Len(s)]
    BY <1>0 DEF FlattenSeq
<1> HIDE DEF F
<1>5. Concats(F, s, Len(s))
    <2>1. 1 \in 1..Len(s) /\ \A i \in 2..Len(s) : i \in 1..Len(s) /\ i # 1
        BY <1>0
    <2> QED BY <1>3, <2>1 DEF Concats
<1>6. F[Len(s)] = f[Len(s)]
    BY <1>0, <1>1, <1>5, ConcatsUnique
<1> QED BY <1>1, <1>4, <1>6

\* One more sequence comes after what the others give.
LEMMA FlattenAppend ==
    ASSUME NEW V, NEW s \in Seq(Seq(V)), NEW x \in Seq(V)
    PROVE  /\ FlattenSeq(s) \in Seq(V)
           /\ FlattenSeq(Append(s, x)) = FlattenSeq(s) \o x
<1>0. PICK n \in Nat : n = Len(s)
    OBVIOUS
<1> DEFINE t == Append(s, x)
<1>1. /\ t \in Seq(Seq(V)) /\ t # <<>> /\ Len(t) = n + 1 /\ n \in Nat /\ t[n + 1] = x
      /\ \A i \in 1..n : t[i] = s[i]
    <2> DEFINE W == Seq(V)
    <2> HIDE DEF W
    <2>1. ASSUME NEW r \in Seq(W), NEW y \in W
          PROVE  /\ Append(r, y) \in Seq(W) /\ Len(Append(r, y)) = Len(r) + 1 /\ Len(r) \in Nat
                 /\ Append(r, y)[Len(r) + 1] = y /\ \A i \in 1..Len(r) : Append(r, y)[i] = r[i]
        OBVIOUS
    <2>2. /\ t \in Seq(W) /\ Len(t) = n + 1 /\ n \in Nat /\ t[n + 1] = x
          /\ \A i \in 1..n : t[i] = s[i]
        BY <1>0, <2>1 DEF W
    <2>3. t # <<>>
        <3> HIDE DEF t
        <3> QED BY <2>2
    <2> QED BY <2>2, <2>3 DEF W
<1>2. PICK g \in [1..(n + 1) -> Seq(V)] : Concats(g, t, n + 1) /\ FlattenSeq(t) = g[n + 1]
    BY <1>1, FlattenIs
<1>3. CASE s = <<>>
    <2>1. FlattenSeq(s) = <<>> /\ n = 0
        BY <1>0, <1>3 DEF FlattenSeq
    <2>2. FlattenSeq(t) = x
        BY <1>1, <1>2, <2>1 DEF Concats
    <2> QED BY <2>1, <2>2
<1>4. CASE s # <<>>
    <2>1. PICK f \in [1..n -> Seq(V)] : Concats(f, s, n) /\ FlattenSeq(s) = f[n]
        BY <1>0, <1>4, FlattenIs
    <2>2. n \in 1..n /\ n + 1 \in 2..(n + 1) /\ (n + 1) - 1 = n /\ \A i \in 2..n : i \in 2..(n + 1) /\ i \in 1..n
        BY <1>0, <1>1, <1>4
    <2> HIDE DEF t
    <2>3. Concats(g, s, n)
        <3>1. g[1] = s[1]
            BY <1>1, <1>2, <2>2 DEF Concats
        <3>2. \A i \in 2..n : g[i] = g[i - 1] \o s[i]
            BY <1>1, <1>2, <2>2 DEF Concats
        <3> QED BY <3>1, <3>2 DEF Concats
    <2>4. g[n] = f[n]
        BY <2>1, <2>2, <2>3, ConcatsUnique
    <2>5. g[n + 1] = g[n] \o x
        BY <1>1, <1>2, <2>2 DEF Concats
    <2> QED BY <1>2, <2>1, <2>2, <2>4, <2>5 DEF t
<1> QED BY <1>3, <1>4
-----------------------------------------------------------------------------
(* The lists, line by line *)

Listed(n) == OwnList(n, "depends")

\* Between two lines; a name without a block has no list.
MidLists ==
    /\ base.depends = Listed(NoName)
    /\ \A n \in DOMAIN packages : packages[n].depends = Listed(n)
    /\ \A n : n \notin Owners => Listed(n) = <<>>

ListInv == ListsAsMeant /\ (result = "parsing" => MidLists)

\* The lists of every block, with one more line: the block the line is in has the
\* line's values at its end.
LEMMA OneMoreList ==
    ASSUME input \in Seq(Lines), NEW l \in Lines, input' = Append(input, l), NEW m, m = Len(input),
           NEW n
    PROVE  /\ Listed(n) \in Seq(Values)
           /\ Listed(n)' = IF l.key = "depends" /\ Owner(m + 1) = n THEN Listed(n) \o l.values
                           ELSE Listed(n)
<1> DEFINE G == Given(n, "depends")
           S == LinesOf(n, "depends")
           x == IF l.key = "depends" /\ Owner(m + 1) = n THEN l.values ELSE <<>>
<1>1. /\ m \in Nat /\ Len(input') = m + 1 /\ input'[m + 1] = l
      /\ \A i \in 1..m : input'[i] = input[i]
      /\ \A i \in 1..(m + 1) : Owner(i)' = Owner(i)
    BY OneMoreLine
<1>2. DOMAIN input = 1..m /\ DOMAIN input' = 1..(m + 1)
    BY <1>1
<1>3. \A i \in 1..m : i \in 1..(m + 1) /\ i # m + 1
    BY <1>1
<1>4. \A i \in 1..m : i \in LinesOf(n, "depends")' <=> i \in S
    BY <1>1, <1>2, <1>3 DEF LinesOf
<1>5. m + 1 \in LinesOf(n, "depends")' <=> l.key = "depends" /\ Owner(m + 1) = n
    <2>1. m + 1 \in 1..(m + 1)
        BY <1>1
    <2> QED BY <1>1, <1>2, <2>1 DEF LinesOf
<1>6. \A i \in 1..m : input[i].values \in Seq(Values)
    BY <1>2, SrcInfoAssumption DEF SrcInfoAssumption
<1>7. l.values \in Seq(Values) /\ x \in Seq(Values)
    BY SrcInfoAssumption DEF SrcInfoAssumption
<1>8. G \in Seq(Seq(Values)) /\ Len(G) = m
    <2>1. G = [i \in 1..m |-> IF i \in S THEN input[i].values ELSE <<>>]
        BY <1>2 DEF Given
    <2>2. \A i \in 1..m : (IF i \in S THEN input[i].values ELSE <<>>) \in Seq(Values)
        BY <1>6
    <2>3. G \in [1..m -> Seq(Values)]
        BY <2>1, <2>2
    <2> HIDE DEF G
    <2> QED BY <1>1, <2>3
<1>9. Given(n, "depends")' = Append(G, x)
    <2>1. Given(n, "depends")'
            = [i \in 1..(m + 1) |-> IF i \in LinesOf(n, "depends")' THEN input'[i].values ELSE <<>>]
        BY <1>2 DEF Given
    <2>2. \A i \in 1..m : G[i] = IF i \in S THEN input[i].values ELSE <<>>
        BY <1>2 DEF Given
    <2> HIDE DEF G, S
    <2>3. Append(G, x) = [i \in 1..(m + 1) |-> IF i = m + 1 THEN x ELSE G[i]]
        BY <1>8
    <2>4. ASSUME NEW i \in 1..(m + 1)
          PROVE  (IF i \in LinesOf(n, "depends")' THEN input'[i].values ELSE <<>>)
                   = IF i = m + 1 THEN x ELSE G[i]
        <3>1. CASE i = m + 1
            BY <1>1, <1>5, <3>1
        <3>2. CASE i # m + 1
            <4>1. i \in 1..m
                BY <1>1, <3>2
            <4> QED BY <1>1, <1>4, <2>2, <3>2, <4>1
        <3> QED BY <3>1, <3>2
    <2> QED BY <2>1, <2>3, <2>4
<1>10. FlattenSeq(G) \in Seq(Values) /\ FlattenSeq(Append(G, x)) = FlattenSeq(G) \o x
    <2> HIDE DEF G, x
    <2> QED BY <1>7, <1>8, FlattenAppend
<1>11. Listed(n) = FlattenSeq(G) /\ Listed(n)' = FlattenSeq(Given(n, "depends")')
    BY DEF Listed, OwnList
<1>12. Listed(n) \in Seq(Values) /\ Listed(n)' = Listed(n) \o x
    BY <1>9, <1>10, <1>11
<1> HIDE DEF G, S
<1>13. Listed(n) \o <<>> = Listed(n)
    BY <1>12
<1> QED BY <1>12, <1>13

\* What a line that is not a name does to the list of an entry.
LEMMA SetList ==
    ASSUME NEW info \in Info, NEW key \in Key, NEW values \in Seq(Values)
    PROVE  Set(info, key, values).depends
             = IF key = "depends" THEN info.depends \o values ELSE info.depends
<1>1. CASE key \in Scalar
    <2> DEFINE v == FirstOf(values)
    <2>1. Set(info, key, values) = [info EXCEPT ![key] = v] /\ key # "depends"
        BY <1>1 DEF Set, Scalar
    <2> HIDE DEF v
    <2> QED BY <1>1, <2>1 DEF Info, Scalar
<1>2. CASE key = "depends"
    <2> DEFINE w == info.depends \o values
    <2>1. Set(info, key, values) = [info EXCEPT !.depends = w]
        BY <1>2 DEF Set, Scalar
    <2> HIDE DEF w
    <2> QED BY <1>2, <2>1 DEF Info, w
<1>3. CASE key \notin Scalar /\ key # "depends"
    BY <1>3 DEF Set
<1> QED BY <1>1, <1>2, <1>3

LEMMA MidListsLine ==
    ASSUME SInv, MidLists, result = "parsing", NEW l \in Lines, l.key # "malformed",
           input' = Append(input, l), apply_key(l.key, l.values), NEW m, m = Len(input)
    PROVE  MidLists'
<1>0. input \in Seq(Lines) /\ InfosOK /\ Midway
    BY DEF SInv
<1>1. /\ m \in Nat /\ Len(input') = m + 1
      /\ \A i \in 1..(m + 1) : Owner(i)' = Owner(i)
    BY <1>0, OneMoreLine
<1>2. \A n : /\ Listed(n) \in Seq(Values)
             /\ Listed(n)' = IF l.key = "depends" /\ Owner(m + 1) = n THEN Listed(n) \o l.values
                             ELSE Listed(n)
    BY <1>0, OneMoreList
<1>3. Owners \subseteq Owners' /\ Owner(m + 1) \in Owners
    <2>1. \A i \in 1..(m + 1) : i \in 1..(Len(input') + 1)
        BY <1>1
    <2> QED BY <1>1, <2>1 DEF Owners
<1>4. \A n : n \notin Owners' => Listed(n)' = <<>>
    BY <1>2, <1>3 DEF MidLists
<1>5. l.key \in Key /\ l.values \in Seq(Values) /\ (Named(l) => l.key = "pkgname")
    BY LineIs DEF Named
<1>6. current_pkg = Owner(m + 1)
    BY <1>0 DEF Midway
<1>7. CASE l.key = "pkgname"
    <2>0. \A n : Listed(n)' = Listed(n)
        BY <1>2, <1>7
    <2>1. CASE l.values = <<>> \/ (UNCHANGED packages /\ base' = [base EXCEPT !.pkgname = l.values])
        <3>1. UNCHANGED packages /\ base'.depends = base.depends
            BY <1>0, <1>7, <2>1 DEF apply_key, InfosOK, Info
        <3> QED BY <1>4, <2>0, <3>1 DEF MidLists
    <2>2. ASSUME NEW v, UNCHANGED base, packages' = Put(v, Entry(v)), v # NoName PROVE MidLists'
        <3>1. /\ DOMAIN packages' = DOMAIN packages \cup {v} /\ packages'[v] = Entry(v)
              /\ \A n \in DOMAIN packages \ {v} : packages'[n] = packages[n]
            BY <2>2, PutIs
        <3>2. ASSUME NEW n \in DOMAIN packages' PROVE packages'[n].depends = Listed(n)'
            <4>1. CASE n \in DOMAIN packages
                <5>1. packages'[n] = packages[n]
                    BY <3>1, <4>1 DEF Entry
                <5> QED BY <2>0, <4>1, <5>1 DEF MidLists
            <4>2. CASE n \notin DOMAIN packages
                <5>1. n = v /\ packages'[n] = NoInfo
                    BY <3>1, <4>2 DEF Entry
                <5>2. n \notin Owners
                    BY <1>0, <2>2, <4>2, <5>1 DEF Midway
                <5>3. Listed(n) = <<>> /\ NoInfo.depends = <<>>
                    BY <5>2 DEF MidLists, NoInfo
                <5> QED BY <2>0, <5>1, <5>3
            <4> QED BY <4>1, <4>2
        <3> QED BY <1>4, <2>0, <2>2, <3>2 DEF MidLists
    <2>3. CASE l.values # <<>>
        <3>1. apply_pkgname(l.values) /\ l.values[1] # NoName
            BY <1>7, <2>3, LineIs DEF apply_key, Named
        <3> QED BY <2>1, <2>2, <3>1 DEF apply_pkgname
    <2> QED BY <2>1, <2>3
<1>8. CASE l.key # "pkgname" /\ current_pkg = NoName
    <2>1. base' = Set(base, l.key, l.values) /\ UNCHANGED packages
        BY <1>8 DEF apply_key
    <2>2. base'.depends = IF l.key = "depends" THEN base.depends \o l.values ELSE base.depends
        BY <1>0, <1>5, <2>1, SetList DEF InfosOK
    <2>3. base'.depends = Listed(NoName)'
        BY <1>2, <1>6, <1>8, <2>2 DEF MidLists
    <2>4. \A n \in DOMAIN packages : n # NoName
        BY <1>0 DEF Midway
    <2>5. \A n \in DOMAIN packages' : packages'[n].depends = Listed(n)'
        BY <1>2, <1>6, <1>8, <2>1, <2>4 DEF MidLists
    <2> QED BY <1>4, <2>3, <2>5 DEF MidLists
<1>9. CASE l.key # "pkgname" /\ current_pkg # NoName
    <2> DEFINE c == current_pkg
               info == Set(Entry(c), l.key, l.values)
    <2>1. packages' = Put(c, info) /\ UNCHANGED base
        BY <1>9 DEF apply_key
    <2>2. c \in DOMAIN packages
        BY <1>0, <1>3, <1>6, <1>9 DEF Midway
    <2>3. Entry(c) = packages[c] /\ packages[c] \in Info
        BY <1>0, <2>2 DEF Entry, InfosOK
    <2>4. info.depends = IF l.key = "depends" THEN packages[c].depends \o l.values
                         ELSE packages[c].depends
        BY <1>5, <2>3, SetList
    <2> HIDE DEF info
    <2>5. /\ DOMAIN packages' = DOMAIN packages \cup {c} /\ packages'[c] = info
          /\ \A n \in DOMAIN packages \ {c} : packages'[n] = packages[n]
        BY <2>1, PutIs
    <2>6. base'.depends = Listed(NoName)'
        BY <1>2, <1>6, <1>9, <2>1 DEF MidLists
    <2>7. ASSUME NEW n \in DOMAIN packages' PROVE packages'[n].depends = Listed(n)'
        <3>1. CASE n = c
            BY <1>2, <1>6, <2>2, <2>4, <2>5, <3>1 DEF MidLists
        <3>2. CASE n # c
            BY <1>2, <1>6, <2>5, <3>2 DEF MidLists
        <3> QED BY <3>1, <3>2
    <2> QED BY <1>4, <2>6, <2>7 DEF MidLists
<1> QED BY <1>7, <1>8, <1>9

LEMMA InitListInv == Init => ListInv
<1> SUFFICES ASSUME Init PROVE ListInv
    OBVIOUS
<1>1. /\ input = <<>> /\ base = NoInfo /\ DOMAIN packages = {} /\ result = "parsing"
      /\ NoInfo.depends = <<>>
    BY DEF Init, NoInfo
<1>2. \A n : Listed(n) = <<>>
    <2> SUFFICES ASSUME NEW n PROVE Listed(n) = <<>>
        OBVIOUS
    <2>1. DOMAIN input = {}
        BY <1>1
    <2>2. Given(n, "depends") = <<>>
        BY <2>1 DEF Given
    <2> QED BY <2>2 DEF Listed, OwnList, FlattenSeq
<1> QED BY <1>1, <1>2 DEF ListInv, ListsAsMeant, MidLists

LEMMA NextListInv == SInv /\ ListInv /\ [Next]_vars => ListInv'
<1> SUFFICES ASSUME SInv, ListInv, [Next]_vars PROVE ListInv'
    OBVIOUS
<1>0. input \in Seq(Lines) /\ InfosOK
    BY DEF SInv
<1>1. ASSUME NEW l \in Lines, result = "parsing", result' = "error" PROVE ListInv'
    BY <1>1 DEF ListInv, ListsAsMeant
<1>2. ASSUME NEW l \in Lines, result = "parsing", input' = Append(input, l),
             l.key # "malformed", result' = result, apply_key(l.key, l.values)
      PROVE  ListInv'
    <2>1. MidLists'
        <3>1. PICK m : m = Len(input)
            OBVIOUS
        <3>2. MidLists
            BY <1>2 DEF ListInv
        <3> QED BY <1>2, <3>1, <3>2, MidListsLine
    <2> QED BY <1>2, <2>1 DEF ListInv, ListsAsMeant
<1>3. CASE parse_line
    BY <1>1, <1>2, <1>3 DEF parse_line
<1>4. CASE parse_end
    <2>1. /\ result = "parsing" /\ result' = "ok" /\ UNCHANGED <<input, current_pkg, base>>
          /\ DOMAIN packages' = DOMAIN packages
          /\ \A n \in DOMAIN packages : packages'[n] = merge_from(base, packages[n])
        BY <1>4 DEF parse_end
    <2>2. \A n, k : OwnList(n, k)' = OwnList(n, k)
        BY <2>1 DEF OwnList, Given, LinesOf, Owner, NamesBefore
    <2>3. MidLists
        BY <2>1 DEF ListInv
    <2>4. ASSUME NEW n \in DOMAIN packages'
          PROVE  packages'[n].depends = MeantList(n, "depends")'
        <3>1. packages'[n].depends = IF packages[n].depends # <<>> THEN packages[n].depends
                                     ELSE base.depends
            BY <1>0, <2>1 DEF merge_from, InfosOK, Info, Scalar
        <3> QED BY <2>1, <2>2, <2>3, <3>1 DEF MidLists, Listed, MeantList
    <2> QED BY <2>1, <2>2, <2>3, <2>4 DEF ListInv, ListsAsMeant, MidLists, Listed
<1>5. CASE UNCHANGED vars
    <2>1. UNCHANGED <<input, base, packages, result>>
        BY <1>5 DEF vars
    <2>2. /\ \A n, k : OwnList(n, k)' = OwnList(n, k)
          /\ Owners' = Owners
        BY <2>1 DEF OwnList, Given, LinesOf, Owner, NamesBefore, Owners
    <2>3. ListsAsMeant'
        BY <2>1, <2>2 DEF ListInv, ListsAsMeant, MeantList
    <2> QED BY <2>1, <2>2, <2>3 DEF ListInv, MidLists, Listed
<1> QED BY <1>3, <1>4, <1>5 DEF Next

-----------------------------------------------------------------------------
(* Theorems *)

\* Any input is an error exactly if it has a malformed line; otherwise there is
\* one entry for each package with a block of its own, and each scalar is the last
\* one of the package's blocks, or else of the base (srcinfo.rs:141-253).
THEOREM ScalarsMeant == Spec => []ParsesAsMeant
<1>1. SInv => ParsesAsMeant
    BY DEF SInv
<1> QED BY InitSInv, NextSInv, <1>1, PTL DEF Spec

\* And each list has every value of the package's own lines in the order of the
\* input, however its blocks are split up, or else the base's (srcinfo.rs:76-138,
\* 233-251).
THEOREM ListsMeant == Spec => []ListsAsMeant
<1>1. ListInv => ListsAsMeant
    BY DEF ListInv
<1> QED BY InitSInv, NextSInv, InitListInv, NextListInv, <1>1, PTL DEF Spec

\* Of any input that gives the version before the first name, as makepkg writes
\* it, that is the version the worker records for every package (worker.rs:287-290).
THEOREM VersionIsOne == Spec => []OneVersion
<1>1. ParsesAsMeant => OneVersion
    <2> SUFFICES ASSUME ParsesAsMeant, result = "ok",
                        \A i \in DOMAIN input : input[i].key \in Scalar => NamesBefore(i) = {},
                        NEW n \in Names
                 PROVE  full_version_of(n) = full_version(base)
        BY DEF OneVersion
    <2>1. CASE n \notin DOMAIN packages
        BY <2>1 DEF full_version_of
    <2>2. CASE n \in DOMAIN packages
        <3>1. \A i \in DOMAIN input : input[i].key \in Scalar => Owner(i) = NoName
            BY DEF Owner
        <3>2. n # NoName
            BY SrcInfoAssumption DEF SrcInfoAssumption
        <3>3. ASSUME NEW k \in Scalar PROVE packages[n][k] = base[k]
            <4>1. OwnScalar(n, k) = None
                BY <3>1, <3>2 DEF OwnScalar, LinesOf
            <4> QED BY <2>2, <4>1 DEF ParsesAsMeant, MeantScalar
        <3>4. /\ packages[n].pkgver = base.pkgver /\ packages[n].pkgrel = base.pkgrel
              /\ packages[n].epoch = base.epoch
            BY <3>3 DEF Scalar
        <3> QED BY <2>2, <3>4 DEF full_version_of, full_version
    <2> QED BY <2>1, <2>2
<1> QED BY ScalarsMeant, <1>1, PTL
=============================================================================
