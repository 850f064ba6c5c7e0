------------------------------ MODULE MCSrcInfo ------------------------------
(* Every input of a few lines over these. *)
EXTENDS SrcInfo

CONSTANTS a, b, one, two, x, y
MCNames == {a, b}
MCValues == {a, b, one, two, x, y, Empty}
L(key, values) == [key |-> key, values |-> values]
MCLines == {L("pkgname", <<a>>), L("pkgname", <<b>>), L("pkgname", <<>>),
            L("pkgver", <<one>>), L("pkgver", <<two, one>>), L("pkgver", <<>>),
            L("pkgrel", <<one>>), L("epoch", <<two>>), L("epoch", <<Empty>>),
            L("depends", <<x>>), L("depends", <<y, x>>),
            L("other", <<x>>), L("malformed", <<>>)}
=============================================================================
