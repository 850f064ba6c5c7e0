------------------------------- MODULE MCAdmin -------------------------------
(* One remote browser, `paur passwd`, and runs of `paur flag`. *)
EXTENDS Admin

CONSTANTS low_memory, no_ccache, v3
TwoFlags == {low_memory, no_ccache}
OneVariant == {v3}

\* One flag on, another off, and the variant; and the variant alone.
OneCommand  == {[on |-> {low_memory}, off |-> {no_ccache}, toggle |-> {v3}]}
ToggleOnly  == {[on |-> {}, off |-> {}, toggle |-> {v3}]}
=============================================================================
