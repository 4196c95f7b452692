---------------------------- MODULE MCDkgSession ----------------------------
(* One key-generation session under any client, with short scripts.        *)
EXTENDS DkgSession

CONSTANTS s1

MCSessions == {s1}
MCScripts == UNION {[1 .. n -> {"send", "recv"}] : n \in 0 .. 3}
MCInbound == {1}
=============================================================================
