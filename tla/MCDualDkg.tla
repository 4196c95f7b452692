------------------------------ MODULE MCDualDkg -----------------------------
(* Alternating protocols of two to four messages, started by either side.  *)
EXTENDS DualDkg

CONSTANTS device, server

MCSessions == {device, server}

Other(op) == IF op = "send" THEN "recv" ELSE "send"

Alternate(first, n) == [i \in 1 .. n |-> IF i % 2 = 1 THEN first ELSE Other(first)]

MCProtocols ==
  {[p \in MCSessions |-> Alternate(IF p = starter THEN "send" ELSE "recv", n)] :
     starter \in MCSessions, n \in 2 .. 4}

\* Only the protocols the first-stepped side starts.
MCDeviceProtocols ==
  {[p \in MCSessions |-> Alternate(IF p = device THEN "send" ELSE "recv", n)] :
     n \in 2 .. 4}

MCScripts == {Alternate(f, n) : f \in {"send", "recv"}, n \in 2 .. 4}
=============================================================================
