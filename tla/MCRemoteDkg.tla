----------------------------- MODULE MCRemoteDkg ----------------------------
(* Alternating protocols of two to four messages, started by either side.  *)
EXTENDS RemoteDkg

CONSTANTS device, server

MCSessions == {device, server}

Other(op) == IF op = "send" THEN "recv" ELSE "send"

Alternate(first, n) == [i \in 1 .. n |-> IF i % 2 = 1 THEN first ELSE Other(first)]

MCScripts == {Alternate(f, n) : f \in {"send", "recv"}, n \in 2 .. 4}

MCProtocols ==
  {[p \in MCSessions |-> Alternate(IF p = starter THEN "send" ELSE "recv", n)] :
     starter \in MCSessions, n \in 2 .. 4}

\* Only the protocols the server starts.
MCServerStarts ==
  {[p \in MCSessions |-> Alternate(IF p = server THEN "send" ELSE "recv", n)] :
     n \in 2 .. 4}

MCBound == [p \in MCSessions |-> 5]
=============================================================================
