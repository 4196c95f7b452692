------------------------------- MODULE DualDkg ------------------------------
(***************************************************************************)
(* runDkg of packages/coordinator-node in mode "dual": one process steps a *)
(* device and a server session in turn, carries their messages through an  *)
(* InMemoryTransport, and finalizes both.  It is the loop README.md tells  *)
(* every client to run.                                                    *)
(***************************************************************************)
EXTENDS DkgSession

CONSTANTS Device, Server,
          First,       \* who is stepped first in each iteration
          Protocols,   \* the pairs of scripts the two workers may run
          LoopBound    \* bound on the iterations of the loop (128 in the code)

ASSUME DualAssumption ==
  /\ Device # Server /\ Sessions = {Device, Server}
  /\ First \in Sessions
  /\ Protocols \subseteq [Sessions -> Scripts]
  /\ LoopBound \in Nat

ASSUME ProtocolAssumption ==
  \A pr \in Protocols : Conversation(pr[Device], pr[Server])

\* A protocol has a handful of operations.
ASSUME LoopAssumption ==
  \A pr \in Protocols, p \in Sessions : Len(pr[p]) < LoopBound

VARIABLES queues,   \* InMemoryTransport: the messages for each participant
          turn,     \* the session the driver is at
          dpc,      \* where the driver is
          done,     \* deviceDone, serverDone
          rounds    \* i, the iterations completed

driverVars == <<queues, turn, dpc, done, rounds>>
dualVars   == <<allVars, driverVars>>

DriverPC == {"loop", "step", "finalize", "finwait", "release", "ok", "failed"}

Peer(p) == IF p = Device THEN Server ELSE Device

DualInit ==
  /\ DkgInit
  /\ script \in Protocols
  /\ queues = [p \in Sessions |-> <<>>]
  /\ turn = First
  /\ dpc = "loop"
  /\ done = [p \in Sessions |-> FALSE]
  /\ rounds = 0

-----------------------------------------------------------------------------
(* The loop.                                                               *)

\* Slip: the loop stops as soon as one session is done.
LoopWhileBoth == rounds < LoopBound /\ \A p \in Sessions : ~done[p]

LoopGoesOn == rounds < LoopBound /\ \E p \in Sessions : ~done[p]

\* The next half of the iteration, or the next iteration.
Advance(p) ==
  /\ turn' = Peer(p)
  /\ rounds' = IF p = First THEN rounds ELSE rounds + 1

\* receive() takes the oldest message for the participant, or null, and the
\* session is stepped with it.
DriverStep(p) ==
  /\ dpc = "loop" /\ turn = p /\ ~done[p]
  /\ p = First => LoopGoesOn
  /\ dpc' = "step"
  /\ \/ /\ queues[p] = <<>>
        /\ StepCall(p, NoMsg)
        /\ UNCHANGED queues
     \/ /\ queues[p] # <<>>
        /\ StepCall(p, Head(queues[p]))
        /\ queues' = [queues EXCEPT ![p] = Tail(@)]
  /\ UNCHANGED <<dkgVars, turn, done, rounds>>

DriverSkip(p) ==
  /\ dpc = "loop" /\ turn = p /\ done[p]
  /\ p = First => LoopGoesOn
  /\ Advance(p)
  /\ UNCHANGED <<allVars, queues, dpc, done>>

\* Slip: the answer is sent twice.
DriverResends(p) ==
  /\ dpc = "step" /\ turn = p /\ cpc[p] = "idle"
  /\ reply[p].state # "error"
  /\ dpc' = "loop"
  /\ queues' = IF reply[p].msg = NoMsg THEN queues
               ELSE [queues EXCEPT ![Peer(p)] = @ \o <<reply[p].msg, reply[p].msg>>]
  /\ done' = [done EXCEPT ![p] = (reply[p].state = "done")]
  /\ Advance(p)
  /\ UNCHANGED allVars

\* The step was answered: send what it produced to the peer.
DriverStepped(p) ==
  /\ dpc = "step" /\ turn = p /\ cpc[p] = "idle"
  /\ reply[p].state # "error"
  /\ dpc' = "loop"
  /\ queues' = IF reply[p].msg = NoMsg THEN queues
               ELSE [queues EXCEPT ![Peer(p)] = Append(@, reply[p].msg)]
  /\ done' = [done EXCEPT ![p] = (reply[p].state = "done")]
  /\ Advance(p)
  /\ UNCHANGED allVars

\* The step threw: runDkg rejects, both sessions are left behind.
DriverThrows(p) ==
  /\ dpc = "step" /\ turn = p /\ cpc[p] = "idle"
  /\ reply[p].state = "error"
  /\ dpc' = "failed"
  /\ UNCHANGED <<allVars, queues, turn, done, rounds>>

-----------------------------------------------------------------------------
(* After the loop: dkgFinalize for the device, then for the server.        *)

LeaveLoop ==
  /\ dpc = "loop" /\ turn = First /\ ~LoopGoesOn
  /\ dpc' = "finalize" /\ turn' = Device
  /\ UNCHANGED <<allVars, queues, done, rounds>>

DriverFinalize(p) ==
  /\ dpc = "finalize" /\ turn = p
  /\ FinalizeCall(p)
  /\ dpc' = "finwait"
  /\ UNCHANGED <<dkgVars, queues, turn, done, rounds>>

\* maany_mpc_dkg_finalize destroys the session it took the keypair from.  A
\* Finalize that throws has no action here: it would be a deadlock.
DriverRelease(p) ==
  /\ dpc = "finwait" /\ turn = p /\ finalized[p] = "keypair"
  /\ FreeCall(p)
  /\ dpc' = "release"
  /\ UNCHANGED <<dkgVars, queues, turn, done, rounds>>

DriverNext(p) ==
  /\ dpc = "release" /\ turn = p /\ cpc[p] = "freed"
  /\ dpc' = IF p = Device THEN "finalize" ELSE "ok"
  /\ turn' = Server
  /\ UNCHANGED <<allVars, queues, done, rounds>>

Driver(p) ==
  \/ DriverStep(p) \/ DriverSkip(p) \/ DriverStepped(p) \/ DriverThrows(p)
  \/ DriverFinalize(p) \/ DriverRelease(p) \/ DriverNext(p)

\* The garbage collector frees the sessions of a rejected run, if it likes.
Collect(p) ==
  /\ dpc = "failed"
  /\ FreeCall(p)
  /\ UNCHANGED <<dkgVars, driverVars>>

Over ==
  /\ dpc \in {"ok", "failed"}
  /\ UNCHANGED dualVars

DualNext ==
  \/ \E p \in Sessions :
       \/ Driver(p)
       \/ (DkgWorker(p) \/ DkgInCall(p)) /\ UNCHANGED driverVars
       \/ SpuriousWake(p) /\ UNCHANGED <<dkgVars, driverVars>>
       \/ Collect(p)
  \/ LeaveLoop
  \/ Over

DualSpec == DualInit /\ [][DualNext]_dualVars

\* The scheduler runs the workers and the driver's thread, and the driver
\* does not stop between two calls.
DualFairness ==
  /\ \A p \in Sessions :
       /\ WF_dualVars(DkgWorker(p) /\ UNCHANGED driverVars)
       /\ WF_dualVars(DkgInCall(p) /\ UNCHANGED driverVars)
       /\ WF_dualVars(Driver(p))
  /\ WF_dualVars(LeaveLoop)

FairDualSpec == DualSpec /\ DualFairness

-----------------------------------------------------------------------------
(* Properties.                                                             *)

\* The loop ends only because both sessions are done: its bound is never what
\* stops it, and the Finalize calls that follow never wait for a worker.
FinalizeNeverWaits ==
  dpc \in {"finalize", "finwait"} => \A p \in Sessions : done[p] /\ workerDone[p]

\* When runDkg succeeds, each side consumed exactly what the other one sent,
\* both were given one keypair, and nothing is left in flight.
BothKeysOrNone ==
  dpc = "ok" =>
    \A p \in Sessions :
      /\ issued[p] = 1 /\ Len(consumed[p]) = sent[Peer(p)]
      /\ queues[p] = <<>> /\ outbound[p] = NoMsg /\ inboundQueue[p] = <<>>

\* The driver and the two sessions carry an exchange: no message is lost in
\* the single outbound slot, repeated or reordered, and no key comes out of an
\* exchange that is not complete.
Carried == INSTANCE Exchange WITH
             Party <- Sessions, Peer <- Peer,
             said <- sent, heard <- consumed,
             keyed <- [p \in Sessions |-> issued[p] > 0]

CarriesExchange == Carried!ExchangeSpec

\* README.md: "exchange messages by alternating" step calls until both sides
\* yield MAANY_MPC_STEP_DONE.  A run in which neither protocol fails ends with
\* both keypairs.
Completes == [](\A p \in Sessions : ~fatal[p]) => <>(dpc = "ok")

\* The loop ends, unless a Step call is stuck on a wait it took for granted.
TerminatesUnlessStuck ==
  <>(dpc \in {"ok", "failed"}) \/ <>[](\E p \in Sessions : Stuck(p))

=============================================================================
