------------------------------ MODULE RemoteDkg -----------------------------
(***************************************************************************)
(* Key generation between two processes.  The coordinator runs runDkg of   *)
(* packages/coordinator-node in mode "server-only" for a session of its    *)
(* CoordinatorServer, inside the handler of examples/                      *)
(* node-coordinator-server; the device runs runDkg of packages/            *)
(* coordinator-rn in mode "device-only".  Each side has a                  *)
(* WebSocketTransport; one WebSocket joins them.                           *)
(***************************************************************************)
EXTENDS DkgSession

CONSTANTS Device, Server,
          Protocols,   \* the pairs of scripts the two workers may run
          AttachedAs,  \* the participant the device attaches its socket for
          Bound,       \* steps of each loop (256 and 512 in the code)
          DoneSignal   \* the frame 0xff00ff00

ASSUME RemoteAssumption ==
  /\ Device # Server /\ Sessions = {Device, Server}
  /\ Protocols \subseteq [Sessions -> Scripts]
  /\ AttachedAs \in Sessions
  /\ Bound \in [Sessions -> Nat]
  /\ DoneSignal \in Nat \ {NoMsg}

ASSUME ProtocolAssumption ==
  \A pr \in Protocols : Conversation(pr[Device], pr[Server])

\* A protocol has a handful of operations.
ASSUME LoopAssumption ==
  \A pr \in Protocols, p, q \in Sessions : Len(pr[p]) < Bound[q]

VARIABLES mail,    \* frames queued for p in the transport of p's process
          wire,    \* frames on their way to p's process
          link,    \* the WebSocket
          ctxUp,   \* the session is in the server's map, its context alive
          pc,      \* where p's program is
          frame,   \* the frame p's next step takes
          steps,   \* i, the steps taken
          saved,   \* p's share is in p's storage
          broken   \* history: the connection or the storage failed

remoteVars == <<mail, wire, link, ctxUp, pc, frame, steps, saved, broken>>
systemVars == <<allVars, remoteVars>>

PC == {"wait",      \* polling receive()
       "step", "stepping",
       "finalize", "finwait", "release", "save",
       "signal", "close", "closed",  \* the server's handler only
       "ok", "failed"}               \* the device only

Peer(p) == IF p = Device THEN Server ELSE Device

RemoteInit ==
  /\ DkgInit
  /\ script \in Protocols
  /\ mail = [p \in Sessions |-> <<>>]
  /\ wire = [p \in Sessions |-> <<>>]
  /\ link = "open"
  /\ ctxUp = TRUE
  /\ pc = [p \in Sessions |-> IF p = Server THEN "step" ELSE "wait"]
  /\ frame = [p \in Sessions |-> NoMsg]
  /\ steps = [p \in Sessions |-> 0]
  /\ saved = [p \in Sessions |-> FALSE]
  /\ broken = FALSE

-----------------------------------------------------------------------------
(* Helpers.                                                                *)

ProgramGoes(p, from, to) == pc[p] = from /\ pc' = [pc EXCEPT ![p] = to]

\* Where an exception takes p's program: out of runDkg.
Rejected(p) == IF p = Server THEN "close" ELSE "failed"

HasContext(p) == p = Server => ctxUp

\* p's JavaScript thread is inside a native call and handles no events.  Steps
\* of the server run on the libuv pool.
Busy(p) ==
  pc[p] \in {"finwait", "release"} \cup (IF p = Device THEN {"stepping"} ELSE {})

\* send() of the server queues the frame, for nobody, when the socket is not
\* open.  The device's throws, see DeviceSendThrows.
Sent(p, f) ==
  wire' = IF f # NoMsg /\ (p = Server => link = "open")
          THEN [wire EXCEPT ![Peer(p)] = Append(@, f)] ELSE wire

-----------------------------------------------------------------------------
(* The loop, the same on both sides but for where it is entered.           *)

\* receive() finds nothing and a timer is set.
Poll(p) ==
  /\ pc[p] = "wait" /\ mail[p] = <<>>
  /\ UNCHANGED systemVars

Receive(p) ==
  /\ mail[p] # <<>>
  /\ ProgramGoes(p, "wait", IF steps[p] < Bound[p] THEN "step" ELSE "finalize")
  /\ frame' = [frame EXCEPT ![p] = Head(mail[p])]
  /\ mail' = [mail EXCEPT ![p] = Tail(@)]
  /\ UNCHANGED <<allVars, wire, link, ctxUp, steps, saved, broken>>

BeginStep(p) ==
  /\ HasContext(p)
  /\ ProgramGoes(p, "step", "stepping")
  /\ StepCall(p, frame[p])
  /\ frame' = [frame EXCEPT ![p] = NoMsg]
  /\ steps' = [steps EXCEPT ![p] = @ + 1]
  /\ UNCHANGED <<dkgVars, mail, wire, link, ctxUp, saved, broken>>

Answered(p) == pc[p] = "stepping" /\ cpc[p] = "idle"

\* Slip: a step without a message to send is taken for the last one.
SteppedTilSilent(p) ==
  /\ Answered(p) /\ reply[p].state # "error"
  /\ p = Device /\ reply[p].msg # NoMsg =>
       AttachedAs = Server /\ link # "closed"
  /\ Sent(p, reply[p].msg)
  /\ ProgramGoes(p, "stepping",
       IF reply[p].msg = NoMsg THEN "finalize" ELSE "wait")
  /\ UNCHANGED <<allVars, mail, link, ctxUp, frame, steps, saved, broken>>

\* The step was answered: send what it produced, leave the loop or wait.
Stepped(p) ==
  /\ Answered(p) /\ reply[p].state # "error"
  /\ p = Device /\ reply[p].msg # NoMsg =>
       AttachedAs = Server /\ link # "closed"
  /\ Sent(p, reply[p].msg)
  /\ ProgramGoes(p, "stepping",
       IF reply[p].state = "done" THEN "finalize" ELSE "wait")
  /\ UNCHANGED <<allVars, mail, link, ctxUp, frame, steps, saved, broken>>

DeviceSendThrows ==
  /\ Answered(Device) /\ reply[Device].msg # NoMsg
  /\ reply[Device].state # "error" /\ link = "closed"
  /\ ProgramGoes(Device, "stepping", "failed")
  /\ UNCHANGED <<allVars, mail, wire, link, ctxUp, frame, steps, saved, broken>>

\* The step failed, was refused for want of a context, or lost its context on
\* the way: then the copy of the answer reads freed memory, and may throw.
StepThrows(p) ==
  /\ \/ Answered(p) /\ reply[p].state = "error"
     \/ Answered(p) /\ ~HasContext(p)
     \/ pc[p] = "step" /\ ~HasContext(p)
  /\ pc' = [pc EXCEPT ![p] = Rejected(p)]
  /\ UNCHANGED <<allVars, mail, wire, link, ctxUp, frame, steps, saved, broken>>

-----------------------------------------------------------------------------
(* dkgFinalize, and what the two programs do with the keypair.             *)

BeginFinalize(p) ==
  /\ HasContext(p)
  /\ ProgramGoes(p, "finalize", "finwait")
  /\ FinalizeCall(p)
  /\ UNCHANGED <<dkgVars, mail, wire, link, ctxUp, frame, steps, saved, broken>>

FinalizeThrows(p) ==
  /\ pc[p] = "finalize" /\ ~HasContext(p)
  /\ pc' = [pc EXCEPT ![p] = Rejected(p)]
  /\ UNCHANGED <<allVars, mail, wire, link, ctxUp, frame, steps, saved, broken>>

\* maany_mpc_dkg_finalize destroys the session it took the keypair from.  A
\* Finalize that throws has no action here: it would be a deadlock.
Release(p) ==
  /\ finalized[p] = "keypair"
  /\ ProgramGoes(p, "finwait", "release")
  /\ FreeCall(p)
  /\ UNCHANGED <<dkgVars, mail, wire, link, ctxUp, frame, steps, saved, broken>>

HaveKeypair(p) ==
  /\ cpc[p] = "freed"
  /\ ProgramGoes(p, "release", "save")
  /\ UNCHANGED <<allVars, mail, wire, link, ctxUp, frame, steps, saved, broken>>

\* Store the share, which may be rejected; on the device create a backup after
\* that, which may throw.
Save(p) ==
  /\ \/ /\ ProgramGoes(p, "save", IF p = Server THEN "signal" ELSE "ok")
        /\ saved' = [saved EXCEPT ![p] = TRUE]
        /\ UNCHANGED broken
     \/ /\ ProgramGoes(p, "save", Rejected(p))
        /\ \/ UNCHANGED saved
           \/ p = Device /\ saved' = [saved EXCEPT ![p] = TRUE]
        /\ broken' = TRUE
  /\ UNCHANGED <<allVars, mail, wire, link, ctxUp, frame, steps>>

\* Slip: the signal is not sent.
SignalNothing ==
  /\ ProgramGoes(Server, "signal", "close")
  /\ UNCHANGED <<allVars, mail, wire, link, ctxUp, frame, steps, saved, broken>>

SendDoneSignal ==
  /\ ProgramGoes(Server, "signal", "close")
  /\ Sent(Server, DoneSignal)
  /\ UNCHANGED <<allVars, mail, link, ctxUp, frame, steps, saved, broken>>

\* cleanupSession: close the socket, shut the context down, forget the session;
\* nothing, if that was done before.
CloseSession ==
  /\ ProgramGoes(Server, "close", "closed")
  /\ link' = IF ctxUp /\ link = "open" THEN "closing" ELSE link
  /\ ctxUp' = FALSE
  /\ UNCHANGED <<allVars, mail, wire, frame, steps, saved, broken>>

Program(p) ==
  \/ Receive(p) \/ BeginStep(p) \/ Stepped(p) \/ StepThrows(p)
  \/ BeginFinalize(p) \/ FinalizeThrows(p) \/ Release(p) \/ HaveKeypair(p)
  \/ Save(p)
  \/ p = Device /\ DeviceSendThrows
  \/ p = Server /\ (SendDoneSignal \/ CloseSession)

-----------------------------------------------------------------------------
(* The WebSocket.                                                          *)

\* Slip: a frame is queued by each of two listeners.
DeliverTwice(p) ==
  /\ link # "closed" /\ wire[p] # <<>> /\ ~Busy(p)
  /\ wire' = [wire EXCEPT ![p] = Tail(@)]
  /\ mail' = [mail EXCEPT ![p] = @ \o <<Head(wire[p]), Head(wire[p])>>]
  /\ UNCHANGED <<allVars, link, ctxUp, pc, frame, steps, saved, broken>>

\* A frame from the socket of one participant is queued for the other one.  If
\* the device attached its socket as its own, that is not the device.
Deliver(p) ==
  /\ link # "closed" /\ wire[p] # <<>> /\ ~Busy(p)
  /\ wire' = [wire EXCEPT ![p] = Tail(@)]
  /\ mail' = IF p = Device /\ AttachedAs = Device THEN mail
             ELSE [mail EXCEPT ![p] = Append(@, Head(wire[p]))]
  /\ UNCHANGED <<allVars, link, ctxUp, pc, frame, steps, saved, broken>>

\* The server closed the socket: the device is told after the last frame.
DeviceSeesClose ==
  /\ link = "closing" /\ wire[Device] = <<>> /\ ~Busy(Device)
  /\ link' = "closed"
  /\ UNCHANGED <<allVars, mail, wire, ctxUp, pc, frame, steps, saved, broken>>

\* The connection breaks, and what was under way is lost.
Disconnect ==
  /\ link = "open"
  /\ link' = "closed" /\ broken' = TRUE
  /\ wire' = [p \in Sessions |-> <<>>]
  /\ UNCHANGED <<allVars, mail, ctxUp, pc, frame, steps, saved>>

\* The server's socket reports its close: cleanupSession.
ServerSeesClose ==
  /\ link = "closed" /\ ctxUp /\ ~Busy(Server)
  /\ ctxUp' = FALSE
  /\ UNCHANGED <<allVars, mail, wire, link, pc, frame, steps, saved, broken>>

Over ==
  /\ pc[Server] = "closed" /\ pc[Device] \in {"ok", "failed"}
  /\ UNCHANGED systemVars

RemoteNext ==
  \/ \E p \in Sessions :
       \/ Program(p) \/ Poll(p) \/ Deliver(p)
       \/ (DkgWorker(p) \/ DkgInCall(p)) /\ UNCHANGED remoteVars
       \/ SpuriousWake(p) /\ UNCHANGED <<dkgVars, remoteVars>>
  \/ DeviceSeesClose \/ Disconnect \/ ServerSeesClose
  \/ Over

RemoteSpec == RemoteInit /\ [][RemoteNext]_systemVars

\* The scheduler runs the workers and both JavaScript threads, whose timers
\* fire, and an open connection delivers.
RemoteFairness ==
  /\ \A p \in Sessions :
       /\ WF_systemVars(DkgWorker(p) /\ UNCHANGED remoteVars)
       /\ WF_systemVars(DkgInCall(p) /\ UNCHANGED remoteVars)
       /\ WF_systemVars(Program(p))
       /\ WF_systemVars(Deliver(p))
  /\ WF_systemVars(DeviceSeesClose) /\ WF_systemVars(ServerSeesClose)

FairRemoteSpec == RemoteSpec /\ RemoteFairness

-----------------------------------------------------------------------------
(* Properties.                                                             *)

\* dkgFinalize blocks a JavaScript thread until the worker ends: it is called
\* only for a session whose worker has ended, whatever was lost before.
FinalizeNeverBlocks ==
  \A p \in Sessions : pc[p] \in {"finalize", "finwait"} => workerDone[p]

\* Two stored shares come from one whole conversation.
SharesMatch ==
  (\A p \in Sessions : saved[p]) =>
    \A p \in Sessions : Len(consumed[p]) = sent[Peer(p)]

\* Two processes, two transports and a connection that may break carry an
\* exchange, and the completion signal is never taken for a message of it.
Carried == INSTANCE Exchange WITH
             Party <- Sessions, Peer <- Peer,
             said <- sent, heard <- consumed,
             keyed <- [p \in Sessions |-> issued[p] > 0]

CarriesExchange == Carried!ExchangeSpec

\* p's program waits for its peer, and its session has something to tell it.
Overlooked(p) == pc[p] = "wait" /\ (outbound[p] # NoMsg \/ workerDone[p])

Undisturbed == ~broken /\ \A p \in Sessions : ~fatal[p]

\* A run that nothing disturbs ends with a key on each side and the session
\* closed, unless a program goes back to waiting with work left to do.  The
\* signal makes up for a device that overlooked its own end, and for nothing else.
EndsUnlessOverlooked ==
  []Undisturbed =>
    \/ <>[](~ctxUp /\ \A p \in Sessions : saved[p])
    \/ <>[](Overlooked(Server) \/ Stuck(Server))
    \/ <>[](Overlooked(Device) /\ outbound[Device] # NoMsg)

\* packages/coordinator-rn/README.md: connect with "participant: 'device'" "will
\* attach the device to a remote server".  What the server sends first reaches
\* the device's protocol.
FirstFrameArrives ==
  []Undisturbed => (sent[Server] > 0 ~> consumed[Device] # <<>>)

=============================================================================
