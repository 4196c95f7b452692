--------------------------- MODULE RemoteDkgProofs --------------------------
(***************************************************************************)
(* Safety of key generation between two processes, for any protocol in     *)
(* which the two parties take turns and a connection that may break at any *)
(* time: whatever was lost, no key comes out of half a conversation, the   *)
(* completion signal is not taken for a message, and no Finalize blocks.   *)
(*                                                                         *)
(* The argument: at most one message of the conversation is on its way at  *)
(* any time, and only the signal may follow it.  A message that is lost    *)
(* leaves both sides waiting for ever, and the server signals over the     *)
(* connection that lost it, or not at all.  A step is taken for a frame,   *)
(* so that the bounds of the loops are never reached.                      *)
(***************************************************************************)
EXTENDS RemoteDkg, DkgSessionProofs

\* What has reached q's process.
Held(q) ==
  inboundQueue[q] \o (Opt(inbound[q]) \o (Opt(frame[q]) \o mail[q]))

\* What will reach it, if the connection holds.
Coming(q) ==
  IF link = "closed" \/ (q = Device /\ AttachedAs = Device) THEN <<>> ELSE wire[q]

\* What p's session has handed out or is about to.
InTransit(p) ==
  IF pc[p] = "stepping" /\ cpc[p] = "idle" THEN Opt(reply[p].msg) ELSE <<>>

Uttered(p) == InTransit(p) \o Opt(outbound[p])

\* All that is on its way to q, the oldest first.
Flight(q) == Held(q) \o (Coming(q) \o Uttered(Peer(q)))

RemoteTypeOK ==
  /\ mail \in [Sessions -> Seq(Nat \ {NoMsg})]
  /\ wire \in [Sessions -> Seq(Nat \ {NoMsg})]
  /\ link \in {"open", "closing", "closed"}
  /\ pc \in [Sessions -> PC]
  /\ frame \in [Sessions -> Nat]
  /\ steps \in [Sessions -> Nat]
  /\ saved \in [Sessions -> BOOLEAN]

\* Where the programs are, and what they may rely on there.
Ended(p) == workerDone[p] /\ script[p] = <<>> /\ outbound[p] = NoMsg

Stage ==
  /\ \A p \in Sessions :
       /\ cpc[p] \in {"push", "check"} => pc[p] = "stepping"
       /\ cpc[p] = "finwait" => pc[p] = "finwait"
       /\ pc[p] \in {"wait", "stepping"} => frame[p] = NoMsg
       /\ pc[p] \in {"finalize", "finwait", "release", "save", "signal"} => Ended(p)
       /\ pc[p] \in {"release", "save", "signal"} => issued[p] = 1
       /\ saved[p] => issued[p] = 1
  /\ link = "closing" => pc[Server] = "closed"

\* The server may have sent its signal, which is the last thing it sends.
Told ==
  /\ pc[Server] \in {"close", "closed"}
  /\ script[Server] = <<>> /\ outbound[Server] = NoMsg

Trailing == {<<>>} \cup {t \in {<<DoneSignal>>} : Told}

\* Both are at the same point, and no message is on its way.
Level ==
  /\ Conversation(script[Device], script[Server])
  /\ Flight(Server) = <<>> /\ Flight(Device) \in Trailing
  /\ \A p \in Sessions : Len(consumed[p]) = sent[Peer(p)]

\* p has sent a message its peer has not heard.
Leads(p) ==
  /\ Ahead(script[p], script[Peer(p)])
  /\ Len(consumed[p]) = sent[Peer(p)]
  /\ Len(consumed[Peer(p)]) + 1 = sent[p]

\* No signal can reach the device any more.
Cut == link = "closed" \/ AttachedAs = Device \/ pc[Server] \in {"close", "closed"}

ServerLeads ==
  /\ Leads(Server) /\ Flight(Server) = <<>>
  /\ \/ Flight(Device) = <<>> /\ Cut
     \/ \E t \in Trailing : Flight(Device) = <<sent[Server]>> \o t

DeviceLeads ==
  /\ Leads(Device) /\ Flight(Device) = <<>>
  /\ Flight(Server) \in {<<>>, <<sent[Device]>>}

Lockstep == Level \/ ServerLeads \/ DeviceLeads

\* The frames p has passed to its session, or holds ready for it.
Taken(p) ==
  Len(consumed[p]) + Len(inboundQueue[p]) + Len(Opt(inbound[p])) + Len(Opt(frame[p]))

\* Each step is taken for a frame, but for the server's first.
Counted(p) ==
  steps[p] + (IF pc[p] = "step" THEN 1 ELSE 0)
    <= Taken(p) + (IF p = Server THEN 1 ELSE 0)

SessionsKept ==
  SessionInv /\ \A p, q \in Sessions : Work(p, Bound[q])

RemoteInv ==
  /\ SessionsKept /\ RemoteTypeOK /\ Stage /\ Lockstep
  /\ \A p \in Sessions : Counted(p)
-----------------------------------------------------------------------------
(* The two parties, and the steps of their sessions.                       *)

LEMMA PeerOf ==
  ASSUME NEW p \in Sessions
  PROVE  /\ Peer(p) \in Sessions /\ Peer(p) # p /\ Peer(Peer(p)) = p
         /\ \A q \in Sessions : q = p \/ q = Peer(p)
         /\ Device \in Sessions /\ Server \in Sessions /\ Device # Server
         /\ Peer(Device) = Server /\ Peer(Server) = Device
BY RemoteAssumption DEF Peer

\* The kinds of step: of a session, of a program, of the connection.
InSession(p) == SessionMoves(p) /\ UNCHANGED remoteVars

ConnectionMoves ==
  \/ \E p \in Sessions : Deliver(p)
  \/ DeviceSeesClose \/ Disconnect \/ ServerSeesClose

LEMMA RemoteStepKinds ==
  ASSUME [RemoteNext]_systemVars
  PROVE  \/ \E p \in Sessions : InSession(p) \/ Program(p)
         \/ ConnectionMoves
         \/ UNCHANGED systemVars
BY DEF RemoteNext, Poll, Over, InSession, SessionMoves, ConnectionMoves, remoteVars

\* A program calls its session.
Calls(p) == BeginStep(p) \/ BeginFinalize(p) \/ Release(p)

\* Or it does not.
Alone(p) ==
  \/ Receive(p) \/ Stepped(p) \/ StepThrows(p) \/ FinalizeThrows(p)
  \/ HaveKeypair(p) \/ Save(p)
  \/ p = Device /\ DeviceSendThrows
  \/ p = Server /\ (SendDoneSignal \/ CloseSession)

LEMMA ProgramKinds ==
  ASSUME RemoteTypeOK, NEW p \in Sessions, Program(p)
  PROVE  \/ Calls(p) /\ AnyCall(p) /\ UNCHANGED dkgVars
         \/ Alone(p) /\ UNCHANGED allVars
<1>1. ASSUME Calls(p) PROVE AnyCall(p) /\ UNCHANGED dkgVars
  <2>1. frame[p] \in Nat
    BY DEF RemoteTypeOK
  <2>2. QED BY <1>1, <2>1 DEF Calls, BeginStep, BeginFinalize, Release, AnyCall
<1>2. ASSUME Alone(p) PROVE UNCHANGED allVars
  BY <1>2 DEF Alone, Receive, Stepped, StepThrows, FinalizeThrows, HaveKeypair, Save,
     DeviceSendThrows, SendDoneSignal, CloseSession
<1>3. QED BY <1>1, <1>2 DEF Program, Calls, Alone

LEMMA ConnectionAlone == ASSUME ConnectionMoves PROVE UNCHANGED allVars
BY DEF ConnectionMoves, Deliver, DeviceSeesClose, Disconnect, ServerSeesClose

\* What a program does to a session is to call it, or nothing.
LEMMA RemoteNextIsStep ==
  ASSUME RemoteTypeOK, [RemoteNext]_systemVars
  PROVE  UNCHANGED allVars \/ \E p \in Sessions : DkgStep(p)
BY RemoteStepKinds, ProgramKinds, ConnectionAlone
   DEF InSession, SessionMoves, DkgStep, systemVars

\* What every driven session keeps.
LEMMA SessionsStep ==
  ASSUME SessionsKept, RemoteTypeOK, [RemoteNext]_systemVars
  PROVE  SessionsKept'
<1> USE DEF SessionsKept
<1>1. CASE UNCHANGED allVars
  <2>1. SessionInv'
    BY <1>1, SessionStutter
  <2>2. ASSUME NEW p \in Sessions, NEW q \in Sessions PROVE Work(p, Bound[q])'
    <3>1. UNCHANGED <<sent, waitRequestId, wpc, script>>
      BY <1>1 DEF allVars, vars, members, workerVars, history
    <3>2. QED BY <3>1 DEF Work
  <2>3. QED BY <2>1, <2>2
<1>2. ASSUME NEW p \in Sessions, DkgStep(p) PROVE SessionsKept'
  <2>1. Inv /\ DkgInv
    BY DEF SessionInv
  <2>2. SessionInv'
    BY <1>2, SessionStep
  <2>3. ASSUME NEW r \in Sessions, NEW q \in Sessions PROVE Work(r, Bound[q])'
    <3>1. Bound[q] \in Nat /\ Work(r, Bound[q])
      BY RemoteAssumption
    <3>2. Work(r, Bound[q])'
      BY <1>2, <2>1, <3>1, WorkStep
    <3>3. QED BY <3>2
  <2>4. QED BY <2>2, <2>3
<1>3. QED BY <1>1, <1>2, RemoteNextIsStep

\* What a step of a session does.
LEMMA InSessionEffect ==
  ASSUME SessionsKept, NEW p \in Sessions, InSession(p)
  PROVE  /\ UNCHANGED <<mail, wire, link, pc, frame, steps, saved>>
         /\ \A q \in Sessions : workerDone[q] => workerDone'[q]
         /\ \A q \in Sessions : issued[q] = 1 => issued'[q] = 1
         /\ Says(p) \/ Hears(p) => UNCHANGED <<cpc, inbound, reply, issued>>
         /\ \/ Says(p) \/ Hears(p)
            \/ /\ UNCHANGED <<script, sent, consumed>>
               /\ HandsOut(p) \/ Returns(p) \/ Pushes(p) \/ Stays(p)
BY SessionMovesEffect DEF InSession, SessionsKept, remoteVars

\* What a program does to its session when it calls it.
LEMMA CallEffect ==
  ASSUME NEW p \in Sessions, Calls(p)
  PROVE  /\ UNCHANGED <<script, sent, consumed, outbound, inboundQueue, workerDone,
                        reply, issued>>
         /\ cpc[p] = "idle"
         /\ \/ /\ pc[p] = "step" /\ pc' = [pc EXCEPT ![p] = "stepping"]
               /\ cpc' = [cpc EXCEPT ![p] = IF frame[p] = NoMsg THEN "check" ELSE "push"]
               /\ inbound' = [inbound EXCEPT ![p] = frame[p]]
               /\ frame' = [frame EXCEPT ![p] = NoMsg]
               /\ steps' = [steps EXCEPT ![p] = @ + 1]
            \/ /\ pc[p] = "finalize" /\ pc' = [pc EXCEPT ![p] = "finwait"]
               /\ cpc' = [cpc EXCEPT ![p] = "finwait"]
               /\ UNCHANGED <<inbound, frame, steps>>
            \/ /\ pc[p] = "finwait" /\ pc' = [pc EXCEPT ![p] = "release"]
               /\ finalized[p] = "keypair"
               /\ cpc' = [cpc EXCEPT ![p] = "free"]
               /\ UNCHANGED <<inbound, frame, steps>>
         /\ UNCHANGED <<mail, wire, link, saved>>
<1> USE DEF CallerGoes, ProgramGoes, members, workerVars, history, dkgVars
<1>1. CASE BeginStep(p)
  BY <1>1 DEF BeginStep, StepCall
<1>2. CASE BeginFinalize(p)
  BY <1>2 DEF BeginFinalize, FinalizeCall
<1>3. CASE Release(p)
  BY <1>3 DEF Release, FreeCall
<1>4. QED BY <1>1, <1>2, <1>3 DEF Calls

\* What is left alone when no session moves.
LEMMA SessionsAlone ==
  ASSUME UNCHANGED allVars
  PROVE  UNCHANGED <<script, sent, consumed, outbound, inboundQueue, inbound, cpc,
                     reply, workerDone, issued>>
BY DEF allVars, vars, members, workerVars, callerVars, history, dkgVars

-----------------------------------------------------------------------------
(* Types.                                                                  *)

LEMMA SentType ==
  ASSUME RemoteTypeOK, NEW p \in Sessions, NEW f \in Nat, Sent(p, f)
  PROVE  wire' \in [Sessions -> Seq(Nat \ {NoMsg})]
<1>1. CASE f # NoMsg
  <2>1. Append(wire[Peer(p)], f) \in Seq(Nat \ {NoMsg})
    BY <1>1, PeerOf, AppendProperties DEF RemoteTypeOK
  <2>2. QED BY <2>1 DEF Sent, RemoteTypeOK
<1>2. CASE f = NoMsg
  BY <1>2 DEF Sent, RemoteTypeOK
<1>3. QED BY <1>1, <1>2

LEMMA RemoteTypeStep ==
  ASSUME SessionsKept, RemoteTypeOK, [RemoteNext]_systemVars
  PROVE  RemoteTypeOK'
<1> USE DEF RemoteTypeOK, PC, ProgramGoes
<1>1. CASE UNCHANGED <<mail, wire, link, pc, frame, steps, saved>>
  BY <1>1
<1>2. ASSUME NEW p \in Sessions, Calls(p) PROVE RemoteTypeOK'
  <2>1. UNCHANGED <<mail, wire, link, saved>>
    BY <1>2, CallEffect
  <2>2. \E to \in PC : pc' = [pc EXCEPT ![p] = to]
    BY <1>2, CallEffect
  <2>3. /\ frame' = frame \/ frame' = [frame EXCEPT ![p] = NoMsg]
        /\ steps' = steps \/ steps' = [steps EXCEPT ![p] = @ + 1]
    BY <1>2, CallEffect
  <2>4. frame' \in [Sessions -> Nat]
    <3>1. frame \in [Sessions -> Nat] /\ NoMsg \in Nat
      BY DEF NoMsg
    <3>2. QED BY <2>3, <3>1
  <2>5. steps' \in [Sessions -> Nat]
    <3>1. steps \in [Sessions -> Nat] /\ steps[p] + 1 \in Nat
      OBVIOUS
    <3>2. QED BY <2>3, <3>1
  <2>6. QED BY <2>1, <2>2, <2>4, <2>5
<1>3. ASSUME NEW p \in Sessions, Receive(p) PROVE RemoteTypeOK'
  <2>1. mail[p] \in Seq(Nat \ {NoMsg}) /\ mail[p] # <<>>
    BY <1>3 DEF Receive
  <2>2. Head(mail[p]) \in Nat /\ Tail(mail[p]) \in Seq(Nat \ {NoMsg})
    BY <2>1, HeadTailProperties
  <2>3. QED BY <1>3, <2>2 DEF Receive
<1>4. ASSUME NEW p \in Sessions, Stepped(p) PROVE RemoteTypeOK'
  <2>1. reply[p].msg \in Nat
    BY DEF SessionsKept, SessionInv, Inv, TypeOK
  <2>2. wire' \in [Sessions -> Seq(Nat \ {NoMsg})]
    BY <1>4, <2>1, SentType DEF Stepped
  <2>3. QED BY <1>4, <2>2 DEF Stepped
<1>5. ASSUME NEW p \in Sessions,
             StepThrows(p) \/ FinalizeThrows(p) \/ HaveKeypair(p) \/ Save(p)
      PROVE  RemoteTypeOK'
  BY <1>5 DEF StepThrows, FinalizeThrows, HaveKeypair, Save, Rejected
<1>6. CASE DeviceSendThrows \/ CloseSession
  BY <1>6 DEF DeviceSendThrows, CloseSession
<1>7. CASE SendDoneSignal
  <2>1. DoneSignal \in Nat /\ Server \in Sessions
    BY RemoteAssumption
  <2>2. wire' \in [Sessions -> Seq(Nat \ {NoMsg})]
    BY <1>7, <2>1, SentType DEF SendDoneSignal
  <2>3. QED BY <1>7, <2>2 DEF SendDoneSignal
<1>8. ASSUME NEW p \in Sessions, Deliver(p) PROVE RemoteTypeOK'
  <2>1. wire[p] \in Seq(Nat \ {NoMsg}) /\ wire[p] # <<>>
    BY <1>8 DEF Deliver
  <2>2. /\ Head(wire[p]) \in Nat \ {NoMsg} /\ Tail(wire[p]) \in Seq(Nat \ {NoMsg})
    BY <2>1, HeadTailProperties
  <2>3. Append(mail[p], Head(wire[p])) \in Seq(Nat \ {NoMsg})
    BY <2>2, AppendProperties
  <2>4. QED BY <1>8, <2>2, <2>3 DEF Deliver
<1>9. CASE DeviceSeesClose \/ Disconnect \/ ServerSeesClose
  <2>1. <<>> \in Seq(Nat \ {NoMsg})
    OBVIOUS
  <2>2. QED BY <1>9, <2>1 DEF DeviceSeesClose, Disconnect, ServerSeesClose
<1>10. QED
  BY <1>1, <1>2, <1>3, <1>4, <1>5, <1>6, <1>7, <1>8, <1>9, RemoteStepKinds,
     ProgramKinds DEF Alone, ConnectionMoves, InSession, systemVars, remoteVars

-----------------------------------------------------------------------------
(* What is on its way.                                                     *)

LEMMA FlightType ==
  ASSUME SessionsKept, RemoteTypeOK, NEW q \in Sessions
  PROVE  /\ inboundQueue[q] \in Seq(Nat) /\ Opt(inbound[q]) \in Seq(Nat)
         /\ Opt(frame[q]) \in Seq(Nat) /\ mail[q] \in Seq(Nat)
         /\ wire[q] \in Seq(Nat) /\ Coming(q) \in Seq(Nat)
         /\ InTransit(q) \in Seq(Nat) /\ Opt(outbound[q]) \in Seq(Nat)
         /\ outbound[q] \in Nat /\ inbound[q] \in Nat /\ reply[q].msg \in Nat
         /\ frame[q] \in Nat /\ <<>> \in Seq(Nat)
<1>1. /\ inboundQueue[q] \in Seq(Nat) /\ inbound[q] \in Nat /\ outbound[q] \in Nat
      /\ reply[q].msg \in Nat
  BY DEF SessionsKept, SessionInv, Inv, TypeOK
<1>2. mail[q] \in Seq(Nat) /\ wire[q] \in Seq(Nat) /\ frame[q] \in Nat
  <2>1. mail[q] \in Seq(Nat \ {NoMsg}) /\ wire[q] \in Seq(Nat \ {NoMsg}) /\ frame[q] \in Nat
    BY DEF RemoteTypeOK
  <2>2. QED BY <2>1
<1>3. <<>> \in Seq(Nat)
  OBVIOUS
<1>4. InTransit(q) \in Seq(Nat) /\ Coming(q) \in Seq(Nat)
  BY <1>1, <1>2, <1>3, OptType DEF InTransit, Coming
<1>5. QED BY <1>1, <1>2, <1>3, <1>4, OptType

\* Of what reached q's process, what has not reached its protocol's queue.
Ready(q) == Opt(inbound[q]) \o (Opt(frame[q]) \o mail[q])

Behind(q) == Ready(q) \o (Coming(q) \o Uttered(Peer(q)))

LEMMA FlightParts ==
  ASSUME SessionsKept, RemoteTypeOK, NEW q \in Sessions
  PROVE  /\ Ready(q) \in Seq(Nat) /\ Held(q) \in Seq(Nat) /\ Uttered(q) \in Seq(Nat)
         /\ Coming(q) \o Uttered(Peer(q)) \in Seq(Nat) /\ Behind(q) \in Seq(Nat)
         /\ Held(q) = inboundQueue[q] \o Ready(q)
         /\ Flight(q) \in Seq(Nat)
         /\ Flight(q) = inboundQueue[q] \o Behind(q)
<1> DEFINE i == Opt(inbound[q])  f == Opt(frame[q])  m == mail[q]
           n == inboundQueue[q]  c == Coming(q)  u == Uttered(Peer(q))
<1>1. /\ i \in Seq(Nat) /\ f \in Seq(Nat) /\ m \in Seq(Nat) /\ n \in Seq(Nat)
      /\ c \in Seq(Nat)
  BY FlightType
<1>2. Uttered(q) \in Seq(Nat) /\ u \in Seq(Nat)
  <2>1. /\ InTransit(q) \in Seq(Nat) /\ Opt(outbound[q]) \in Seq(Nat)
        /\ InTransit(Peer(q)) \in Seq(Nat) /\ Opt(outbound[Peer(q)]) \in Seq(Nat)
    BY FlightType, PeerOf
  <2>2. QED BY <2>1, ConcatProperties DEF Uttered
<1>3. /\ Ready(q) = i \o (f \o m) /\ Held(q) = n \o (i \o (f \o m))
      /\ Flight(q) = (n \o (i \o (f \o m))) \o (c \o u)
      /\ Behind(q) = (i \o (f \o m)) \o (c \o u)
  BY DEF Ready, Held, Flight, Behind
<1> HIDE DEF i, f, m, n, c, u
<1>4. f \o m \in Seq(Nat) /\ c \o u \in Seq(Nat)
  BY <1>1, <1>2, ConcatProperties
<1>5. i \o (f \o m) \in Seq(Nat)
  BY <1>1, <1>4, ConcatProperties
<1>6. n \o (i \o (f \o m)) \in Seq(Nat) /\ (i \o (f \o m)) \o (c \o u) \in Seq(Nat)
  BY <1>1, <1>4, <1>5, ConcatProperties
<1>7. (n \o (i \o (f \o m))) \o (c \o u) = n \o ((i \o (f \o m)) \o (c \o u))
  <2> DEFINE h == i \o (f \o m)  d == c \o u
  <2>1. n \in Seq(Nat) /\ h \in Seq(Nat) /\ d \in Seq(Nat)
    BY <1>1, <1>4, <1>5
  <2> HIDE DEF h, d
  <2>2. (n \o h) \o d = n \o (h \o d)
    BY <2>1, Regroup
  <2>3. QED BY <2>2 DEF h, d
<1>8. (n \o (i \o (f \o m))) \o (c \o u) \in Seq(Nat)
  BY <1>4, <1>6, ConcatProperties
<1>9. QED BY <1>2, <1>3, <1>4, <1>5, <1>6, <1>7, <1>8 DEF c, u, n

\* Nothing on its way means nothing anywhere.
LEMMA FlightEmpty ==
  ASSUME SessionsKept, RemoteTypeOK, NEW q \in Sessions, Flight(q) = <<>>
  PROVE  /\ inboundQueue[q] = <<>> /\ Opt(inbound[q]) = <<>> /\ Opt(frame[q]) = <<>>
         /\ mail[q] = <<>> /\ Coming(q) = <<>> /\ InTransit(Peer(q)) = <<>>
         /\ Opt(outbound[Peer(q)]) = <<>> /\ Held(q) = <<>> /\ Uttered(Peer(q)) = <<>>
<1> USE FlightType, FlightParts, PeerOf
<1>1. inboundQueue[q] = <<>> /\ Behind(q) = <<>>
  <2>1. inboundQueue[q] \in Seq(Nat) /\ Behind(q) \in Seq(Nat)
    OBVIOUS
  <2>2. inboundQueue[q] \o Behind(q) = <<>>
    OBVIOUS
  <2>3. QED BY <2>1, <2>2, BothEmpty
<1>2. Ready(q) = <<>> /\ Coming(q) \o Uttered(Peer(q)) = <<>>
  <2>1. Ready(q) \in Seq(Nat) /\ Coming(q) \o Uttered(Peer(q)) \in Seq(Nat)
    OBVIOUS
  <2>2. QED BY <1>1, <2>1, BothEmpty DEF Behind
<1>3. Opt(inbound[q]) = <<>> /\ Opt(frame[q]) \o mail[q] = <<>>
  <2>1. Opt(inbound[q]) \in Seq(Nat) /\ Opt(frame[q]) \o mail[q] \in Seq(Nat)
    BY ConcatProperties
  <2>2. QED BY <1>2, <2>1, BothEmpty DEF Ready
<1>4. Opt(frame[q]) = <<>> /\ mail[q] = <<>>
  <2>1. Opt(frame[q]) \in Seq(Nat) /\ mail[q] \in Seq(Nat)
    OBVIOUS
  <2>2. QED BY <1>3, <2>1, BothEmpty
<1>5. Coming(q) = <<>> /\ Uttered(Peer(q)) = <<>>
  <2>1. Coming(q) \in Seq(Nat) /\ Uttered(Peer(q)) \in Seq(Nat)
    OBVIOUS
  <2>2. QED BY <1>2, <2>1, BothEmpty
<1>6. InTransit(Peer(q)) = <<>> /\ Opt(outbound[Peer(q)]) = <<>>
  <2>1. InTransit(Peer(q)) \in Seq(Nat) /\ Opt(outbound[Peer(q)]) \in Seq(Nat)
    OBVIOUS
  <2>2. QED BY <1>5, <2>1, BothEmpty DEF Uttered
<1>7. Held(q) = <<>>
  <2>1. Held(q) = <<>> \o <<>>
    BY <1>1, <1>2
  <2>2. QED BY <2>1
<1>8. QED BY <1>1, <1>3, <1>4, <1>5, <1>6, <1>7

-----------------------------------------------------------------------------
(* The bounds of the loops.                                                *)

\* No more is on its way than was said, and the signal.
LEMMA NoMoreThanSaid ==
  ASSUME RemoteInv, NEW p \in Sessions
  PROVE  Len(consumed[p]) + Len(Flight(p))
           <= sent[Peer(p)] + (IF p = Device THEN 1 ELSE 0)
<1> DEFINE c == Len(consumed[p])  f == Len(Flight(p))  n == sent[Peer(p)]
           e == IF p = Device THEN 1 ELSE 0
<1> SUFFICES c + f <= n + e
  OBVIOUS
<1>1. c \in Nat /\ n \in Nat /\ e \in 0 .. 1
  <2>1. consumed[p] \in Seq(Nat) /\ sent[Peer(p)] \in Nat
    BY PeerOf DEF RemoteInv, SessionsKept, SessionInv, Inv, TypeOK
  <2>2. QED BY <2>1
<1>2. \/ c = n /\ f = 0
      \/ c = n /\ f = 1 /\ e = 1
      \/ c + 1 = n /\ f = 1
      \/ c + 1 = n /\ f = 2 /\ e = 1
      \/ c + 1 = n /\ f = 0
  <2>1. CASE Level
    <3>1. c = n
      BY <2>1 DEF Level
    <3>2. Flight(p) = <<>> \/ (p = Device /\ Flight(p) = <<DoneSignal>>)
      BY <2>1, PeerOf DEF Level, Trailing
    <3>3. f = 0 \/ (e = 1 /\ f = 1)
      BY <3>2
    <3>4. QED BY <3>1, <3>3
  <2>2. CASE ServerLeads
    <3>1. CASE p = Server
      <4>1. c = n /\ f = 0
        BY <2>2, <3>1 DEF ServerLeads, Leads
      <4>2. QED BY <4>1
    <3>2. CASE p = Device
      <4>1. c + 1 = n /\ e = 1
        BY <2>2, <3>2, PeerOf DEF ServerLeads, Leads
      <4>2. \/ Flight(p) = <<>>
            \/ Flight(p) = <<sent[Server]>> \o <<>>
            \/ Flight(p) = <<sent[Server]>> \o <<DoneSignal>>
        BY <2>2, <3>2 DEF ServerLeads, Trailing
      <4>3. f = 0 \/ f = 1 \/ f = 2
        BY <4>2
      <4>4. QED BY <4>1, <4>3
    <3>3. QED BY <3>1, <3>2, PeerOf
  <2>3. CASE DeviceLeads
    <3>1. CASE p = Device
      <4>1. c = n /\ f = 0
        BY <2>3, <3>1 DEF DeviceLeads, Leads
      <4>2. QED BY <4>1
    <3>2. CASE p = Server
      <4>1. c + 1 = n
        BY <2>3, <3>2, PeerOf DEF DeviceLeads, Leads
      <4>2. Flight(p) = <<>> \/ Flight(p) = <<sent[Device]>>
        BY <2>3, <3>2 DEF DeviceLeads
      <4>3. f = 0 \/ f = 1
        BY <4>2
      <4>4. QED BY <4>1, <4>3
    <3>3. QED BY <3>1, <3>2, PeerOf
  <2>4. QED BY <2>1, <2>2, <2>3 DEF RemoteInv, Lockstep
<1> HIDE DEF c, f, n, e
<1>3. QED BY <1>1, <1>2
\* What has arrived is part of what is on its way.
LEMMA HeldWithin ==
  ASSUME SessionsKept, RemoteTypeOK, NEW q \in Sessions
  PROVE  /\ Len(Flight(q)) \in Nat
         /\ Len(inboundQueue[q]) + Len(Opt(inbound[q])) + Len(Opt(frame[q]))
              + Len(mail[q]) <= Len(Flight(q))
<1> DEFINE n == inboundQueue[q]  i == Opt(inbound[q])  f == Opt(frame[q])
           m == mail[q]  d == Coming(q) \o Uttered(Peer(q))
<1>1. n \in Seq(Nat) /\ i \in Seq(Nat) /\ f \in Seq(Nat) /\ m \in Seq(Nat)
  BY FlightType
<1>2. d \in Seq(Nat)
  BY FlightParts
<1>3. Flight(q) = (n \o (i \o (f \o m))) \o d
  BY DEF Flight, Held
<1> HIDE DEF n, i, f, m, d
<1>4. f \o m \in Seq(Nat) /\ Len(f \o m) = Len(f) + Len(m)
  BY <1>1, ConcatProperties
<1>5. i \o (f \o m) \in Seq(Nat) /\ Len(i \o (f \o m)) = Len(i) + (Len(f) + Len(m))
  BY <1>1, <1>4, ConcatProperties
<1>6. /\ n \o (i \o (f \o m)) \in Seq(Nat)
      /\ Len(n \o (i \o (f \o m))) = Len(n) + (Len(i) + (Len(f) + Len(m)))
  BY <1>1, <1>5, ConcatProperties
<1>7. Len(Flight(q)) = Len(n) + (Len(i) + (Len(f) + Len(m))) + Len(d)
  BY <1>2, <1>3, <1>6, ConcatProperties
<1>8. Len(n) \in Nat /\ Len(i) \in Nat /\ Len(f) \in Nat /\ Len(m) \in Nat /\ Len(d) \in Nat
  BY <1>1, <1>2
<1>9. \A a, b, c, e, g \in Nat :
        /\ a + (b + (c + e)) + g \in Nat
        /\ a + b + c + e <= a + (b + (c + e)) + g
  OBVIOUS
<1>10. /\ Len(n) + (Len(i) + (Len(f) + Len(m))) + Len(d) \in Nat
       /\ Len(n) + Len(i) + Len(f) + Len(m)
            <= Len(n) + (Len(i) + (Len(f) + Len(m))) + Len(d)
  BY <1>8, <1>9
<1>11. QED BY <1>7, <1>10 DEF n, i, f, m

\* A program that waits and has a frame is still within the bound of its loop.
LEMMA ReceiveWithinBound ==
  ASSUME RemoteInv, NEW p \in Sessions, pc[p] = "wait", mail[p] # <<>>
  PROVE  steps[p] < Bound[p]
<1> DEFINE c == Len(consumed[p])  n == Len(inboundQueue[p])
           i == Len(Opt(inbound[p]))  f == Len(Opt(frame[p]))
           m == Len(mail[p])  t == Len(Flight(p))
           s == sent[Peer(p)]  w == waitRequestId[Peer(p)]
           d == IF p = Device THEN 1 ELSE 0
           e == IF p = Server THEN 1 ELSE 0
<1>1. c \in Nat /\ s \in Nat /\ w \in Nat
  <2>1. /\ consumed[p] \in Seq(Nat) /\ sent[Peer(p)] \in Nat
        /\ waitRequestId[Peer(p)] \in Nat
    BY PeerOf DEF RemoteInv, SessionsKept, SessionInv, Inv, TypeOK
  <2>2. QED BY <2>1
<1>2. n \in Nat /\ i \in Nat /\ m \in Nat \ {0} /\ f = 0 /\ t \in Nat
  <2>1. /\ inboundQueue[p] \in Seq(Nat) /\ Opt(inbound[p]) \in Seq(Nat)
        /\ mail[p] \in Seq(Nat)
    BY FlightType DEF RemoteInv
  <2>2. Opt(frame[p]) = <<>>
    BY DEF RemoteInv, Stage, Opt
  <2>3. t \in Nat
    BY HeldWithin DEF RemoteInv
  <2>4. n \in Nat /\ i \in Nat /\ m \in Nat \ {0}
    BY <2>1, EmptySeq
  <2>5. QED BY <2>2, <2>3, <2>4
<1>3. n + i + f + m <= t
  BY HeldWithin DEF RemoteInv
<1>4. c + t <= s + d
  BY NoMoreThanSaid
<1>5. steps[p] + 0 <= c + n + i + f + e
  <2>1. Counted(p)
    BY DEF RemoteInv
  <2>2. QED BY <2>1 DEF Counted, Taken
<1>6. d + e = 1 /\ d \in Nat /\ e \in Nat
  BY PeerOf
<1>7. s + w < Bound[p] /\ Bound[p] \in Nat
  BY PeerOf, RemoteAssumption DEF RemoteInv, SessionsKept, Work
<1>8. steps[p] \in Nat
  BY DEF RemoteInv, RemoteTypeOK
<1> HIDE DEF c, n, i, f, m, t, s, w, d, e
<1>9. QED BY <1>1, <1>2, <1>3, <1>4, <1>5, <1>6, <1>7, <1>8

-----------------------------------------------------------------------------
(* Where the programs are.                                                 *)

\* Who has come to the end of its protocol stays there.
LEMMA EndedStays ==
  ASSUME SessionsKept, NEW p \in Sessions, InSession(p), NEW q \in Sessions, Ended(q)
  PROVE  Ended(q)'
<1>1. workerDone'[q]
  BY InSessionEffect DEF Ended
<1>2. outbound \in [Sessions -> Nat] /\ script \in [Sessions -> Seq(Op)]
  BY DEF SessionsKept, SessionInv, Inv, TypeOK, Op
<1>3. CASE Says(p) \/ Hears(p)
  BY <1>1, <1>2, <1>3 DEF Says, Hears, Ended
<1>4. CASE ~(Says(p) \/ Hears(p))
  <2>1. /\ UNCHANGED script
        /\ HandsOut(p) \/ Returns(p) \/ Pushes(p) \/ Stays(p)
    BY <1>4, InSessionEffect
  <2>2. outbound' = outbound \/ outbound' = [outbound EXCEPT ![p] = NoMsg]
    BY <2>1 DEF HandsOut, Returns, Pushes, Stays
  <2>3. QED BY <1>1, <1>2, <2>1, <2>2 DEF Ended
<1>5. QED BY <1>3, <1>4

LEMMA StageSession ==
  ASSUME RemoteInv, NEW p \in Sessions, InSession(p)
  PROVE  Stage'
<1>1. /\ UNCHANGED <<pc, frame, saved, link>>
      /\ \A q \in Sessions : issued[q] = 1 => issued'[q] = 1
  BY InSessionEffect DEF RemoteInv
<1>2. ASSUME NEW q \in Sessions
      PROVE  /\ cpc'[q] \in {"push", "check"} => cpc[q] \in {"push", "check"}
             /\ cpc'[q] = "finwait" => cpc[q] = "finwait"
  <2>1. cpc \in [Sessions -> CallerPC]
    BY DEF RemoteInv, SessionsKept, SessionInv, Inv, TypeOK
  <2>2. \/ UNCHANGED cpc
        \/ HandsOut(p) \/ Returns(p) \/ Pushes(p) \/ Stays(p)
    BY InSessionEffect DEF RemoteInv
  <2>3. \/ UNCHANGED cpc
        \/ cpc' = [cpc EXCEPT ![p] = "idle"]
        \/ cpc[p] = "push" /\ cpc' = [cpc EXCEPT ![p] = "check"]
        \/ cpc' = [cpc EXCEPT ![p] = "join"]
        \/ cpc' = [cpc EXCEPT ![p] = "freed"]
    BY <2>2 DEF HandsOut, Returns, Pushes, Stays
  <2>4. QED BY <2>1, <2>3
<1>3. \A q \in Sessions : Ended(q) => Ended(q)'
  BY EndedStays DEF RemoteInv
<1>4. QED BY <1>1, <1>2, <1>3 DEF RemoteInv, Stage

LEMMA StageCall ==
  ASSUME RemoteInv, NEW p \in Sessions, Calls(p), UNCHANGED dkgVars
  PROVE  Stage'
<1>1. /\ UNCHANGED <<script, outbound, workerDone, issued, link, saved>>
      /\ cpc[p] = "idle"
  BY CallEffect
<1>2. \A q \in Sessions : Ended(q)' = Ended(q)
  BY <1>1 DEF Ended
<1>3. /\ cpc \in [Sessions -> CallerPC] /\ pc \in [Sessions -> PC]
      /\ frame \in [Sessions -> Nat]
  BY DEF RemoteInv, RemoteTypeOK, SessionsKept, SessionInv, Inv, TypeOK
<1>4. CASE pc[p] = "step" /\ pc' = [pc EXCEPT ![p] = "stepping"]
           /\ \E to \in {"push", "check"} : cpc' = [cpc EXCEPT ![p] = to]
           /\ frame' = [frame EXCEPT ![p] = NoMsg]
  BY <1>1, <1>2, <1>3, <1>4 DEF RemoteInv, Stage
<1>5. CASE pc[p] = "finalize" /\ pc' = [pc EXCEPT ![p] = "finwait"]
           /\ cpc' = [cpc EXCEPT ![p] = "finwait"] /\ UNCHANGED frame
  BY <1>1, <1>2, <1>3, <1>5 DEF RemoteInv, Stage
<1>6. CASE pc[p] = "finwait" /\ pc' = [pc EXCEPT ![p] = "release"]
           /\ finalized[p] = "keypair"
           /\ cpc' = [cpc EXCEPT ![p] = "free"] /\ UNCHANGED frame
  <2>1. issued[p] = 1
    BY <1>6 DEF RemoteInv, SessionsKept, SessionInv, DkgInv, KeyPhase
  <2>2. QED BY <1>1, <1>2, <1>3, <1>6, <2>1 DEF RemoteInv, Stage
<1>7. QED BY <1>4, <1>5, <1>6, CallEffect

LEMMA StageAlone ==
  ASSUME RemoteInv, NEW p \in Sessions, Alone(p), UNCHANGED allVars
  PROVE  Stage'
<1>1. UNCHANGED <<script, outbound, workerDone, issued, cpc, reply>>
  BY SessionsAlone
<1>2. \A q \in Sessions : Ended(q)' = Ended(q)
  BY <1>1 DEF Ended
<1>3. pc \in [Sessions -> PC] /\ saved \in [Sessions -> BOOLEAN] /\ frame \in [Sessions -> Nat]
  BY DEF RemoteInv, RemoteTypeOK
<1> USE DEF RemoteInv, Stage, ProgramGoes
<1>4. CASE Receive(p)
  <2>1. steps[p] < Bound[p]
    BY <1>4, ReceiveWithinBound DEF Receive
  <2>2. /\ pc[p] = "wait" /\ pc' = [pc EXCEPT ![p] = "step"]
        /\ frame' = [frame EXCEPT ![p] = Head(mail[p])] /\ UNCHANGED <<link, saved>>
    BY <1>4, <2>1 DEF Receive
  <2>3. \A q \in Sessions : frame'[q] = frame[q] \/ pc'[q] = "step"
    BY <1>3, <2>2
  <2>4. QED BY <1>1, <1>2, <1>3, <2>2, <2>3
<1>5. CASE Stepped(p)
  <2>1. reply[p].state = "done" => Ended(p)
    BY DEF SessionsKept, SessionInv, DoneIsFinal, Ended
  <2>2. /\ pc[p] = "stepping" /\ cpc[p] = "idle" /\ UNCHANGED <<link, saved, frame>>
        /\ pc' = [pc EXCEPT ![p] = IF reply[p].state = "done" THEN "finalize" ELSE "wait"]
    BY <1>5 DEF Stepped, Answered
  <2>3. QED BY <1>1, <1>2, <1>3, <2>1, <2>2
<1>6. CASE StepThrows(p)
  <2>1. /\ cpc[p] = "idle" \/ pc[p] = "step"
        /\ \E to \in {"close", "failed"} : pc' = [pc EXCEPT ![p] = to]
        /\ pc[p] \in {"step", "stepping"}
    BY <1>6 DEF StepThrows, Answered, Rejected
  <2>2. UNCHANGED <<link, saved, frame>>
    BY <1>6 DEF StepThrows
  <2>3. QED BY <1>1, <1>2, <1>3, <2>1, <2>2
<1>7. CASE FinalizeThrows(p)
  <2>1. /\ pc[p] = "finalize" /\ UNCHANGED <<link, saved, frame>>
        /\ \E to \in {"close", "failed"} : pc' = [pc EXCEPT ![p] = to]
    BY <1>7 DEF FinalizeThrows, Rejected
  <2>2. QED BY <1>1, <1>2, <1>3, <2>1
<1>8. CASE HaveKeypair(p)
  <2>1. /\ pc[p] = "release" /\ UNCHANGED <<link, saved, frame>>
        /\ pc' = [pc EXCEPT ![p] = "save"]
    BY <1>8 DEF HaveKeypair
  <2>2. QED BY <1>1, <1>2, <1>3, <2>1
<1>9. CASE Save(p)
  <2>1. /\ pc[p] = "save" /\ UNCHANGED <<link, frame>>
        /\ saved' = saved \/ saved' = [saved EXCEPT ![p] = TRUE]
        /\ \E to \in {"signal", "ok", "close", "failed"} : pc' = [pc EXCEPT ![p] = to]
    BY <1>9 DEF Save, Rejected
  <2>2. QED BY <1>1, <1>2, <1>3, <2>1
<1>10. CASE p = Device /\ DeviceSendThrows
  <2>1. /\ pc[p] = "stepping" /\ cpc[p] = "idle" /\ UNCHANGED <<link, saved, frame>>
        /\ pc' = [pc EXCEPT ![p] = "failed"]
    BY <1>10 DEF DeviceSendThrows, Answered
  <2>2. QED BY <1>1, <1>2, <1>3, <2>1
<1>11. CASE p = Server /\ SendDoneSignal
  <2>1. /\ pc[p] = "signal" /\ UNCHANGED <<link, saved, frame>>
        /\ pc' = [pc EXCEPT ![p] = "close"]
    BY <1>11 DEF SendDoneSignal
  <2>2. QED BY <1>1, <1>2, <1>3, <2>1
<1>12. CASE p = Server /\ CloseSession
  <2>1. /\ pc[p] = "close" /\ UNCHANGED <<saved, frame>>
        /\ pc' = [pc EXCEPT ![p] = "closed"]
    BY <1>12 DEF CloseSession
  <2>2. pc'[Server] = "closed"
    BY <1>3, <1>12, <2>1
  <2>3. QED BY <1>1, <1>2, <1>3, <2>1, <2>2
<1>13. QED
  BY <1>4, <1>5, <1>6, <1>7, <1>8, <1>9, <1>10, <1>11, <1>12 DEF Alone

LEMMA StageStep ==
  ASSUME RemoteInv, [RemoteNext]_systemVars
  PROVE  Stage'
<1>1. ASSUME NEW p \in Sessions, Program(p) PROVE Stage'
  BY <1>1, ProgramKinds, StageCall, StageAlone DEF RemoteInv
<1>2. ASSUME UNCHANGED <<allVars, pc, frame, saved>>, link' # "closing" \/ link' = link
      PROVE  Stage'
  BY <1>2, SessionsAlone DEF RemoteInv, Stage, Ended
<1>3. CASE ConnectionMoves
  BY <1>2, <1>3 DEF ConnectionMoves, Deliver, DeviceSeesClose, Disconnect, ServerSeesClose
<1>4. CASE UNCHANGED systemVars
  BY <1>2, <1>4 DEF systemVars, remoteVars
<1>5. QED BY <1>1, <1>3, <1>4, StageSession, RemoteStepKinds
-----------------------------------------------------------------------------
(* The count of the steps.                                                 *)

LEMMA TakenType ==
  ASSUME SessionsKept, RemoteTypeOK, NEW q \in Sessions
  PROVE  /\ Len(consumed[q]) \in Nat /\ Len(inboundQueue[q]) \in Nat
         /\ Len(Opt(inbound[q])) \in Nat /\ Len(Opt(frame[q])) \in Nat
         /\ Taken(q) \in Nat /\ steps[q] \in Nat
<1>1. consumed[q] \in Seq(Nat)
  BY DEF SessionsKept, SessionInv, Inv, TypeOK
<1>2. inboundQueue[q] \in Seq(Nat) /\ Opt(inbound[q]) \in Seq(Nat) /\ Opt(frame[q]) \in Seq(Nat)
  BY FlightType
<1>3. /\ Len(consumed[q]) \in Nat /\ Len(inboundQueue[q]) \in Nat
      /\ Len(Opt(inbound[q])) \in Nat /\ Len(Opt(frame[q])) \in Nat
  BY <1>1, <1>2
<1>4. \A a, b, c, d \in Nat : a + b + c + d \in Nat
  OBVIOUS
<1>5. Taken(q) \in Nat
  BY <1>3, <1>4 DEF Taken
<1>6. QED BY <1>3, <1>5 DEF RemoteTypeOK

\* A session neither loses nor invents what it was passed.
LEMMA TakenInSession ==
  ASSUME SessionsKept, RemoteTypeOK, NEW p \in Sessions, InSession(p), NEW q \in Sessions
  PROVE  Taken(q)' = Taken(q)
<1>1. UNCHANGED frame
  BY InSessionEffect
<1>2. /\ inboundQueue \in [Sessions -> Seq(Nat)] /\ inbound \in [Sessions -> Nat]
      /\ consumed \in [Sessions -> Seq(Nat)]
  BY DEF SessionsKept, SessionInv, Inv, TypeOK
<1>3. CASE UNCHANGED <<consumed[q], inboundQueue[q], inbound[q]>>
  BY <1>1, <1>3 DEF Taken
<1>4. CASE Says(p)
  <2>1. UNCHANGED <<consumed, inboundQueue, inbound>>
    BY <1>4, InSessionEffect DEF Says
  <2>2. QED BY <1>3, <2>1
<1>5. CASE Hears(p)
  <2>1. UNCHANGED inbound
    BY <1>5, InSessionEffect
  <2>2. CASE q # p
    BY <1>2, <1>3, <1>5, <2>1, <2>2 DEF Hears
  <2>3. CASE q = p
    <3>1. /\ inboundQueue[p] \in Seq(Nat) /\ inboundQueue[p] # <<>>
          /\ inboundQueue'[p] = Tail(inboundQueue[p])
          /\ consumed'[p] = Append(consumed[p], Head(inboundQueue[p]))
          /\ consumed[p] \in Seq(Nat)
      BY <1>2, <1>5 DEF Hears
    <3>2. /\ Head(inboundQueue[p]) \in Nat
          /\ Len(inboundQueue'[p]) = Len(inboundQueue[p]) - 1
      BY <3>1, HeadTailProperties
    <3>3. Len(consumed'[p]) = Len(consumed[p]) + 1
      BY <3>1, <3>2, AppendProperties
    <3>4. Len(consumed'[p]) + Len(inboundQueue'[p]) + Len(Opt(inbound[p])) + Len(Opt(frame[p]))
            = Len(consumed[p]) + Len(inboundQueue[p]) + Len(Opt(inbound[p])) + Len(Opt(frame[p]))
      <4>1. /\ Len(consumed[p]) \in Nat /\ Len(inboundQueue[p]) \in Nat
            /\ Len(Opt(inbound[p])) \in Nat /\ Len(Opt(frame[p])) \in Nat
        BY TakenType
      <4>2. (Len(consumed[p]) + 1) + (Len(inboundQueue[p]) - 1) + Len(Opt(inbound[p]))
                + Len(Opt(frame[p]))
              = Len(consumed[p]) + Len(inboundQueue[p]) + Len(Opt(inbound[p]))
                + Len(Opt(frame[p]))
        <5> DEFINE a == Len(consumed[p])  b == Len(inboundQueue[p])
                   c == Len(Opt(inbound[p]))  d == Len(Opt(frame[p]))
        <5>1. a \in Nat /\ b \in Nat /\ c \in Nat /\ d \in Nat
          BY <4>1
        <5> HIDE DEF a, b, c, d
        <5>2. (a + 1) + (b - 1) + c + d = a + b + c + d
          BY <5>1
        <5>3. QED BY <5>2 DEF a, b, c, d
      <4>3. QED BY <3>2, <3>3, <4>2
    <3>5. QED BY <1>1, <2>1, <2>3, <3>4 DEF Taken
  <2>4. QED BY <2>2, <2>3
<1>6. CASE ~(Says(p) \/ Hears(p)) /\ ~Pushes(p)
  <2>1. UNCHANGED <<consumed, inboundQueue, inbound>>
    BY <1>6, InSessionEffect DEF HandsOut, Returns, Stays
  <2>2. QED BY <1>3, <2>1
<1>7. CASE ~(Says(p) \/ Hears(p)) /\ Pushes(p)
  <2>1. UNCHANGED consumed
    BY <1>7, InSessionEffect
  <2>2. CASE q # p
    BY <1>2, <1>3, <1>7, <2>1, <2>2 DEF Pushes
  <2>3. CASE q = p
    <3>1. /\ inboundQueue[p] \in Seq(Nat) /\ inbound[p] \in Nat /\ inbound[p] # NoMsg
          /\ inboundQueue'[p] = Append(inboundQueue[p], inbound[p])
          /\ inbound'[p] = NoMsg
      BY <1>2, <1>7 DEF Pushes, SessionsKept, SessionInv, CallInv
    <3>2. Len(inboundQueue'[p]) = Len(inboundQueue[p]) + 1
      BY <3>1, AppendProperties
    <3>3. Len(Opt(inbound[p])) = 1 /\ Len(Opt(inbound'[p])) = 0
      BY <3>1 DEF Opt
    <3>4. \A a, b, d \in Nat : a + (b + 1) + 0 + d = a + b + 1 + d
      OBVIOUS
    <3>5. Len(consumed[p]) + Len(inboundQueue'[p]) + Len(Opt(inbound'[p])) + Len(Opt(frame[p]))
            = Len(consumed[p]) + Len(inboundQueue[p]) + Len(Opt(inbound[p])) + Len(Opt(frame[p]))
      <4>1. /\ Len(consumed[p]) \in Nat /\ Len(inboundQueue[p]) \in Nat
            /\ Len(Opt(frame[p])) \in Nat
        BY TakenType
      <4>2. Len(consumed[p]) + (Len(inboundQueue[p]) + 1) + 0 + Len(Opt(frame[p]))
              = Len(consumed[p]) + Len(inboundQueue[p]) + 1 + Len(Opt(frame[p]))
        BY <3>4, <4>1
      <4>3. QED BY <3>2, <3>3, <4>2
    <3>6. QED BY <1>1, <2>1, <2>3, <3>5 DEF Taken
  <2>4. QED BY <2>2, <2>3
<1>8. QED BY <1>4, <1>5, <1>6, <1>7

\* A step passes on the frame its program held.
LEMMA BeginStepPasses ==
  ASSUME SessionsKept, RemoteTypeOK, NEW p \in Sessions, BeginStep(p)
  PROVE  /\ inbound[p] = NoMsg /\ frame'[p] = NoMsg /\ inbound'[p] = frame[p]
         /\ \A q \in Sessions : q # p => inbound'[q] = inbound[q] /\ frame'[q] = frame[q]
<1>1. Calls(p)
  BY DEF Calls
<1>2. inbound' = [inbound EXCEPT ![p] = frame[p]] /\ frame' = [frame EXCEPT ![p] = NoMsg]
  BY DEF BeginStep, StepCall
<1>3. cpc[p] = "idle"
  BY <1>1, CallEffect
<1>4. inbound \in [Sessions -> Nat] /\ frame \in [Sessions -> Nat]
  BY DEF SessionsKept, SessionInv, Inv, TypeOK, RemoteTypeOK
<1>5. inbound[p] = NoMsg
  BY <1>3 DEF SessionsKept, SessionInv, CallInv
<1>6. QED BY <1>2, <1>4, <1>5

LEMMA CountedStep ==
  ASSUME RemoteInv, [RemoteNext]_systemVars, NEW q \in Sessions
  PROVE  Counted(q)'
<1> DEFINE k == IF pc[q] = "step" THEN 1 ELSE 0
           e == IF q = Server THEN 1 ELSE 0
<1>1. /\ Counted(q) /\ Taken(q) \in Nat /\ steps[q] \in Nat
      /\ pc \in [Sessions -> PC] /\ steps \in [Sessions -> Nat]
      /\ frame \in [Sessions -> Nat]
      /\ k \in 0 .. 1 /\ e \in 0 .. 1 /\ steps[q] + k <= Taken(q) + e
  BY TakenType DEF RemoteInv, RemoteTypeOK, Counted
<1>2. ASSUME Taken(q)' = Taken(q), steps'[q] = steps[q], pc'[q] = "step" => pc[q] = "step"
      PROVE  Counted(q)'
  <2>1. steps[q] + (IF pc'[q] = "step" THEN 1 ELSE 0) <= steps[q] + k
    BY <1>1, <1>2
  <2>2. (IF pc'[q] = "step" THEN 1 ELSE 0) \in 0 .. 1
    OBVIOUS
  <2>3. \A a, b, c, d \in Nat : a + b <= a + c /\ a + c <= d => a + b <= d
    OBVIOUS
  <2>4. steps[q] + (IF pc'[q] = "step" THEN 1 ELSE 0) <= Taken(q) + e
    BY <1>1, <2>1, <2>2
  <2>5. QED BY <1>2, <2>4 DEF Counted
<1>3. ASSUME NEW p \in Sessions, InSession(p) PROVE Counted(q)'
  <2>1. Taken(q)' = Taken(q) /\ UNCHANGED <<pc, steps>>
    BY <1>3, InSessionEffect, TakenInSession DEF RemoteInv
  <2>2. QED BY <1>2, <2>1
<1>4. ASSUME UNCHANGED <<allVars, frame>> PROVE Taken(q)' = Taken(q)
  BY <1>4, SessionsAlone DEF Taken
<1>5. ASSUME NEW p \in Sessions, BeginStep(p) PROVE Counted(q)'
  <2>1. /\ UNCHANGED <<consumed, inboundQueue>>
        /\ pc[p] = "step" /\ pc' = [pc EXCEPT ![p] = "stepping"]
        /\ steps' = [steps EXCEPT ![p] = @ + 1]
    BY <1>5 DEF BeginStep, ProgramGoes, StepCall, members, history
  <2>2. /\ inbound[p] = NoMsg /\ frame'[p] = NoMsg /\ inbound'[p] = frame[p]
        /\ q # p => inbound'[q] = inbound[q] /\ frame'[q] = frame[q]
    BY <1>5, BeginStepPasses DEF RemoteInv
  <2>3. CASE q # p
    BY <1>1, <1>2, <2>1, <2>2, <2>3 DEF Taken
  <2>4. CASE q = p
    <3>1. Opt(NoMsg) = <<>> /\ Len(Opt(NoMsg)) = 0
      BY DEF Opt
    <3>2. \A a, b, c \in Nat : a + b + c + 0 = a + b + 0 + c
      OBVIOUS
    <3>3. Len(consumed[q]) + Len(inboundQueue[q]) + Len(Opt(frame[q])) + 0
            = Len(consumed[q]) + Len(inboundQueue[q]) + 0 + Len(Opt(frame[q]))
      BY <3>2, TakenType DEF RemoteInv
    <3>4. Taken(q)' = Taken(q)
      BY <2>1, <2>2, <2>4, <3>1, <3>3 DEF Taken
    <3>5. k = 1 /\ pc'[q] # "step"
      BY <1>1, <2>1, <2>4
    <3>6. steps'[q] = steps[q] + 1
      BY <1>1, <2>1, <2>4
    <3>7. (steps[q] + 1) + 0 <= Taken(q) + e
      BY <1>1, <3>5
    <3>8. QED BY <3>4, <3>5, <3>6, <3>7 DEF Counted
  <2>5. QED BY <2>3, <2>4
<1>6. ASSUME NEW p \in Sessions, BeginFinalize(p) \/ Release(p) PROVE Counted(q)'
  <2>1. /\ UNCHANGED <<consumed, inboundQueue, inbound, frame, steps>>
        /\ pc' = [pc EXCEPT ![p] = "finwait"] \/ pc' = [pc EXCEPT ![p] = "release"]
    BY <1>6 DEF BeginFinalize, Release, FinalizeCall, FreeCall, ProgramGoes, members,
       history
  <2>2. Taken(q)' = Taken(q)
    BY <2>1 DEF Taken
  <2>3. QED BY <1>1, <1>2, <2>1, <2>2
<1>7. ASSUME NEW p \in Sessions, Receive(p), UNCHANGED allVars PROVE Counted(q)'
  <2>1. /\ pc[p] = "wait" /\ pc' = [pc EXCEPT ![p] = "step"] /\ mail[p] # <<>>
        /\ frame' = [frame EXCEPT ![p] = Head(mail[p])] /\ UNCHANGED steps
    BY <1>7, ReceiveWithinBound DEF Receive, ProgramGoes
  <2>2. UNCHANGED <<consumed, inboundQueue, inbound>>
    BY <1>7, SessionsAlone
  <2>3. CASE q # p
    <3>1. Taken(q)' = Taken(q)
      BY <1>1, <2>1, <2>2, <2>3 DEF Taken
    <3>2. QED BY <1>1, <1>2, <2>1, <2>3, <3>1
  <2>4. CASE q = p
    <3>1. mail[q] \in Seq(Nat \ {NoMsg})
      BY DEF RemoteInv, RemoteTypeOK
    <3>2. Head(mail[q]) \in Nat /\ Head(mail[q]) # NoMsg
      BY <2>1, <2>4, <3>1, HeadTailProperties
    <3>3. Len(Opt(frame'[q])) = 1
      BY <1>1, <2>1, <2>4, <3>2, OptType
    <3>4. frame[q] = NoMsg
      BY <2>1, <2>4 DEF RemoteInv, Stage
    <3>5. Len(Opt(frame[q])) = 0
      BY <3>4 DEF Opt
    <3>6. \A a, b, c \in Nat : a + b + c + 1 = (a + b + c + 0) + 1
      OBVIOUS
    <3>7. Taken(q)' = Taken(q) + 1
      BY <2>2, <3>3, <3>5, <3>6, TakenType DEF Taken, RemoteInv
    <3>8. k = 0 /\ pc'[q] = "step" /\ steps'[q] = steps[q]
      BY <1>1, <2>1, <2>4
    <3>9. \A s, t, d \in Nat : s + 0 <= t + d => s + 1 <= (t + 1) + d
      OBVIOUS
    <3>10. steps[q] + 1 <= (Taken(q) + 1) + e
      BY <1>1, <3>8, <3>9
    <3>11. QED BY <3>7, <3>8, <3>10 DEF Counted
  <2>5. QED BY <2>3, <2>4
<1>8. ASSUME NEW p \in Sessions, Alone(p), ~Receive(p), UNCHANGED allVars
      PROVE  Counted(q)'
  <2>1. /\ UNCHANGED <<frame, steps>>
        /\ \E to \in PC \ {"step"} : pc' = [pc EXCEPT ![p] = to]
    BY <1>8 DEF Alone, Stepped, StepThrows, FinalizeThrows, HaveKeypair, Save,
       DeviceSendThrows, SendDoneSignal, CloseSession, ProgramGoes, Rejected, PC
  <2>2. QED BY <1>1, <1>2, <1>4, <1>8, <2>1
<1>9. CASE ConnectionMoves
  <2>1. UNCHANGED <<pc, frame, steps>>
    BY <1>9 DEF ConnectionMoves, Deliver, DeviceSeesClose, Disconnect, ServerSeesClose
  <2>2. QED BY <1>2, <1>4, <1>9, <2>1, ConnectionAlone
<1>10. CASE UNCHANGED systemVars
  <2>1. UNCHANGED <<pc, frame, steps>>
    BY <1>10 DEF systemVars, remoteVars
  <2>2. QED BY <1>2, <1>4, <1>10, <2>1 DEF systemVars
<1>11. ASSUME NEW p \in Sessions, Program(p) PROVE Counted(q)'
  BY <1>5, <1>6, <1>7, <1>8, <1>11, ProgramKinds DEF RemoteInv, Calls
<1>12. QED BY <1>3, <1>9, <1>10, <1>11, RemoteStepKinds
-----------------------------------------------------------------------------
(* How what is on its way is passed on, and how it is lost.                *)

LEMMA AppendWithin ==
  ASSUME NEW x \in Seq(Nat), NEW y \in Seq(Nat), NEW h \in Nat
  PROVE  Append(x \o y, h) = x \o Append(y, h)
<1>1. x \o y \in Seq(Nat) /\ <<h>> \in Seq(Nat)
  BY ConcatProperties
<1>2. Append(x \o y, h) = (x \o y) \o <<h>> /\ Append(y, h) = y \o <<h>>
  BY <1>1, AppendIsConcat
<1>3. (x \o y) \o <<h>> = x \o (y \o <<h>>)
  BY <1>1, Regroup
<1>4. QED BY <1>2, <1>3

\* Of one message at most one is left when some are lost.
LEMMA DroppedOne ==
  ASSUME NEW x \in Seq(Nat), NEW w \in Seq(Nat), NEW y \in Seq(Nat), NEW a \in Nat,
         x \o (w \o y) \in {<<>>, <<a>>}
  PROVE  x \o y \in {<<>>, <<a>>}
<1>1. CASE w = <<>>
  BY <1>1
<1>2. CASE w # <<>>
  <2>1. Len(w) \in Nat \ {0} /\ Len(x) \in Nat /\ Len(y) \in Nat
    BY <1>2, EmptySeq
  <2>2. w \o y \in Seq(Nat) /\ Len(w \o y) = Len(w) + Len(y)
    BY ConcatProperties
  <2>3. Len(x \o (w \o y)) = Len(x) + (Len(w) + Len(y))
    BY <2>2, ConcatProperties
  <2>4. Len(x \o (w \o y)) \in 0 .. 1
    <3> DEFINE z == x \o (w \o y)
    <3>1. z = <<>> \/ z = <<a>>
      OBVIOUS
    <3>2. Len(<<>>) = 0 /\ Len(<<a>>) = 1
      OBVIOUS
    <3> HIDE DEF z
    <3>3. Len(z) \in 0 .. 1
      BY <3>1, <3>2
    <3>4. QED BY <3>3 DEF z
  <2>5. Len(x) = 0 /\ Len(y) = 0
    BY <2>1, <2>3, <2>4
  <2>6. x = <<>> /\ y = <<>>
    BY <2>5, EmptySeq
  <2>7. QED BY <2>6
<1>3. QED BY <1>1, <1>2

\* Of two messages those that have arrived are left.
LEMMA DroppedTail ==
  ASSUME NEW x \in Seq(Nat), NEW w \in Seq(Nat), NEW z \in Seq(Nat), Len(z) = 2,
         x \o w = z
  PROVE  x \in {<<>>, <<z[1]>>, z}
<1>1. /\ Len(x) \in Nat /\ Len(w) \in Nat /\ Len(x \o w) = Len(x) + Len(w)
      /\ \A i \in 1 .. Len(x) + Len(w) :
           (x \o w)[i] = IF i <= Len(x) THEN x[i] ELSE w[i - Len(x)]
  BY ConcatProperties
<1>2. Len(x) + Len(w) = 2
  BY <1>1
<1>3. ASSUME NEW i \in 1 .. Len(x) PROVE x[i] = z[i]
  <2>1. i \in 1 .. Len(x) + Len(w) /\ i <= Len(x)
    BY <1>1
  <2>2. QED BY <1>1, <2>1
<1>4. CASE Len(x) = 0
  BY <1>4, EmptySeq
<1>5. CASE Len(x) = 1
  <2>1. x[1] = z[1] /\ z[1] \in Nat
    BY <1>3, <1>5, ElementOfSeq
  <2>2. <<z[1]>> \in Seq(Nat) /\ Len(<<z[1]>>) = 1 /\ <<z[1]>>[1] = z[1]
    BY <2>1
  <2>3. \A i \in 1 .. Len(x) : x[i] = <<z[1]>>[i]
    BY <1>5, <2>1, <2>2
  <2>4. x = <<z[1]>>
    BY <1>5, <2>2, <2>3, SeqEqual
  <2>5. QED BY <2>4
<1>6. CASE Len(x) = 2
  BY <1>3, <1>6, SeqEqual
<1>7. Len(x) \in {0, 1, 2}
  <2>1. \A i, j \in Nat : i + j = 2 => i \in {0, 1, 2}
    OBVIOUS
  <2>2. QED BY <1>1, <1>2, <2>1
<1>8. QED BY <1>4, <1>5, <1>6, <1>7

\* Some of what is on its way to q is lost, and no signal comes after it.
Loses(q) ==
  \E x, w, y \in Seq(Nat) :
    /\ Flight(q) = x \o (w \o y) /\ Flight(q)' = x \o y
    /\ q = Device => Cut' /\ (Told => y = <<>>)

SameParts ==
  \A q \in Sessions : Held(q)' = Held(q) /\ Coming(q)' = Coming(q) /\ Uttered(q)' = Uttered(q)

\* The conversation does not move on.
Quiet ==
  /\ UNCHANGED <<script, sent, consumed>>
  /\ \A q \in Sessions : Flight(q)' = Flight(q) \/ Loses(q)

LEMMA PartsKept ==
  ASSUME SameParts
  PROVE  \A q \in Sessions : Flight(q)' = Flight(q)
BY PeerOf DEF SameParts, Flight

\* The calls of the sessions pass messages on.
LEMMA QuietSession ==
  ASSUME RemoteInv, NEW p \in Sessions, InSession(p), ~Says(p), ~Hears(p)
  PROVE  Quiet
<1>1. /\ UNCHANGED <<mail, wire, link, pc, frame, script, sent, consumed>>
      /\ HandsOut(p) \/ Returns(p) \/ Pushes(p) \/ Stays(p)
  BY InSessionEffect DEF RemoteInv
<1>2. /\ cpc \in [Sessions -> CallerPC] /\ inbound \in [Sessions -> Nat]
      /\ reply \in [Sessions -> [state : Answers, msg : Nat]]
      /\ outbound \in [Sessions -> Nat] /\ inboundQueue \in [Sessions -> Seq(Nat)]
  BY DEF RemoteInv, SessionsKept, SessionInv, Inv, TypeOK
<1>3. \A q \in Sessions : Coming(q)' = Coming(q)
  BY <1>1 DEF Coming
<1>4. ASSUME NEW q \in Sessions PROVE Held(q)' = Held(q)
  <2>1. CASE UNCHANGED <<inboundQueue[q], inbound[q]>>
    BY <1>1, <2>1 DEF Held
  <2>2. CASE ~Pushes(p)
    BY <1>1, <2>1, <2>2 DEF HandsOut, Returns, Stays
  <2>3. CASE Pushes(p) /\ q # p
    BY <1>2, <2>1, <2>3 DEF Pushes
  <2>4. CASE Pushes(p) /\ q = p
    <3> DEFINE r == Opt(frame[p]) \o mail[p]
    <3>1. r \in Seq(Nat)
      BY FlightType, ConcatProperties DEF RemoteInv
    <3>2. /\ inbound[p] # NoMsg /\ inboundQueue[p] \in Seq(Nat) /\ inbound[p] \in Nat
      BY <1>2, <2>4 DEF Pushes, RemoteInv, SessionsKept, SessionInv, CallInv
    <3>3. /\ inboundQueue'[p] = Append(inboundQueue[p], inbound[p])
          /\ inbound'[p] = NoMsg /\ r' = r
      BY <1>1, <1>2, <2>4 DEF Pushes
    <3>4. /\ Held(p) = inboundQueue[p] \o (Opt(inbound[p]) \o r)
          /\ Held(p)' = inboundQueue'[p] \o (Opt(inbound'[p]) \o r')
      BY DEF Held
    <3> HIDE DEF r
    <3>5. Append(inboundQueue[p], inbound[p]) \o (Opt(NoMsg) \o r)
            = inboundQueue[p] \o (Opt(inbound[p]) \o r)
      BY <3>1, <3>2, PassedOne
    <3>6. QED BY <2>4, <3>3, <3>4, <3>5
  <2>5. QED BY <2>2, <2>3, <2>4
<1>5. ASSUME NEW q \in Sessions PROVE Uttered(q)' = Uttered(q)
  <2>1. CASE UNCHANGED <<cpc[q], reply[q], outbound[q]>>
    BY <1>1, <2>1 DEF Uttered, InTransit
  <2>2. CASE q # p
    <3>1. UNCHANGED <<cpc[q], reply[q], outbound[q]>>
      BY <1>1, <1>2, <2>2 DEF HandsOut, Returns, Pushes, Stays
    <3>2. QED BY <2>1, <3>1
  <2>3. CASE q = p /\ HandsOut(p)
    <3>1. PICK state \in {"continue", "done"} :
            reply' = [reply EXCEPT ![p] = Answer(state, outbound[p])]
      BY <2>3 DEF HandsOut
    <3>2. /\ cpc[p] = "check" /\ cpc'[p] = "idle" /\ outbound'[p] = NoMsg
          /\ reply'[p].msg = outbound[p]
      BY <1>2, <2>3, <3>1 DEF HandsOut, Answer
    <3>3. pc[p] = "stepping" /\ pc'[p] = "stepping"
      BY <1>1, <3>2 DEF RemoteInv, Stage
    <3>4. InTransit(p) = <<>> /\ InTransit(p)' = Opt(outbound[p]) /\ Opt(outbound'[p]) = <<>>
      BY <3>2, <3>3 DEF InTransit, Opt
    <3>5. Opt(outbound[p]) \in Seq(Nat)
      BY <1>2, OptType
    <3>6. QED BY <2>3, <3>4, <3>5 DEF Uttered
  <2>4. CASE q = p /\ Returns(p)
    <3>1. PICK state \in Answers : reply' = [reply EXCEPT ![p] = Answer(state, NoMsg)]
      BY <2>4 DEF Returns
    <3>2. /\ cpc[p] # "idle" /\ outbound'[p] = outbound[p] /\ reply'[p].msg = NoMsg
      BY <1>2, <2>4, <3>1 DEF Returns, Answer
    <3>3. InTransit(p) = <<>> /\ InTransit(p)' = <<>>
      BY <3>2 DEF InTransit, Opt
    <3>4. QED BY <2>4, <3>2, <3>3 DEF Uttered
  <2>5. CASE q = p /\ (Pushes(p) \/ Stays(p))
    <3>1. /\ UNCHANGED <<reply, outbound>>
          /\ cpc'[p] = "idle" <=> cpc[p] = "idle"
      BY <1>2, <2>5 DEF Pushes, Stays
    <3>2. QED BY <1>1, <2>5, <3>1 DEF Uttered, InTransit
  <2>6. QED BY <1>1, <2>2, <2>3, <2>4, <2>5
<1>6. SameParts
  BY <1>3, <1>4, <1>5 DEF SameParts
<1>7. QED BY <1>1, <1>6, PartsKept DEF Quiet

LEMMA QuietCall ==
  ASSUME RemoteInv, NEW p \in Sessions, Calls(p), UNCHANGED dkgVars
  PROVE  Quiet
<1>1. /\ UNCHANGED <<script, sent, consumed, outbound, inboundQueue, reply, mail, wire, link>>
      /\ cpc[p] = "idle"
  BY CallEffect
<1>2. /\ cpc \in [Sessions -> CallerPC] /\ pc \in [Sessions -> PC]
      /\ frame \in [Sessions -> Nat] /\ inbound \in [Sessions -> Nat]
  BY DEF RemoteInv, RemoteTypeOK, SessionsKept, SessionInv, Inv, TypeOK
<1>3. \A q \in Sessions : Coming(q)' = Coming(q)
  BY <1>1 DEF Coming
<1>4. ASSUME NEW q \in Sessions PROVE Uttered(q)' = Uttered(q)
  <2>1. /\ pc[p] # "stepping"
        /\ pc'[p] # "stepping" \/ cpc'[p] # "idle"
        /\ q # p => pc'[q] = pc[q] /\ cpc'[q] = cpc[q]
    BY <1>2, CallEffect
  <2>2. InTransit(q)' = InTransit(q)
    BY <1>1, <2>1 DEF InTransit
  <2>3. QED BY <1>1, <2>2 DEF Uttered
<1>5. ASSUME NEW q \in Sessions PROVE Held(q)' = Held(q)
  <2>1. CASE UNCHANGED <<inbound[q], frame[q]>>
    BY <1>1, <2>1 DEF Held
  <2>2. CASE ~BeginStep(p)
    <3>1. UNCHANGED <<inbound, frame>>
      BY <2>2 DEF Calls, BeginFinalize, Release, FinalizeCall, FreeCall
    <3>2. QED BY <2>1, <3>1
  <2>3. CASE BeginStep(p)
    <3>1. /\ inbound[p] = NoMsg /\ frame'[p] = NoMsg /\ inbound'[p] = frame[p]
          /\ q # p => inbound'[q] = inbound[q] /\ frame'[q] = frame[q]
      BY <2>3, BeginStepPasses DEF RemoteInv
    <3>2. Opt(NoMsg) \o (Opt(frame[p]) \o mail[p]) = Opt(frame[p]) \o (Opt(NoMsg) \o mail[p])
      <4> DEFINE f == Opt(frame[p])  m == mail[p]  g == f \o m
      <4>1. f \in Seq(Nat) /\ m \in Seq(Nat) /\ g \in Seq(Nat)
        BY FlightType, ConcatProperties DEF RemoteInv
      <4>2. Opt(NoMsg) = <<>>
        BY DEF Opt
      <4> HIDE DEF f, m
      <4>3. <<>> \o m = m
        BY <4>1
      <4> HIDE DEF g
      <4>4. <<>> \o g = g
        BY <4>1
      <4>5. QED BY <4>2, <4>3, <4>4 DEF f, m, g
    <3>3. CASE q = p
      <4>1. /\ inboundQueue'[p] = inboundQueue[p] /\ mail'[p] = mail[p]
            /\ Opt(inbound'[p]) = Opt(frame[p]) /\ Opt(frame'[p]) = Opt(NoMsg)
            /\ Opt(inbound[p]) = Opt(NoMsg)
        BY <1>1, <3>1
      <4>2. QED BY <3>2, <3>3, <4>1 DEF Held
    <3>4. QED BY <2>1, <3>1, <3>3
  <2>4. QED BY <2>2, <2>3
<1>6. SameParts
  BY <1>3, <1>4, <1>5 DEF SameParts
<1>7. QED BY <1>1, <1>6, PartsKept DEF Quiet
\* A program leaves its session alone, and what is on its way.
LEMMA QuietStill ==
  ASSUME UNCHANGED <<allVars, mail, frame>>,
         \A q \in Sessions : Coming(q)' = Coming(q),
         \A q \in Sessions : pc'[q] = "stepping" <=> pc[q] = "stepping"
  PROVE  Quiet
<1>1. UNCHANGED <<script, sent, consumed, outbound, inboundQueue, inbound, cpc, reply>>
  BY SessionsAlone
<1>2. SameParts
  BY <1>1 DEF SameParts, Held, Uttered, InTransit
<1>3. QED BY <1>1, <1>2, PartsKept DEF Quiet

\* The message of an answer is not sent.
LEMMA QuietUnsent ==
  ASSUME RemoteInv, NEW p \in Sessions, Answered(p), UNCHANGED <<allVars, mail, frame>>,
         \A q \in Sessions : Coming(q)' = Coming(q),
         \A q \in Sessions : q # p => pc'[q] = pc[q],
         pc'[p] # "stepping", p = Server => Cut'
  PROVE  Quiet
<1>1. UNCHANGED <<script, sent, consumed, outbound, inboundQueue, inbound, cpc, reply>>
  BY SessionsAlone
<1>2. Peer(p) \in Sessions /\ Peer(p) # p /\ Peer(Peer(p)) = p
  BY PeerOf
<1>3. \A q \in Sessions : Held(q)' = Held(q)
  BY <1>1 DEF Held
<1>4. Uttered(Peer(p))' = Uttered(Peer(p))
  BY <1>1, <1>2 DEF Uttered, InTransit
<1>5. Flight(p)' = Flight(p)
  BY <1>3, <1>4 DEF Flight
<1>6. Loses(Peer(p))
  <2> DEFINE h == Held(Peer(p))  c == Coming(Peer(p))
             w == Opt(reply[p].msg)  y == Opt(outbound[p])
  <2>1. h \in Seq(Nat) /\ c \in Seq(Nat) /\ w \in Seq(Nat) /\ y \in Seq(Nat)
    <3>1. reply[p].msg \in Nat
      BY FlightType DEF RemoteInv
    <3>2. QED BY <1>2, <3>1, FlightType, FlightParts, OptType DEF RemoteInv
  <2>2. Flight(Peer(p)) = h \o (c \o (w \o y))
    BY <1>2 DEF Flight, Uttered, InTransit, Answered
  <2>3. Flight(Peer(p))' = h \o (c \o (<<>> \o y))
    BY <1>1, <1>2, <1>3 DEF Flight, Uttered, InTransit
  <2>4. Peer(p) = Device => Cut' /\ ~Told
    BY PeerOf DEF Answered, Told
  <2> HIDE DEF h, c, w, y
  <2>5. h \o c \in Seq(Nat) /\ w \o y \in Seq(Nat) /\ <<>> \o y = y
    BY <2>1, ConcatProperties
  <2>6. h \o (c \o y) = (h \o c) \o y
    BY <2>1, Regroup
  <2>7. h \o (c \o (w \o y)) = (h \o c) \o (w \o y)
    <3> DEFINE d == w \o y
    <3>1. d \in Seq(Nat)
      BY <2>5
    <3> HIDE DEF d
    <3>2. h \o (c \o d) = (h \o c) \o d
      BY <2>1, <3>1, Regroup
    <3>3. QED BY <3>2 DEF d
  <2>8. /\ Flight(Peer(p)) = (h \o c) \o (w \o y) /\ Flight(Peer(p))' = (h \o c) \o y
    BY <2>2, <2>3, <2>5, <2>6, <2>7
  <2>9. QED BY <2>1, <2>4, <2>5, <2>8 DEF Loses
<1>7. QED BY <1>1, <1>5, <1>6, PeerOf DEF Quiet

\* The connection is lost with what it carried.
LEMMA QuietLost ==
  ASSUME RemoteInv, UNCHANGED <<allVars, mail, frame, pc>>, link' = "closed"
  PROVE  Quiet
<1>1. UNCHANGED <<script, sent, consumed, outbound, inboundQueue, inbound, cpc, reply>>
  BY SessionsAlone
<1>2. ASSUME NEW q \in Sessions PROVE Loses(q)
  <2> DEFINE h == Held(q)  c == Coming(q)  u == Uttered(Peer(q))
  <2>1. h \in Seq(Nat) /\ c \in Seq(Nat) /\ u \in Seq(Nat)
    BY PeerOf, FlightType, FlightParts DEF RemoteInv
  <2>2. /\ Held(q)' = h /\ Uttered(Peer(q))' = u /\ Coming(q)' = <<>>
    BY <1>1, PeerOf DEF Held, Uttered, InTransit, Coming
  <2>3. Flight(q) = h \o (c \o u) /\ Flight(q)' = h \o (<<>> \o u)
    BY <2>2 DEF Flight
  <2>4. <<>> \o u = u
    <3> HIDE DEF u
    <3>1. QED BY <2>1
  <2>5. q = Device => Cut' /\ (Told => u = <<>>)
    BY PeerOf DEF Cut, Told, Uttered, InTransit, Opt
  <2> HIDE DEF h, c, u
  <2>6. QED BY <2>1, <2>3, <2>4, <2>5 DEF Loses
<1>3. QED BY <1>1, <1>2 DEF Quiet

\* A frame is taken out of the queue of the transport.
LEMMA QuietReceive ==
  ASSUME RemoteInv, NEW p \in Sessions, Receive(p)
  PROVE  Quiet
<1>1. /\ UNCHANGED <<script, sent, consumed, outbound, inboundQueue, inbound, cpc, reply>>
      /\ UNCHANGED <<wire, link>>
  BY SessionsAlone DEF Receive
<1>2. /\ pc[p] = "wait" /\ mail[p] # <<>>
      /\ \E to \in {"step", "finalize"} : pc' = [pc EXCEPT ![p] = to]
      /\ frame' = [frame EXCEPT ![p] = Head(mail[p])]
      /\ mail' = [mail EXCEPT ![p] = Tail(mail[p])]
  BY DEF Receive, ProgramGoes
<1>3. /\ pc \in [Sessions -> PC] /\ frame \in [Sessions -> Nat]
      /\ mail \in [Sessions -> Seq(Nat \ {NoMsg})] /\ frame[p] = NoMsg
  BY <1>2 DEF RemoteInv, RemoteTypeOK, Stage
<1>4. ASSUME NEW q \in Sessions PROVE Coming(q)' = Coming(q) /\ Uttered(q)' = Uttered(q)
  BY <1>1, <1>2, <1>3 DEF Coming, Uttered, InTransit
<1>5. ASSUME NEW q \in Sessions PROVE Held(q)' = Held(q)
  <2>1. CASE q # p
    BY <1>1, <1>2, <1>3, <2>1 DEF Held
  <2>2. CASE q = p
    <3> DEFINE m == mail[p]
    <3>1. m \in Seq(Nat \ {NoMsg}) /\ m # <<>> /\ m \in Seq(Nat)
      BY <1>2, <1>3, FlightType DEF RemoteInv
    <3>2. frame'[p] = Head(m) /\ mail'[p] = Tail(m)
      BY <1>2, <1>3
    <3> HIDE DEF m
    <3>3. Head(m) # NoMsg /\ Tail(m) \in Seq(Nat)
      BY <3>1, HeadTailProperties
    <3>4. Opt(Head(m)) \o (Tail(m) \o <<>>) = Opt(NoMsg) \o (m \o <<>>)
      <4>1. <<>> \in Seq(Nat)
        OBVIOUS
      <4>2. QED BY <3>1, <3>3, <4>1, TakenOut
    <3>5. Tail(m) \o <<>> = Tail(m) /\ m \o <<>> = m
      BY <3>1, <3>3
    <3>6. Opt(frame'[p]) \o mail'[p] = Opt(frame[p]) \o m
      BY <1>3, <3>2, <3>4, <3>5
    <3>7. QED BY <1>1, <2>2, <3>6 DEF Held, m
  <2>3. QED BY <2>1, <2>2
<1>6. SameParts
  BY <1>4, <1>5 DEF SameParts
<1>7. QED BY <1>1, <1>6, PartsKept DEF Quiet

\* A frame arrives.
LEMMA QuietDeliver ==
  ASSUME RemoteInv, NEW p \in Sessions, Deliver(p)
  PROVE  Quiet
<1>1. /\ UNCHANGED <<script, sent, consumed, outbound, inboundQueue, inbound, cpc, reply>>
      /\ UNCHANGED <<allVars, link, pc, frame>>
      /\ link # "closed" /\ wire[p] # <<>>
      /\ wire' = [wire EXCEPT ![p] = Tail(wire[p])]
  BY SessionsAlone DEF Deliver
<1>2. /\ mail \in [Sessions -> Seq(Nat \ {NoMsg})]
      /\ wire \in [Sessions -> Seq(Nat \ {NoMsg})]
  BY DEF RemoteInv, RemoteTypeOK
<1>3. CASE p = Device /\ AttachedAs = Device
  <2>1. UNCHANGED mail
    BY <1>3 DEF Deliver
  <2>2. \A q \in Sessions : Coming(q)' = Coming(q)
    BY <1>1, <1>2, <1>3 DEF Coming
  <2>3. QED BY <1>1, <2>1, <2>2, QuietStill
<1>4. CASE ~(p = Device /\ AttachedAs = Device)
  <2>1. mail' = [mail EXCEPT ![p] = Append(mail[p], Head(wire[p]))]
    BY <1>4 DEF Deliver
  <2>2. \A q \in Sessions : Uttered(q)' = Uttered(q)
    BY <1>1 DEF Uttered, InTransit
  <2>3. ASSUME NEW q \in Sessions, q # p PROVE Flight(q)' = Flight(q)
    <3>1. Held(q)' = Held(q) /\ Coming(q)' = Coming(q)
      BY <1>1, <1>2, <2>1, <2>3 DEF Held, Coming
    <3>2. QED BY <2>2, <3>1, PeerOf DEF Flight
  <2>4. Flight(p)' = Flight(p)
    <3> DEFINE n == inboundQueue[p]  i == Opt(inbound[p])  f == Opt(frame[p])
               m == mail[p]  c == wire[p]  u == Uttered(Peer(p))  h == Head(c)
    <3>1. /\ n \in Seq(Nat) /\ i \in Seq(Nat) /\ f \in Seq(Nat) /\ m \in Seq(Nat)
          /\ c \in Seq(Nat) /\ c # <<>> /\ u \in Seq(Nat)
      BY <1>1, PeerOf, FlightType, FlightParts DEF RemoteInv
    <3>2. h \in Nat
      BY <3>1, HeadTailProperties
    <3>3. Flight(p) = (n \o (i \o (f \o m))) \o (c \o u)
      BY <1>1, <1>4 DEF Flight, Held, Coming
    <3>4. Flight(p)' = (n \o (i \o (f \o Append(m, h)))) \o (Tail(c) \o u)
      <4>1. mail'[p] = Append(m, h) /\ wire'[p] = Tail(c) /\ Uttered(Peer(p))' = u
        BY <1>1, <1>2, <2>1, <2>2, PeerOf
      <4>2. Coming(p)' = Tail(c)
        BY <1>1, <1>4, <4>1 DEF Coming
      <4>3. QED BY <1>1, <4>1, <4>2 DEF Flight, Held
    <3> HIDE DEF n, i, f, m, c, u, h
    <3>5. f \o m \in Seq(Nat) /\ f \o Append(m, h) = Append(f \o m, h)
      BY <3>1, <3>2, AppendWithin, ConcatProperties
    <3> DEFINE fm == f \o m
    <3>6. fm \in Seq(Nat) /\ f \o Append(m, h) = Append(fm, h)
      BY <3>5
    <3> HIDE DEF fm
    <3>7. i \o fm \in Seq(Nat) /\ i \o Append(fm, h) = Append(i \o fm, h)
      BY <3>1, <3>2, <3>6, AppendWithin, ConcatProperties
    <3> DEFINE ifm == i \o fm
    <3>8. ifm \in Seq(Nat) /\ i \o Append(fm, h) = Append(ifm, h)
      BY <3>7
    <3> HIDE DEF ifm
    <3>9. n \o ifm \in Seq(Nat) /\ n \o Append(ifm, h) = Append(n \o ifm, h)
      BY <3>1, <3>2, <3>8, AppendWithin, ConcatProperties
    <3> DEFINE x == n \o ifm
    <3>10. x \in Seq(Nat) /\ n \o Append(ifm, h) = Append(x, h)
      BY <3>9
    <3> HIDE DEF x
    <3>11. Append(x, Head(c)) \o (Tail(c) \o u) = x \o (c \o u)
      <4> DEFINE S == Nat
      <4>1. x \in Seq(S) /\ c \in Seq(S) /\ c # <<>> /\ u \in Seq(S)
        BY <3>1, <3>10
      <4> HIDE DEF S
      <4>2. QED BY <4>1, PassedOn
    <3>12. Flight(p)' = Append(x, h) \o (Tail(c) \o u)
      BY <3>4, <3>6, <3>8, <3>10
    <3>13. Flight(p) = x \o (c \o u)
      BY <3>3 DEF x, ifm, fm
    <3>14. QED BY <3>11, <3>12, <3>13 DEF h
  <2>5. QED BY <1>1, <2>3, <2>4 DEF Quiet
<1>5. QED BY <1>3, <1>4
\* The message of an answer is put on the wire, unless nobody is there.
LEMMA QuietStepped ==
  ASSUME RemoteInv, NEW p \in Sessions, Stepped(p)
  PROVE  Quiet
<1> DEFINE m == reply[p].msg  d == Peer(p)
<1>1. /\ UNCHANGED <<script, sent, consumed, outbound, inboundQueue, inbound, cpc, reply>>
      /\ UNCHANGED <<allVars, mail, link, frame>>
      /\ Answered(p) /\ Sent(p, m)
      /\ p = Device /\ m # NoMsg => AttachedAs = Server /\ link # "closed"
  BY SessionsAlone DEF Stepped
<1>2. \E to \in {"finalize", "wait"} : pc' = [pc EXCEPT ![p] = to]
  BY DEF Stepped, ProgramGoes
<1>3. /\ pc \in [Sessions -> PC] /\ wire \in [Sessions -> Seq(Nat \ {NoMsg})]
      /\ link \in {"open", "closing", "closed"}
  BY DEF RemoteInv, RemoteTypeOK
<1>4. /\ d \in Sessions /\ d # p /\ Peer(d) = p
      /\ pc[p] = "stepping" /\ cpc[p] = "idle" /\ pc'[p] # "stepping"
      /\ \A q \in Sessions : q # p => pc'[q] = pc[q]
  BY <1>1, <1>2, <1>3, PeerOf DEF Answered
<1>5. CASE ~(m # NoMsg /\ (p = Server => link = "open"))
  <2>1. wire' = wire
    BY <1>1, <1>5 DEF Sent
  <2>2. \A q \in Sessions : Coming(q)' = Coming(q)
    BY <1>1, <2>1 DEF Coming
  <2>3. CASE m = NoMsg
    <3>1. SameParts
      <4>1. \A q \in Sessions : Held(q)' = Held(q)
        BY <1>1 DEF Held
      <4>2. ASSUME NEW q \in Sessions PROVE InTransit(q)' = InTransit(q)
        <5>1. CASE q = p
          BY <1>1, <1>4, <2>3, <5>1 DEF InTransit, Opt
        <5>2. CASE q # p
          BY <1>1, <1>4, <5>2 DEF InTransit
        <5>3. QED BY <5>1, <5>2
      <4>3. QED BY <1>1, <2>2, <4>1, <4>2 DEF SameParts, Uttered
    <3>2. QED BY <1>1, <3>1, PartsKept DEF Quiet
  <2>4. CASE m # NoMsg
    <3>1. p = Server /\ link # "open"
      BY <1>5, <2>4
    <3>2. link = "closed"
      BY <1>3, <1>4, <3>1 DEF RemoteInv, Stage
    <3>3. Cut'
      BY <1>1, <3>2 DEF Cut
    <3>4. QED BY <1>1, <1>4, <2>2, <3>3, QuietUnsent
  <2>5. QED BY <2>3, <2>4
<1>6. CASE m # NoMsg /\ (p = Server => link = "open") /\ d = Device /\ AttachedAs = Device
  <2>1. \A q \in Sessions : Coming(q)' = Coming(q)
    BY <1>1, <1>3, <1>4, <1>6, PeerOf DEF Coming, Sent
  <2>2. Cut'
    BY <1>6 DEF Cut
  <2>3. QED BY <1>1, <1>4, <2>1, <2>2, QuietUnsent
<1>7. CASE m # NoMsg /\ (p = Server => link = "open") /\ ~(d = Device /\ AttachedAs = Device)
  <2> DEFINE c == wire[d]  o == Opt(outbound[p])  h == Held(d)
  <2>1. c \in Seq(Nat) /\ o \in Seq(Nat) /\ h \in Seq(Nat) /\ m \in Nat
    BY <1>4, FlightType, FlightParts DEF RemoteInv
  <2>2. link # "closed"
    BY <1>1, <1>7, PeerOf
  <2>3. wire' = [wire EXCEPT ![d] = Append(c, m)]
    BY <1>1, <1>7 DEF Sent
  <2>4. Coming(d) = c /\ Coming(d)' = Append(c, m)
    BY <1>1, <1>3, <1>4, <1>7, <2>2, <2>3 DEF Coming
  <2>5. Coming(p)' = Coming(p)
    BY <1>1, <1>3, <1>4, <2>3 DEF Coming
  <2>6. \A q \in Sessions : Held(q)' = Held(q)
    BY <1>1 DEF Held
  <2>7. Uttered(d)' = Uttered(d)
    BY <1>1, <1>4 DEF Uttered, InTransit
  <2>8. Uttered(p) = Opt(m) \o o /\ Uttered(p)' = Opt(NoMsg) \o o
    BY <1>1, <1>4 DEF Uttered, InTransit, Opt
  <2>9. Flight(p)' = Flight(p)
    BY <2>5, <2>6, <2>7 DEF Flight
  <2>10. Flight(d) = h \o (c \o (Opt(m) \o o))
    BY <1>4, <2>4, <2>8 DEF Flight
  <2>11. Flight(d)' = h \o (Append(c, m) \o (Opt(NoMsg) \o o))
    BY <1>4, <2>4, <2>6, <2>8 DEF Flight
  <2>12. Append(c, m) \o (Opt(NoMsg) \o o) = c \o (Opt(m) \o o)
    <3> HIDE DEF c, o, m
    <3>1. QED BY <1>7, <2>1, PassedOne
  <2>13. QED BY <1>1, <2>9, <2>10, <2>11, <2>12, PeerOf DEF Quiet
<1>8. QED BY <1>5, <1>6, <1>7

LEMMA QuietAlone ==
  ASSUME RemoteInv, NEW p \in Sessions, Alone(p), ~(p = Server /\ SendDoneSignal),
         UNCHANGED allVars
  PROVE  Quiet
<1> USE DEF ProgramGoes
<1>1. pc \in [Sessions -> PC]
  BY DEF RemoteInv, RemoteTypeOK
<1>2. ASSUME UNCHANGED <<wire, link>> PROVE \A q \in Sessions : Coming(q)' = Coming(q)
  BY <1>2 DEF Coming
<1>3. CASE StepThrows(p)
  <2>1. UNCHANGED <<mail, wire, link, frame>>
    BY <1>3 DEF StepThrows
  <2>2. /\ \E to \in {"close", "failed"} : pc' = [pc EXCEPT ![p] = to]
        /\ p = Server => pc' = [pc EXCEPT ![p] = "close"]
    BY <1>3 DEF StepThrows, Rejected
  <2>3. CASE pc[p] # "stepping"
    BY <1>1, <1>2, <2>1, <2>2, <2>3, QuietStill
  <2>4. CASE pc[p] = "stepping"
    <3>1. Answered(p)
      BY <1>3, <2>4 DEF StepThrows
    <3>2. p = Server => Cut'
      BY <1>1, <2>2 DEF Cut
    <3>3. QED BY <1>1, <1>2, <2>1, <2>2, <3>1, <3>2, QuietUnsent
  <2>5. QED BY <2>3, <2>4
<1>4. CASE p = Device /\ DeviceSendThrows
  <2>1. /\ Answered(p) /\ UNCHANGED <<mail, wire, link, frame>> /\ p # Server
        /\ pc' = [pc EXCEPT ![p] = "failed"]
    BY <1>4, PeerOf DEF DeviceSendThrows
  <2>2. QED BY <1>1, <1>2, <2>1, QuietUnsent
<1>5. CASE FinalizeThrows(p) \/ HaveKeypair(p) \/ Save(p)
  <2>1. UNCHANGED <<mail, wire, link, frame>>
    BY <1>5 DEF FinalizeThrows, HaveKeypair, Save
  <2>2. /\ pc[p] # "stepping"
        /\ \E to \in {"close", "failed", "save", "signal", "ok"} : pc' = [pc EXCEPT ![p] = to]
    BY <1>5 DEF FinalizeThrows, HaveKeypair, Save, Rejected
  <2>3. QED BY <1>1, <1>2, <2>1, <2>2, QuietStill
<1>6. CASE p = Server /\ CloseSession
  <2>1. /\ UNCHANGED <<mail, wire, frame>> /\ pc[p] = "close"
        /\ pc' = [pc EXCEPT ![p] = "closed"]
        /\ link' = "closed" <=> link = "closed"
    BY <1>6 DEF CloseSession
  <2>2. \A q \in Sessions : Coming(q)' = Coming(q)
    BY <2>1 DEF Coming
  <2>3. QED BY <1>1, <2>1, <2>2, QuietStill
<1>7. QED BY <1>3, <1>4, <1>5, <1>6, QuietReceive, QuietStepped DEF Alone

LEMMA QuietConnection ==
  ASSUME RemoteInv, ConnectionMoves
  PROVE  Quiet
<1>1. CASE DeviceSeesClose \/ Disconnect
  BY <1>1, QuietLost DEF DeviceSeesClose, Disconnect
<1>2. CASE ServerSeesClose
  <2>1. UNCHANGED <<allVars, mail, wire, link, pc, frame>>
    BY <1>2 DEF ServerSeesClose
  <2>2. \A q \in Sessions : Coming(q)' = Coming(q)
    BY <2>1 DEF Coming
  <2>3. QED BY <2>1, <2>2, QuietStill
<1>3. QED BY <1>1, <1>2, QuietDeliver DEF ConnectionMoves

\* A conversation moves on by what a session says or hears; the signal is sent
\* by the server; and every other step passes messages on, or loses them.
LEMMA QuietUnless ==
  ASSUME RemoteInv, [RemoteNext]_systemVars
  PROVE  \/ Quiet
         \/ SendDoneSignal
         \/ \E p \in Sessions : InSession(p) /\ (Says(p) \/ Hears(p))
<1>1. CASE UNCHANGED systemVars
  <2>1. UNCHANGED <<allVars, mail, wire, link, pc, frame>>
    BY <1>1 DEF systemVars, remoteVars
  <2>2. \A q \in Sessions : Coming(q)' = Coming(q)
    BY <2>1 DEF Coming
  <2>3. QED BY <2>1, <2>2, QuietStill
<1>2. ASSUME NEW p \in Sessions, Program(p) PROVE Quiet \/ SendDoneSignal
  BY <1>2, ProgramKinds, QuietCall, QuietAlone DEF RemoteInv
<1>3. QED BY <1>1, <1>2, QuietSession, QuietConnection, RemoteStepKinds
-----------------------------------------------------------------------------
(* The two sides keep in step.                                             *)

\* Once the server has signalled it says no more, and a cut connection stays
\* so.
LEMMA ToldStays ==
  ASSUME RemoteInv, [RemoteNext]_systemVars
  PROVE  (Told => Told') /\ (Cut => Cut')
<1>1. /\ pc \in [Sessions -> PC] /\ outbound \in [Sessions -> Nat]
      /\ script \in [Sessions -> Seq(Op)] /\ Server \in Sessions
  BY RemoteAssumption
     DEF RemoteInv, RemoteTypeOK, SessionsKept, SessionInv, Inv, TypeOK, Op
<1>2. /\ link = "closed" => link' = "closed"
      /\ pc[Server] \in {"close", "closed"} => pc'[Server] \in {"close", "closed"}
  <2>1. CASE UNCHANGED <<link, pc>>
    BY <2>1
  <2>2. ASSUME NEW p \in Sessions, Calls(p)
        PROVE  /\ UNCHANGED link
               /\ pc[Server] \in {"close", "closed"} => pc'[Server] \in {"close", "closed"}
    <3>1. /\ UNCHANGED link /\ pc[p] \in {"step", "finalize", "finwait"}
          /\ \E to \in PC : pc' = [pc EXCEPT ![p] = to]
      BY <2>2, CallEffect DEF PC
    <3>2. QED BY <1>1, <3>1
  <2>3. ASSUME NEW p \in Sessions, Alone(p)
        PROVE  /\ link = "closed" => link' = "closed"
               /\ pc[Server] \in {"close", "closed"} => pc'[Server] \in {"close", "closed"}
    <3>1. CASE p = Server /\ CloseSession
      BY <1>1, <3>1 DEF CloseSession, ProgramGoes
    <3>2. CASE ~(p = Server /\ CloseSession)
      <4>1. UNCHANGED link
        BY <2>3, <3>2 DEF Alone, Receive, Stepped, StepThrows, FinalizeThrows,
           HaveKeypair, Save, DeviceSendThrows, SendDoneSignal
      <4>2. pc[p] \in {"wait", "step", "stepping", "finalize", "release", "save", "signal"}
        BY <2>3, <3>2 DEF Alone, Receive, Stepped, StepThrows, FinalizeThrows,
           HaveKeypair, Save, DeviceSendThrows, SendDoneSignal, ProgramGoes, Answered
      <4>3. \E to \in PC : pc' = [pc EXCEPT ![p] = to]
        BY <2>3, <3>2 DEF Alone, Receive, Stepped, StepThrows, FinalizeThrows,
           HaveKeypair, Save, DeviceSendThrows, SendDoneSignal, ProgramGoes, Rejected, PC
      <4>4. QED BY <1>1, <4>1, <4>2, <4>3
    <3>3. QED BY <3>1, <3>2
  <2>4. CASE ConnectionMoves
    BY <2>4 DEF ConnectionMoves, Deliver, DeviceSeesClose, Disconnect, ServerSeesClose
  <2>5. ASSUME NEW p \in Sessions, InSession(p) PROVE UNCHANGED <<link, pc>>
    BY <2>5, InSessionEffect DEF RemoteInv
  <2>6. CASE UNCHANGED systemVars
    BY <2>1, <2>6 DEF systemVars, remoteVars
  <2>7. QED
    BY <2>1, <2>2, <2>3, <2>4, <2>5, <2>6, RemoteStepKinds, ProgramKinds DEF RemoteInv
<1>3. ASSUME script[Server] = <<>>, outbound[Server] = NoMsg
      PROVE  script'[Server] = <<>> /\ outbound'[Server] = NoMsg
  <2>1. CASE UNCHANGED <<script, outbound>>
    BY <1>3, <2>1
  <2>2. ASSUME NEW p \in Sessions, InSession(p)
        PROVE  script'[Server] = <<>> /\ outbound'[Server] = NoMsg
    <3>1. CASE Says(p) \/ Hears(p)
      BY <1>1, <1>3, <3>1 DEF Says, Hears
    <3>2. CASE ~(Says(p) \/ Hears(p))
      <4>1. /\ UNCHANGED script
            /\ HandsOut(p) \/ Returns(p) \/ Pushes(p) \/ Stays(p)
        BY <2>2, <3>2, InSessionEffect DEF RemoteInv
      <4>2. outbound' = outbound \/ outbound' = [outbound EXCEPT ![p] = NoMsg]
        BY <4>1 DEF HandsOut, Returns, Pushes, Stays
      <4>3. QED BY <1>1, <1>3, <4>1, <4>2
    <3>3. QED BY <3>1, <3>2
  <2>3. ASSUME UNCHANGED allVars PROVE UNCHANGED <<script, outbound>>
    BY <2>3, SessionsAlone
  <2>4. ASSUME NEW p \in Sessions, Calls(p) PROVE UNCHANGED <<script, outbound>>
    BY <2>4, CallEffect
  <2>5. QED
    BY <2>1, <2>2, <2>3, <2>4, RemoteStepKinds, ProgramKinds, ConnectionAlone
       DEF RemoteInv, systemVars
<1>4. QED BY <1>2, <1>3 DEF Told, Cut

\* A message passed on is where it may be, and so is one that is lost.
LEMMA LockstepQuiet ==
  ASSUME RemoteInv, Quiet, Told => Told', Cut => Cut'
  PROVE  Lockstep'
<1>1. \A p \in Sessions : Leads(p) => Leads(p)'
  BY DEF Quiet, Leads
<1>2. Server \in Sessions /\ Device \in Sessions /\ DoneSignal \in Nat /\ Server # Device
  BY RemoteAssumption
<1>3. sent[Server] \in Nat /\ sent[Device] \in Nat
  BY <1>2 DEF RemoteInv, SessionsKept, SessionInv, Inv, TypeOK
<1>4. Trailing \subseteq Trailing' /\ <<>> \in Trailing'
  BY DEF Trailing
<1>5. ASSUME NEW q \in Sessions, NEW a \in Nat, Flight(q) \in {<<>>, <<a>>}
      PROVE  /\ Flight(q)' \in {<<>>, <<a>>}
             /\ Flight(q)' = Flight(q) \/ (q = Device => Cut')
  <2>1. CASE Flight(q)' = Flight(q)
    BY <1>5, <2>1
  <2>2. CASE Loses(q)
    <3>1. PICK x, w, y \in Seq(Nat) :
            /\ Flight(q) = x \o (w \o y) /\ Flight(q)' = x \o y
            /\ q = Device => Cut' /\ (Told => y = <<>>)
      BY <2>2 DEF Loses
    <3>2. x \o y \in {<<>>, <<a>>}
      <4>1. x \o (w \o y) \in {<<>>, <<a>>}
        BY <1>5, <3>1
      <4>2. QED BY <4>1, DroppedOne
    <3>3. QED BY <3>1, <3>2
  <2>3. QED BY <2>1, <2>2 DEF Quiet
<1>6. ASSUME NEW q \in Sessions, Flight(q) = <<>> PROVE Flight(q)' = <<>>
  <2>1. Flight(q)' \in {<<>>, <<1>>} /\ Flight(q)' \in {<<>>, <<2>>}
    BY <1>5, <1>6
  <2>2. <<1>> # <<2>>
    OBVIOUS
  <2>3. QED BY <2>1, <2>2
<1>7. CASE Level
  <2>1. Flight(Server)' = <<>>
    BY <1>2, <1>6, <1>7 DEF Level
  <2>2. Flight(Device)' \in Trailing'
    <3>1. CASE Flight(Device) = <<>>
      BY <1>2, <1>4, <1>6, <3>1
    <3>2. CASE Flight(Device) = <<DoneSignal>> /\ Told
      <4>1. Flight(Device)' \in {<<>>, <<DoneSignal>>} /\ Told'
        BY <1>2, <1>5, <3>2
      <4>2. QED BY <4>1 DEF Trailing
    <3>3. QED BY <1>7, <3>1, <3>2 DEF Level, Trailing
  <2>3. Level'
    BY <1>7, <2>1, <2>2 DEF Level, Quiet
  <2>4. QED BY <2>3 DEF Lockstep
<1>8. CASE DeviceLeads
  <2>1. Flight(Device)' = <<>> /\ Leads(Device)'
    BY <1>1, <1>2, <1>6, <1>8 DEF DeviceLeads
  <2>2. Flight(Server)' \in {<<>>, <<sent[Device]>>}
    BY <1>2, <1>3, <1>5, <1>8 DEF DeviceLeads
  <2>3. sent' = sent
    BY DEF Quiet
  <2>4. QED BY <2>1, <2>2, <2>3 DEF DeviceLeads, Lockstep
<1>9. CASE ServerLeads
  <2>1. Flight(Server)' = <<>> /\ Leads(Server)' /\ sent' = sent
    BY <1>1, <1>2, <1>6, <1>9 DEF ServerLeads, Quiet
  <2>2. \/ Flight(Device)' = <<>> /\ Cut'
        \/ \E t \in Trailing' : Flight(Device)' = <<sent[Server]>> \o t
    <3>1. CASE Flight(Device) = <<>> /\ Cut
      BY <1>2, <1>6, <3>1
    <3>2. CASE Flight(Device) = <<sent[Server]>> \o <<>>
      <4>1. Flight(Device) = <<sent[Server]>>
        BY <3>2
      <4>2. /\ Flight(Device)' \in {<<>>, <<sent[Server]>>}
            /\ Flight(Device)' = Flight(Device) \/ Cut'
        BY <1>2, <1>3, <1>5, <4>1
      <4>3. <<sent[Server]>> = <<sent[Server]>> \o <<>> /\ <<sent[Server]>> # <<>>
        OBVIOUS
      <4>4. QED BY <1>4, <4>1, <4>2, <4>3
    <3>3. CASE Flight(Device) = <<sent[Server]>> \o <<DoneSignal>> /\ Told
      <4> DEFINE s == <<sent[Server]>>  d == <<DoneSignal>>  z == s \o d
      <4>1. /\ Flight(Device) = z /\ z \in Seq(Nat) /\ Len(z) = 2 /\ <<z[1]>> = s
            /\ s \o <<>> = s
        <5>1. /\ s \in Seq(Nat) /\ d \in Seq(Nat) /\ Len(s) = 1 /\ Len(d) = 1
              /\ s[1] = sent[Server]
          BY <1>2, <1>3
        <5>2. /\ z \in Seq(Nat) /\ Len(z) = Len(s) + Len(d)
              /\ \A i \in 1 .. Len(s) + Len(d) :
                   z[i] = IF i <= Len(s) THEN s[i] ELSE d[i - Len(s)]
          BY <5>1, ConcatProperties
        <5>3. s \o <<>> = s
          OBVIOUS
        <5> HIDE DEF z
        <5>4. Len(z) = 2 /\ z[1] = s[1]
          BY <5>1, <5>2
        <5>5. Flight(Device) = z
          BY <3>3 DEF z
        <5>6. QED BY <5>1, <5>2, <5>3, <5>4, <5>5
      <4>2. <<DoneSignal>> \in Trailing'
        BY <3>3 DEF Trailing
      <4> HIDE DEF z
      <4>3. CASE Flight(Device)' = Flight(Device)
        BY <3>3, <4>2, <4>3
      <4>4. CASE Loses(Device)
        <5>1. PICK x, w, y \in Seq(Nat) :
                /\ Flight(Device) = x \o (w \o y) /\ Flight(Device)' = x \o y
                /\ Cut' /\ (Told => y = <<>>)
          BY <4>4 DEF Loses
        <5>2. x \o w = z /\ Flight(Device)' = x
          BY <3>3, <4>1, <5>1
        <5>3. x \in {<<>>, <<z[1]>>, z}
          BY <4>1, <5>2, DroppedTail
        <5>4. x = s \o <<>> \/ x = s \o d \/ x = <<>>
          BY <4>1, <5>3 DEF z
        <5>5. QED BY <1>4, <4>2, <5>1, <5>2, <5>4
      <4>5. QED BY <1>2, <4>3, <4>4 DEF Quiet
    <3>4. QED BY <1>9, <3>1, <3>2, <3>3 DEF ServerLeads, Trailing
  <2>3. ServerLeads'
    BY <2>1, <2>2 DEF ServerLeads
  <2>4. QED BY <2>3 DEF Lockstep
<1>10. QED BY <1>7, <1>8, <1>9 DEF RemoteInv, Lockstep

\* The signal follows what was sent before it, or nobody will get it.
LEMMA SignalStep ==
  ASSUME RemoteInv, SendDoneSignal, Told => Told', Cut => Cut'
  PROVE  Lockstep'
<1> DEFINE h == Held(Device)  c == Coming(Device)
<1>1. /\ UNCHANGED <<script, sent, consumed, outbound, inboundQueue, inbound, cpc, reply>>
      /\ UNCHANGED <<allVars, mail, link, frame>>
      /\ pc[Server] = "signal" /\ pc' = [pc EXCEPT ![Server] = "close"]
      /\ Sent(Server, DoneSignal)
  BY SessionsAlone DEF SendDoneSignal, ProgramGoes
<1>2. /\ Server \in Sessions /\ Device \in Sessions /\ Server # Device
      /\ Peer(Server) = Device /\ Peer(Device) = Server
      /\ DoneSignal \in Nat /\ DoneSignal # NoMsg /\ sent[Server] \in Nat
  BY PeerOf, RemoteAssumption DEF RemoteInv, SessionsKept, SessionInv, Inv, TypeOK
<1>3. script[Server] = <<>> /\ outbound[Server] = NoMsg
  BY <1>1, <1>2 DEF RemoteInv, Stage, Ended
<1>4. ~Told /\ Told' /\ Trailing = {<<>>} /\ Trailing' = {<<>>, <<DoneSignal>>}
  <2>1. pc'[Server] = "close"
    BY <1>1, <1>2 DEF RemoteInv, RemoteTypeOK
  <2>2. ~Told /\ Told'
    BY <1>1, <1>3, <2>1 DEF Told
  <2>3. QED BY <2>2 DEF Trailing
<1>5. \A q \in Sessions : pc'[q] = "stepping" <=> pc[q] = "stepping"
  BY <1>1, <1>2 DEF RemoteInv, RemoteTypeOK
<1>6. CASE ~(link = "open" /\ AttachedAs # Device)
  <2>1. \A q \in Sessions : Coming(q)' = Coming(q)
    <3>1. wire \in [Sessions -> Seq(Nat \ {NoMsg})] /\ link \in {"open", "closing", "closed"}
      BY DEF RemoteInv, RemoteTypeOK
    <3>2. QED BY <1>1, <1>2, <1>6, <3>1 DEF Coming, Sent
  <2>2. Quiet
    BY <1>1, <1>5, <2>1, QuietStill
  <2>3. QED BY <2>2, LockstepQuiet
<1>7. CASE link = "open" /\ AttachedAs # Device
  <2>1. h \in Seq(Nat) /\ c \in Seq(Nat)
    BY <1>2, FlightType, FlightParts DEF RemoteInv
  <2>2. /\ Coming(Server)' = Coming(Server) /\ Coming(Device)' = Append(c, DoneSignal)
    <3>1. wire \in [Sessions -> Seq(Nat \ {NoMsg})]
      BY DEF RemoteInv, RemoteTypeOK
    <3>2. wire' = [wire EXCEPT ![Device] = Append(wire[Device], DoneSignal)]
      BY <1>1, <1>2, <1>7 DEF Sent
    <3>3. QED BY <1>1, <1>2, <1>7, <3>1, <3>2 DEF Coming
  <2>3. \A q \in Sessions : Held(q)' = Held(q) /\ Uttered(q)' = Uttered(q)
    BY <1>1, <1>5 DEF Held, Uttered, InTransit
  <2>4. Flight(Server)' = Flight(Server)
    BY <1>2, <2>2, <2>3 DEF Flight
  <2>5. Uttered(Server) = <<>>
    BY <1>1, <1>3 DEF Uttered, InTransit, Opt
  <2>6. Flight(Device) = h \o (c \o <<>>)
        /\ Flight(Device)' = h \o (Append(c, DoneSignal) \o <<>>)
    BY <1>2, <2>2, <2>3, <2>5 DEF Flight
  <2>7. Flight(Device)' = Append(Flight(Device), DoneSignal)
    <3> HIDE DEF h, c
    <3>1. c \o <<>> = c /\ Append(c, DoneSignal) \in Seq(Nat)
      BY <1>2, <2>1, AppendProperties
    <3>2. Append(c, DoneSignal) \o <<>> = Append(c, DoneSignal)
      BY <3>1
    <3>3. h \o Append(c, DoneSignal) = Append(h \o c, DoneSignal)
      BY <1>2, <2>1, AppendWithin
    <3>4. QED BY <2>6, <3>1, <3>2, <3>3
  <2>8. CASE Level
    <3>1. Flight(Device) = <<>>
      BY <1>4, <2>8 DEF Level
    <3>2. Flight(Device)' = <<DoneSignal>>
      BY <2>7, <3>1
    <3>3. Level'
      BY <1>1, <1>4, <2>4, <2>8, <3>2 DEF Level
    <3>4. QED BY <3>3 DEF Lockstep
  <2>9. CASE ServerLeads
    <3>1. ~Cut
      BY <1>1, <1>7 DEF Cut
    <3>2. Flight(Device) = <<sent[Server]>> \o <<>>
      BY <1>4, <2>9, <3>1 DEF ServerLeads
    <3>3. Flight(Device) = <<sent[Server]>>
      BY <3>2
    <3>4. Append(<<sent[Server]>>, DoneSignal) = <<sent[Server]>> \o <<DoneSignal>>
      BY <1>2
    <3>5. Flight(Device)' = <<sent'[Server]>> \o <<DoneSignal>>
      BY <1>1, <2>7, <3>3, <3>4
    <3>6. Leads(Server)'
      BY <1>1, <2>9 DEF ServerLeads, Leads
    <3>7. ServerLeads'
      BY <1>4, <2>4, <2>9, <3>5, <3>6 DEF ServerLeads
    <3>8. QED BY <3>7 DEF Lockstep
  <2>10. CASE DeviceLeads
    BY <1>2, <1>3, <2>10 DEF DeviceLeads, Leads, Ahead
  <2>11. QED BY <2>8, <2>9, <2>10 DEF RemoteInv, Lockstep
<1>8. QED BY <1>6, <1>7
LEMMA LevelBothWays ==
  ASSUME SessionsKept, Level, NEW p \in Sessions
  PROVE  /\ Conversation(script[p], script[Peer(p)])
         /\ script[p] = <<>> <=> script[Peer(p)] = <<>>
<1>1. \A q \in Sessions : script[q] \in Seq(Op)
  BY DEF SessionsKept, SessionInv, Inv, TypeOK, Op
<1>2. /\ Device \in Sessions /\ Server \in Sessions
      /\ Peer(Device) = Server /\ Peer(Server) = Device /\ p \in {Device, Server}
  BY PeerOf
<1>3. /\ Conversation(script[Device], script[Server])
      /\ Conversation(script[Server], script[Device])
  BY <1>1, <1>2, ConversationSymmetric DEF Level
<1>4. Conversation(script[p], script[Peer(p)])
  BY <1>2, <1>3
<1>5. script[p] \in Seq(Op) /\ script[Peer(p)] \in Seq(Op)
  BY <1>1, <1>2
<1>6. QED BY <1>4, <1>5, ToReceive

\* Who is spoken to, when a session speaks or listens.
LEMMA TalkAlone ==
  ASSUME RemoteInv, NEW p \in Sessions, InSession(p), Says(p) \/ Hears(p)
  PROVE  /\ UNCHANGED <<mail, wire, link, pc, frame, inbound, cpc, reply, issued>>
         /\ \A q \in Sessions : Coming(q)' = Coming(q) /\ InTransit(q)' = InTransit(q)
<1>1. UNCHANGED <<mail, wire, link, pc, frame, inbound, cpc, reply, issued>>
  BY InSessionEffect DEF RemoteInv
<1>2. QED BY <1>1 DEF Coming, InTransit

\* Who speaks does so when nothing is on its way.
LEMMA SaysWhenLevel ==
  ASSUME RemoteInv, NEW p \in Sessions, InSession(p), Says(p)
  PROVE  Level /\ Lockstep'
<1> DEFINE d == Peer(p)
<1>1. /\ script \in [Sessions -> Seq(Op)] /\ sent \in [Sessions -> Nat]
      /\ outbound \in [Sessions -> Nat]
  BY DEF RemoteInv, SessionsKept, SessionInv, Inv, TypeOK, Op
<1>2. /\ d \in Sessions /\ d # p /\ Peer(d) = p
      /\ Device \in Sessions /\ Server \in Sessions /\ Server # Device
      /\ Peer(Server) = Device /\ Peer(Device) = Server
      /\ \A q \in Sessions : q = p \/ q = d
  BY PeerOf
<1>3. ASSUME NEW r \in Sessions, Leads(r) PROVE FALSE
  <2>1. Ahead(script[r], script[Peer(r)])
    BY <1>3 DEF Leads
  <2>2. /\ ~(script[r] # <<>> /\ Head(script[r]) = "send")
        /\ script[Peer(r)] # <<>> /\ Head(script[Peer(r)]) # "send"
    BY <2>1, AheadSilent
  <2>3. QED BY <1>2, <2>2, PeerOf DEF Says
<1>4. Level
  BY <1>2, <1>3 DEF RemoteInv, Lockstep, ServerLeads, DeviceLeads
<1>5. Ahead(script'[p], script'[d])
  <2>1. Conversation(script[p], script[d])
    BY <1>4, LevelBothWays DEF RemoteInv
  <2>2. script'[p] = Tail(script[p]) /\ script'[d] = script[d]
    BY <1>1, <1>2 DEF Says
  <2>3. /\ script[p] \in Seq(Op) /\ script[d] \in Seq(Op)
        /\ script[p] # <<>> /\ Head(script[p]) = "send"
    BY <1>1, <1>2 DEF Says
  <2>4. QED BY <2>1, <2>2, <2>3, ToSend
<1>6. Flight(Device) = <<>> /\ Flight(Server) = <<>>
  <2>1. script[p] # <<>> /\ script[d] # <<>>
    BY <1>4, LevelBothWays DEF Says, RemoteInv
  <2>2. ~Told
    BY <1>2, <2>1 DEF Told
  <2>3. QED BY <1>4, <2>2 DEF Level, Trailing
<1>7. /\ UNCHANGED <<inboundQueue, consumed>>
      /\ \A q \in Sessions : Held(q)' = Held(q) /\ Coming(q)' = Coming(q)
                               /\ InTransit(q)' = InTransit(q)
  <2>1. UNCHANGED <<inboundQueue, consumed>>
    BY DEF Says
  <2>2. QED BY <2>1, TalkAlone DEF Held
<1>8. /\ sent'[p] = sent[p] + 1 /\ outbound'[p] = sent[p] + 1
      /\ sent'[d] = sent[d] /\ outbound'[d] = outbound[d]
  BY <1>1, <1>2 DEF Says
<1>9. Flight(p)' = <<>>
  <2>1. Uttered(d)' = Uttered(d)
    BY <1>2, <1>7, <1>8 DEF Uttered
  <2>2. Flight(p)' = Flight(p)
    BY <1>7, <2>1 DEF Flight
  <2>3. QED BY <1>2, <1>6, <2>2
<1>10. Flight(d)' = <<sent'[p]>>
  <2>1. Held(d) = <<>> /\ Coming(d) = <<>> /\ InTransit(p) = <<>>
    <3>1. Flight(d) = <<>>
      BY <1>2, <1>6
    <3>2. QED BY <1>2, <3>1, FlightEmpty DEF RemoteInv
  <2>2. Opt(outbound'[p]) = <<sent'[p]>>
    <3>1. sent[p] + 1 # NoMsg
      BY <1>1 DEF NoMsg
    <3>2. QED BY <1>8, <3>1 DEF Opt
  <2>3. Flight(d)' = <<>> \o (<<>> \o (<<>> \o <<sent'[p]>>))
    BY <1>2, <1>7, <2>1, <2>2 DEF Flight, Uttered
  <2>4. <<>> \o (<<>> \o (<<>> \o <<sent'[p]>>)) = <<sent'[p]>>
    OBVIOUS
  <2>5. QED BY <2>3, <2>4
<1>11. Leads(p)'
  <2>1. Len(consumed'[p]) = sent'[d] /\ Len(consumed'[d]) + 1 = sent'[p]
    BY <1>2, <1>4, <1>7, <1>8 DEF Level
  <2>2. QED BY <1>5, <2>1 DEF Leads
<1>12. CASE p = Device
  <2>1. Flight(Device)' = <<>> /\ Flight(Server)' = <<sent'[Device]>> /\ Leads(Device)'
    BY <1>2, <1>9, <1>10, <1>11, <1>12
  <2>2. QED BY <1>4, <2>1 DEF Lockstep, DeviceLeads
<1>13. CASE p = Server
  <2>1. Flight(Server)' = <<>> /\ Flight(Device)' = <<sent'[Server]>> /\ Leads(Server)'
    BY <1>2, <1>9, <1>10, <1>11, <1>13
  <2>2. <<sent'[Server]>> = <<sent'[Server]>> \o <<>> /\ <<>> \in Trailing'
    BY DEF Trailing
  <2>3. ServerLeads'
    BY <2>1, <2>2 DEF ServerLeads
  <2>4. QED BY <1>4, <2>3 DEF Lockstep
<1>14. QED BY <1>2, <1>12, <1>13

\* What is heard is the one message on its way, and not the signal.
LEMMA HearsTheOther ==
  ASSUME RemoteInv, Told => Told', NEW p \in Sessions, InSession(p), Hears(p)
  PROVE  /\ Leads(Peer(p)) /\ Level'
         /\ consumed' = [consumed EXCEPT ![p] = Append(consumed[p], sent[Peer(p)])]
<1> DEFINE q == Peer(p)  n == inboundQueue[p]
<1>1. /\ script \in [Sessions -> Seq(Op)] /\ sent \in [Sessions -> Nat]
      /\ inboundQueue \in [Sessions -> Seq(Nat)]
      /\ consumed \in [Sessions -> Seq(Nat)]
  BY DEF RemoteInv, SessionsKept, SessionInv, Inv, TypeOK, Op
<1>2. /\ q \in Sessions /\ q # p /\ Peer(q) = p
      /\ Device \in Sessions /\ Server \in Sessions /\ Server # Device
      /\ Peer(Server) = Device /\ Peer(Device) = Server
      /\ p \in {Device, Server} /\ q \in {Device, Server}
  BY PeerOf
<1>3. Flight(p) # <<>> /\ n # <<>> /\ n \in Seq(Nat)
  BY <1>1, FlightEmpty DEF Hears, RemoteInv
<1>4. /\ Leads(q) /\ Flight(q) = <<>>
      /\ \E t \in Trailing : Flight(p) = <<sent[q]>> \o t /\ (p = Server => t = <<>>)
  <2>1. CASE Level
    <3>1. script[p] # <<>> /\ script[q] # <<>>
      BY <2>1, LevelBothWays DEF Hears, RemoteInv
    <3>2. ~Told
      BY <1>2, <3>1 DEF Told
    <3>3. QED BY <1>2, <1>3, <2>1, <3>2 DEF Level, Trailing
  <2>2. CASE ServerLeads
    BY <1>2, <1>3, <2>2 DEF ServerLeads
  <2>3. CASE DeviceLeads
    <3>1. Flight(Server) = <<sent[Device]>> /\ p = Server /\ q = Device
      BY <1>2, <1>3, <2>3 DEF DeviceLeads
    <3>2. <<sent[Device]>> = <<sent[Device]>> \o <<>> /\ <<>> \in Trailing
      BY DEF Trailing
    <3>3. QED BY <2>3, <3>1, <3>2 DEF DeviceLeads
  <2>4. QED BY <2>1, <2>2, <2>3 DEF RemoteInv, Lockstep
<1>5. PICK t \in Trailing : Flight(p) = <<sent[q]>> \o t /\ (p = Server => t = <<>>)
  BY <1>4
<1>6. t \in Seq(Nat)
  <2>1. t = <<>> \/ t = <<DoneSignal>>
    BY DEF Trailing
  <2>2. <<>> \in Seq(Nat) /\ <<DoneSignal>> \in Seq(Nat)
    BY RemoteAssumption
  <2>3. QED BY <2>1, <2>2
<1>7. Head(n) = sent[q] /\ Tail(n) \o Behind(p) = t
  <2> DEFINE s == <<sent[q]>>
  <2>1. s \in Seq(Nat) /\ s # <<>> /\ Head(s) = sent[q] /\ Tail(s) = <<>>
    BY <1>1, <1>2
  <2>2. Behind(p) \in Seq(Nat) /\ Flight(p) = n \o Behind(p) /\ Flight(p) = s \o t
    BY <1>5, FlightParts DEF RemoteInv
  <2> HIDE DEF s, n
  <2>3. Head(s) = Head(s \o t) /\ Tail(s) \o t = Tail(s \o t)
    BY <1>6, <2>1, Arrived
  <2>4. Head(n) = Head(n \o Behind(p)) /\ Tail(n) \o Behind(p) = Tail(n \o Behind(p))
    BY <1>3, <2>2, Arrived
  <2>5. <<>> \o t = t
    BY <1>6
  <2>6. QED BY <2>1, <2>2, <2>3, <2>4, <2>5
<1>8. consumed' = [consumed EXCEPT ![p] = Append(consumed[p], sent[q])]
  BY <1>7 DEF Hears
<1>9. /\ UNCHANGED <<outbound, sent>>
      /\ \A r \in Sessions : /\ Coming(r)' = Coming(r) /\ Uttered(r)' = Uttered(r)
                             /\ Ready(r)' = Ready(r)
  <2>1. UNCHANGED <<outbound, sent>>
    BY DEF Hears
  <2>2. QED BY <2>1, TalkAlone DEF Uttered, Ready
<1>10. inboundQueue'[p] = Tail(n) /\ inboundQueue'[q] = inboundQueue[q]
  BY <1>1, <1>2 DEF Hears
<1>11. Flight(q)' = <<>>
  <2>1. Held(q)' = Held(q)
    BY <1>2, <1>9, <1>10 DEF Held, Ready
  <2>2. Flight(q)' = Flight(q)
    BY <1>2, <1>9, <2>1 DEF Flight
  <2>3. QED BY <1>4, <2>2
<1>12. Flight(p)' = t
  <2> DEFINE e == Tail(n)  r == Ready(p)  u == Coming(p) \o Uttered(q)
  <2>1. e \in Seq(Nat) /\ r \in Seq(Nat) /\ u \in Seq(Nat)
    BY <1>3, HeadTailProperties, FlightParts DEF RemoteInv
  <2>2. Flight(p)' = (e \o r) \o u
    BY <1>2, <1>9, <1>10 DEF Flight, Held, Ready
  <2>3. e \o (r \o u) = t
    BY <1>7 DEF Behind
  <2> HIDE DEF e, r, u
  <2>4. (e \o r) \o u = e \o (r \o u)
    BY <2>1, Regroup
  <2>5. QED BY <2>2, <2>3, <2>4
<1>13. Conversation(script'[Device], script'[Server])
  <2>1. Conversation(script[q], Tail(script[p]))
    BY <1>2, <1>4 DEF Leads, Ahead
  <2>2. script'[p] = Tail(script[p]) /\ script'[q] = script[q]
    BY <1>1, <1>2 DEF Hears
  <2>3. script[p] \in Seq(Op) /\ script[q] \in Seq(Op) /\ script[p] # <<>>
    BY <1>1, <1>2 DEF Hears
  <2>4. Tail(script[p]) \in Seq(Op)
    BY <2>3, HeadTailProperties
  <2>5. Conversation(script'[q], script'[p]) /\ Conversation(script'[p], script'[q])
    BY <2>1, <2>2, <2>3, <2>4, ConversationSymmetric
  <2>6. QED BY <1>2, <2>5
<1>14. Len(consumed'[p]) = sent'[q] /\ Len(consumed'[q]) = sent'[p]
  <2>1. Len(consumed[p]) + 1 = sent[q] /\ Len(consumed[q]) = sent[p]
    BY <1>2, <1>4 DEF Leads
  <2>2. /\ consumed'[p] = Append(consumed[p], sent[q]) /\ consumed'[q] = consumed[q]
        /\ consumed[p] \in Seq(Nat) /\ sent[q] \in Nat
    BY <1>1, <1>2, <1>8
  <2>3. Len(consumed'[p]) = Len(consumed[p]) + 1
    BY <2>2, AppendProperties
  <2>4. QED BY <1>9, <2>1, <2>2, <2>3
<1>15. \A r \in Sessions : Len(consumed'[r]) = sent'[Peer(r)]
  BY <1>2, <1>14, PeerOf
<1>16. Flight(Server)' = <<>> /\ Flight(Device)' \in Trailing'
  <2>1. t \in Trailing' /\ <<>> \in Trailing'
    BY <1>5 DEF Trailing
  <2>2. QED BY <1>2, <1>5, <1>11, <1>12, <2>1
<1>17. QED BY <1>4, <1>8, <1>13, <1>15, <1>16 DEF Level

LEMMA LockstepStep ==
  ASSUME RemoteInv, [RemoteNext]_systemVars
  PROVE  Lockstep'
<1>1. CASE Quiet
  BY <1>1, LockstepQuiet, ToldStays
<1>2. CASE SendDoneSignal
  BY <1>2, SignalStep, ToldStays
<1>3. ASSUME NEW p \in Sessions, InSession(p), Says(p) PROVE Lockstep'
  BY <1>3, SaysWhenLevel
<1>4. ASSUME NEW p \in Sessions, InSession(p), Hears(p) PROVE Lockstep'
  BY <1>4, HearsTheOther, ToldStays DEF Lockstep
<1>5. QED BY <1>1, <1>2, <1>3, <1>4, QuietUnless
-----------------------------------------------------------------------------
(* The invariant, and what follows from it.                                *)

LEMMA RemoteInitInv == RemoteInit => RemoteInv
<1> SUFFICES ASSUME RemoteInit PROVE RemoteInv
  OBVIOUS
<1>1. DkgInit /\ script \in Protocols /\ SessionInv
  BY SessionInit DEF RemoteInit
<1>2. /\ Device \in Sessions /\ Server \in Sessions /\ Server # Device
      /\ DoneSignal \in Nat /\ \A p \in Sessions : Peer(p) \in Sessions
  BY RemoteAssumption, PeerOf
<1>3. /\ Conversation(script[Device], script[Server])
      /\ \A p, q \in Sessions : Len(script[p]) < Bound[q]
      /\ script \in [Sessions -> Seq(Op)]
  BY <1>1, ProtocolAssumption, LoopAssumption DEF SessionInv, Inv, TypeOK, Op
<1>4. \A p \in Sessions :
        /\ sent[p] = 0 /\ waitRequestId[p] = 0 /\ wpc[p] = "body"
        /\ outbound[p] = NoMsg /\ cpc[p] = "idle" /\ issued[p] = 0
        /\ inboundQueue[p] = <<>> /\ inbound[p] = NoMsg /\ consumed[p] = <<>>
  BY <1>1 DEF DkgInit, Init
<1>5. ASSUME NEW p \in Sessions, NEW q \in Sessions PROVE Work(p, Bound[q])
  <2>1. Len(script[p]) < Bound[q]
    BY <1>3
  <2>2. script[p] \in Seq(Op) /\ Bound[q] \in Nat
    BY <1>3, RemoteAssumption
  <2>3. Len(script[p]) \in Nat
    BY <2>2
  <2>4. QED BY <1>4, <2>1, <2>2, <2>3 DEF Work
<1>6. RemoteTypeOK
  <2>1. <<>> \in Seq(Nat \ {NoMsg})
    OBVIOUS
  <2>2. QED BY <2>1 DEF RemoteInit, RemoteTypeOK, PC, NoMsg
<1>7. /\ \A p \in Sessions :
           /\ mail[p] = <<>> /\ wire[p] = <<>> /\ frame[p] = NoMsg /\ steps[p] = 0
           /\ pc[p] = (IF p = Server THEN "step" ELSE "wait") /\ ~saved[p]
      /\ link = "open"
  BY DEF RemoteInit
<1>8. Stage
  BY <1>4, <1>7 DEF Stage
<1>9. Lockstep
  <2>1. ASSUME NEW p \in Sessions PROVE Flight(p) = <<>> /\ Len(consumed[p]) = sent[Peer(p)]
    <3>1. /\ Held(p) = <<>> \o (<<>> \o (<<>> \o <<>>)) /\ Coming(p) = <<>>
          /\ Uttered(Peer(p)) = <<>> \o <<>>
      BY <1>2, <1>4, <1>7 DEF Held, Coming, Uttered, InTransit, Opt
    <3>2. Held(p) = <<>> /\ Uttered(Peer(p)) = <<>>
      BY <3>1
    <3>3. QED BY <1>2, <1>4, <3>1, <3>2 DEF Flight
  <2>2. QED BY <1>2, <1>3, <2>1 DEF Lockstep, Level, Trailing
<1>10. ASSUME NEW p \in Sessions PROVE Counted(p)
  <2>1. Len(consumed[p]) = 0 /\ Len(inboundQueue[p]) = 0
    BY <1>4
  <2>2. Len(Opt(inbound[p])) = 0 /\ Len(Opt(frame[p])) = 0
    BY <1>4, <1>7 DEF Opt
  <2>3. Taken(p) = 0 /\ steps[p] = 0
    BY <1>7, <2>1, <2>2 DEF Taken
  <2>4. pc[p] = "step" <=> p = Server
    BY <1>7
  <2>5. QED BY <2>3, <2>4 DEF Counted
<1>11. QED BY <1>1, <1>5, <1>6, <1>8, <1>9, <1>10 DEF RemoteInv, SessionsKept

LEMMA RemoteNextInv ==
  ASSUME RemoteInv, [RemoteNext]_systemVars
  PROVE  RemoteInv'
<1>1. SessionsKept' /\ RemoteTypeOK'
  BY SessionsStep, RemoteTypeStep DEF RemoteInv
<1>2. Stage' /\ Lockstep'
  BY StageStep, LockstepStep
<1>3. \A p \in Sessions : Counted(p)'
  BY CountedStep
<1>4. QED BY <1>1, <1>2, <1>3 DEF RemoteInv

\* The two processes keep in step over a connection that may break: at most one
\* message is on its way and only the signal behind it, and no step is taken but
\* for a frame.
THEOREM RemoteInvariant == RemoteSpec => []RemoteInv
BY RemoteInitInv, RemoteNextInv, PTL DEF RemoteSpec

\* dkgFinalize, which blocks a JavaScript thread until the worker ends, is only
\* called for a worker that has: neither the bound of a loop nor the signal ends
\* a loop too early.
THEOREM NeverBlocksCorrect == RemoteSpec => []FinalizeNeverBlocks
<1>1. RemoteInv => FinalizeNeverBlocks
  BY DEF RemoteInv, Stage, Ended, FinalizeNeverBlocks
<1>2. QED BY <1>1, RemoteInvariant, PTL

\* A native call of either program hangs, if at all, in a stuck Step: otherwise
\* it waits for a worker that is awake, whatever was lost on the way.
THEOREM RemoteHangs == RemoteSpec => []HangsOnlyIfStuck
<1>1. RemoteInv => HangsOnlyIfStuck
  BY HangsIfStuck DEF RemoteInv, SessionsKept, Stage, Ended
<1>2. QED BY <1>1, RemoteInvariant, PTL

\* Who has come to the end of its protocol has heard all there is to hear.
LEMMA EndedHeardAll ==
  ASSUME RemoteInv, NEW p \in Sessions, script[p] = <<>>
  PROVE  Len(consumed[p]) = sent[Peer(p)]
BY PeerOf DEF RemoteInv, Lockstep, Level, ServerLeads, DeviceLeads, Leads, Ahead

\* If both sides have stored their shares, each has heard all that the other
\* one said: the shares are of one key.
THEOREM SharesMatchCorrect == RemoteSpec => []SharesMatch
<1>1. ASSUME RemoteInv, NEW p \in Sessions, saved[p]
      PROVE  Len(consumed[p]) = sent[Peer(p)]
  <2>1. issued[p] = 1 /\ KeyPhase(p)
    BY <1>1 DEF RemoteInv, Stage, SessionsKept, SessionInv, DkgInv
  <2>2. issued[p] > 0
    BY <2>1
  <2>3. script[p] = <<>>
    BY <2>1, <2>2 DEF KeyPhase
  <2>4. QED BY <1>1, <2>3, EndedHeardAll
<1>2. RemoteInv => SharesMatch
  BY <1>1 DEF SharesMatch
<1>3. QED BY <1>2, RemoteInvariant, PTL

-----------------------------------------------------------------------------
(* The abstract exchange.                                                  *)

\* What the exchange shows of a key.
Keyed == [p \in Sessions |-> issued[p] > 0]

\* A key is given out only to who has heard everything.
LEMMA KeyStep ==
  ASSUME RemoteInv, [RemoteNext]_systemVars
  PROVE  \/ UNCHANGED issued
         \/ \E p \in Sessions :
              /\ UNCHANGED <<script, sent, consumed>>
              /\ Len(consumed[p]) = sent[Peer(p)]
              /\ ~Keyed[p] /\ Keyed' = [Keyed EXCEPT ![p] = TRUE]
<1>1. CASE UNCHANGED allVars
  BY <1>1 DEF allVars, dkgVars
<1>2. ASSUME NEW p \in Sessions, DkgStep(p), issued' # issued
      PROVE  /\ UNCHANGED <<script, sent, consumed>>
             /\ Len(consumed[p]) = sent[Peer(p)]
             /\ ~Keyed[p] /\ Keyed' = [Keyed EXCEPT ![p] = TRUE]
  <2>1. /\ issued[p] = 0 /\ issued' = [issued EXCEPT ![p] = 1]
        /\ script[p] = <<>> /\ UNCHANGED <<script, sent, consumed>>
    BY <1>2, KeyEffect DEF RemoteInv, SessionsKept, SessionInv
  <2>2. issued \in [Sessions -> Nat]
    BY DEF RemoteInv, SessionsKept, SessionInv, DkgInv, DkgTypeOK
  <2>3. \A q \in Sessions : issued'[q] = IF q = p THEN 1 ELSE issued[q]
    BY <2>1, <2>2
  <2>4. (1 > 0) = TRUE /\ ~(issued[p] > 0)
    BY <2>1
  <2>5. Keyed' = [Keyed EXCEPT ![p] = TRUE]
    <3>1. \A q \in Sessions : (issued'[q] > 0) = IF q = p THEN TRUE ELSE issued[q] > 0
      BY <2>3, <2>4
    <3>2. QED BY <3>1 DEF Keyed
  <2>6. QED BY <2>1, <2>4, <2>5, EndedHeardAll DEF Keyed
<1>3. RemoteTypeOK
  BY DEF RemoteInv
<1>4. QED BY <1>1, <1>2, <1>3, RemoteNextIsStep

\* Every step of the programs, the workers, the calls and the connection is a
\* step of the exchange, or none.
LEMMA ExchangeStep ==
  ASSUME RemoteInv, [RemoteNext]_systemVars
  PROVE  [Carried!ExchangeNext]_<<sent, consumed, Keyed>>
<1> USE DEF Carried!ExchangeNext, Carried!Say, Carried!Hear, Carried!GiveKey
<1>1. CASE Quiet /\ UNCHANGED issued
  BY <1>1 DEF Quiet, Keyed
<1>2. CASE SendDoneSignal
  BY <1>2, SessionsAlone DEF SendDoneSignal, Keyed
<1>3. ASSUME NEW p \in Sessions, InSession(p), Says(p)
      PROVE  Carried!Say(p)
  <2>1. Level /\ script[p] # <<>>
    BY <1>3, SaysWhenLevel DEF Says
  <2>2. ASSUME NEW q \in Sessions PROVE ~(issued[q] > 0)
    <3>1. script[Peer(p)] # <<>>
      BY <2>1, LevelBothWays DEF RemoteInv
    <3>2. script[q] # <<>>
      BY <2>1, <3>1, PeerOf
    <3>3. QED BY <3>2 DEF RemoteInv, SessionsKept, SessionInv, DkgInv, KeyPhase
  <2>3. sent' = [sent EXCEPT ![p] = sent[p] + 1] /\ UNCHANGED consumed
    BY <1>3 DEF Says
  <2>4. UNCHANGED issued
    BY <1>3, TalkAlone
  <2>5. QED BY <2>2, <2>3, <2>4 DEF Keyed
<1>4. ASSUME NEW p \in Sessions, InSession(p), Hears(p)
      PROVE  Carried!Hear(p)
  <2>1. /\ Leads(Peer(p))
        /\ consumed' = [consumed EXCEPT ![p] = Append(consumed[p], sent[Peer(p)])]
    BY <1>4, HearsTheOther, ToldStays
  <2>2. Len(consumed[p]) + 1 = sent[Peer(p)]
    BY <2>1, PeerOf DEF Leads
  <2>3. UNCHANGED <<sent, issued>>
    BY <1>4, TalkAlone DEF Hears
  <2>4. Len(consumed[p]) < sent[Peer(p)]
    <3>1. consumed[p] \in Seq(Nat)
      BY DEF RemoteInv, SessionsKept, SessionInv, Inv, TypeOK
    <3>2. Len(consumed[p]) \in Nat
      BY <3>1
    <3>3. QED BY <2>2, <3>2
  <2>5. consumed' = [consumed EXCEPT ![p] = Append(consumed[p], Len(consumed[p]) + 1)]
    BY <2>1, <2>2
  <2>6. QED BY <2>3, <2>4, <2>5 DEF Keyed
<1>5. ASSUME issued' # issued PROVE \E p \in Sessions : Carried!GiveKey(p)
  BY <1>5, KeyStep DEF Keyed
<1>6. QED BY <1>1, <1>2, <1>3, <1>4, <1>5, QuietUnless

\* Two processes, two transports and a connection that may break at any time
\* implement the exchange: what arrives is what was said, in order and once, and
\* the completion signal never passes for a message.
THEOREM RemoteCarries == RemoteSpec => CarriesExchange
<1>1. RemoteInit => Carried!ExchangeInit
  <2> SUFFICES ASSUME RemoteInit PROVE Carried!ExchangeInit
    OBVIOUS
  <2>1. /\ sent = [p \in Sessions |-> 0] /\ consumed = [p \in Sessions |-> <<>>]
        /\ issued = [p \in Sessions |-> 0]
    BY DEF RemoteInit, DkgInit, Init
  <2>2. ASSUME NEW p \in Sessions PROVE (issued[p] > 0) = FALSE
    <3>1. issued[p] = 0
      BY <2>1
    <3>2. ~(issued[p] > 0)
      BY <3>1
    <3>3. QED BY <3>2
  <2>3. QED BY <2>1, <2>2 DEF Carried!ExchangeInit
<1>2. RemoteInv /\ [RemoteNext]_systemVars
        => [Carried!ExchangeNext]_<<sent, consumed, [p \in Sessions |-> issued[p] > 0]>>
  BY ExchangeStep DEF Keyed
<1>3. QED
  BY <1>1, <1>2, RemoteInvariant, PTL
     DEF RemoteSpec, CarriesExchange, Carried!ExchangeSpec, Carried!exchangeVars

=============================================================================
