---------------------------- MODULE AsyncSession ----------------------------
(***************************************************************************)
(* The base class AsyncSession of cpp/src/bridge.cpp: a worker thread that *)
(* runs a blocking two-party protocol, driven through non-blocking looking *)
(* Step calls.  Worker and caller share one mutex and one condition        *)
(* variable; every critical section of the code is one action here, and    *)
(* the condition variable is the set of threads asleep on it.              *)
(*                                                                         *)
(* The protocol itself (cb-mpc) is external.  A worker runs a script, a    *)
(* sequence of "send" and "recv", and may fail at any point of it.         *)
(* Messages are numbered by their sender from 1.                           *)
(***************************************************************************)
EXTENDS Naturals, Sequences

CONSTANTS Sessions,    \* the sessions, each with a worker and one caller
          Scripts,     \* the protocols a worker may be running
          Inbound,     \* the messages a caller may pass to Step
          MaxInbound   \* bound: messages passed to one session

\* Slip: a sentinel that is not a message number.
NoMsgNegative == 0 - 1

NoMsg == 0

ASSUME SessionAssumption ==
  /\ Scripts \subseteq Seq({"send", "recv"})
  /\ Inbound \subseteq Nat \ {NoMsg}
  /\ MaxInbound \in Nat

VARIABLES
  \* the members of AsyncSession
  workerDone, aborted, waiting, inboundQueue, outbound, fatal, waitRequestId,
  \* the worker thread: where it is, what is left of its protocol
  wpc, script,
  \* the calling thread: where it is, its local variables, its last answer
  cpc, inbound, snapshot, seen, reply,
  \* who sleeps on cv_
  asleep,
  \* history: messages sent, handed to the caller, consumed by the protocol
  sent, handed, consumed

members    == <<workerDone, aborted, waiting, inboundQueue, outbound, fatal,
                waitRequestId>>
workerVars == <<wpc, script>>
callerVars == <<cpc, inbound, snapshot, seen, reply>>
history    == <<sent, handed, consumed>>
vars       == <<members, workerVars, callerVars, asleep, history>>

WorkerPC == {"body",      \* inside the protocol
             "sent",      \* outbound_ stored, notify_all still to come
             "recv",      \* in the cv_.wait of OnReceive
             "failing",   \* the protocol saw E_GENERAL from OnReceive
             "published", \* result stored, notify_all still to come
             "returned",  \* the thread function returned
             "finished",  \* worker_done_ set, notify_all still to come
             "ended"}
CallerPC == {"idle",
             "push",      \* Step: about to store its inbound message
             "check",     \* Step: in the loop of AwaitStep
             "finwait",   \* Finalize: in EnsureWorkerFinished
             "free",      \* the derived class's members are destroyed
             "join",      \* in the join of ~AsyncSession
             "freed"}
Answers  == {"none", "continue", "done", "error", "finished"}

Answer(state, msg) == [state |-> state, msg |-> msg]

Init ==
  /\ workerDone    = [s \in Sessions |-> FALSE]
  /\ aborted       = [s \in Sessions |-> FALSE]
  /\ waiting       = [s \in Sessions |-> FALSE]
  /\ inboundQueue  = [s \in Sessions |-> <<>>]
  /\ outbound      = [s \in Sessions |-> NoMsg]
  /\ fatal         = [s \in Sessions |-> FALSE]
  /\ waitRequestId = [s \in Sessions |-> 0]
  /\ wpc           = [s \in Sessions |-> "body"]
  /\ script        \in [Sessions -> Scripts]
  /\ cpc           = [s \in Sessions |-> "idle"]
  /\ inbound       = [s \in Sessions |-> NoMsg]
  /\ snapshot      = [s \in Sessions |-> 0]
  /\ seen          = [s \in Sessions |-> 0]
  /\ reply         = [s \in Sessions |-> Answer("none", NoMsg)]
  /\ asleep        = [s \in Sessions |-> {}]
  /\ sent          = [s \in Sessions |-> 0]
  /\ handed        = [s \in Sessions |-> <<>>]
  /\ consumed      = [s \in Sessions |-> <<>>]

-----------------------------------------------------------------------------
(* Helpers.                                                                *)

WorkerGoes(s, from, to) == wpc[s] = from /\ wpc' = [wpc EXCEPT ![s] = to]
CallerGoes(s, from, to) == cpc[s] = from /\ cpc' = [cpc EXCEPT ![s] = to]

NotifyAll(s) == asleep' = [asleep EXCEPT ![s] = {}]

-----------------------------------------------------------------------------
(* The worker thread.                                                      *)

\* OnSend stores the message in the single outbound slot, replacing whatever
\* is there, and notifies after releasing the mutex.
OnSend(s) ==
  /\ script[s] # <<>> /\ Head(script[s]) = "send"
  /\ WorkerGoes(s, "body", "sent")
  /\ script' = [script EXCEPT ![s] = Tail(@)]
  /\ sent' = [sent EXCEPT ![s] = @ + 1]
  /\ outbound' = [outbound EXCEPT ![s] = sent[s] + 1]
  /\ UNCHANGED <<workerDone, aborted, waiting, inboundQueue, fatal,
                 waitRequestId, callerVars, asleep, handed, consumed>>

\* Slip: the message is stored and nobody is told.
OnSendQuietly(s) ==
  /\ WorkerGoes(s, "sent", "body")
  /\ UNCHANGED <<members, script, callerVars, asleep, history>>

OnSendNotify(s) ==
  /\ WorkerGoes(s, "sent", "body")
  /\ NotifyAll(s)
  /\ UNCHANGED <<members, script, callerVars, history>>

\* The wait of OnReceive, with the mutex held: give up, take the oldest
\* message, or go (back) to sleep.  sleepers are the others still asleep.
\* Giving up leaves waiting_for_inbound_ set.
GiveUp(s, sleepers) ==
  /\ fatal[s] \/ aborted[s]
  /\ wpc' = [wpc EXCEPT ![s] = "failing"]
  /\ waiting' = [waiting EXCEPT ![s] = TRUE]
  /\ asleep' = [asleep EXCEPT ![s] = sleepers]
  /\ UNCHANGED <<inboundQueue, script, consumed>>

TakeInbound(s, sleepers) ==
  /\ ~fatal[s] /\ ~aborted[s] /\ inboundQueue[s] # <<>>
  /\ wpc' = [wpc EXCEPT ![s] = "body"]
  /\ script' = [script EXCEPT ![s] = Tail(@)]
  /\ inboundQueue' = [inboundQueue EXCEPT ![s] = Tail(@)]
  /\ consumed' = [consumed EXCEPT ![s] = Append(@, Head(inboundQueue[s]))]
  /\ waiting' = [waiting EXCEPT ![s] = FALSE]
  /\ asleep' = [asleep EXCEPT ![s] = sleepers]

SleepForInbound(s, sleepers) ==
  /\ ~fatal[s] /\ ~aborted[s] /\ inboundQueue[s] = <<>>
  /\ wpc' = [wpc EXCEPT ![s] = "recv"]
  /\ waiting' = [waiting EXCEPT ![s] = TRUE]
  /\ asleep' = [asleep EXCEPT ![s] = sleepers \cup {"worker"}]
  /\ UNCHANGED <<inboundQueue, script, consumed>>

ReceiveOrSleep(s, sleepers) ==
  GiveUp(s, sleepers) \/ TakeInbound(s, sleepers) \/ SleepForInbound(s, sleepers)

\* OnReceive announces the wait, notifies, and evaluates the wait's predicate
\* before it lets go of the mutex.
OnReceive(s) ==
  /\ wpc[s] = "body"
  /\ script[s] # <<>> /\ Head(script[s]) = "recv"
  /\ waitRequestId' = [waitRequestId EXCEPT ![s] = @ + 1]
  /\ ReceiveOrSleep(s, {})
  /\ UNCHANGED <<workerDone, aborted, outbound, fatal, callerVars, sent, handed>>

ResumeReceive(s) ==
  /\ wpc[s] = "recv" /\ "worker" \notin asleep[s]
  /\ ReceiveOrSleep(s, asleep[s])
  /\ UNCHANGED <<workerDone, aborted, outbound, fatal, waitRequestId,
                 callerVars, sent, handed>>

\* Fail: the protocol returned an error (at any point of its body, or because
\* OnReceive gave up), or threw.
Fail(s) ==
  /\ \/ WorkerGoes(s, "body", "returned")
     \/ WorkerGoes(s, "failing", "returned")
  /\ fatal' = [fatal EXCEPT ![s] = TRUE]
  /\ aborted' = [aborted EXCEPT ![s] = TRUE]
  /\ NotifyAll(s)
  /\ UNCHANGED <<workerDone, waiting, inboundQueue, outbound, waitRequestId,
                 script, callerVars, history>>

\* Slip: the result is stored before the protocol has ended.
PublishEarly(s) ==
  /\ WorkerGoes(s, "body", "published")
  /\ UNCHANGED <<members, script, callerVars, asleep, history>>

\* The protocol ended well.  What is published is the derived class's.
Publish(s) ==
  /\ script[s] = <<>>
  /\ WorkerGoes(s, "body", "published")
  /\ UNCHANGED <<members, script, callerVars, asleep, history>>

PublishNotify(s) ==
  /\ WorkerGoes(s, "published", "returned")
  /\ NotifyAll(s)
  /\ UNCHANGED <<members, script, callerVars, history>>

\* The tail of StartWorker's thread function.
SetWorkerDone(s) ==
  /\ WorkerGoes(s, "returned", "finished")
  /\ workerDone' = [workerDone EXCEPT ![s] = TRUE]
  /\ UNCHANGED <<aborted, waiting, inboundQueue, outbound, fatal, waitRequestId,
                 script, callerVars, asleep, history>>

\* Slip: the end of the worker is not announced.
DoneQuietly(s) ==
  /\ WorkerGoes(s, "finished", "ended")
  /\ UNCHANGED <<members, script, callerVars, asleep, history>>

DoneNotify(s) ==
  /\ WorkerGoes(s, "finished", "ended")
  /\ NotifyAll(s)
  /\ UNCHANGED <<members, script, callerVars, history>>

\* The base class's share of the worker thread, and with it the derived one's.
WorkerBase(s) ==
  \/ OnSend(s) \/ OnSendNotify(s) \/ OnReceive(s) \/ ResumeReceive(s)
  \/ Fail(s) \/ PublishNotify(s) \/ SetWorkerDone(s) \/ DoneNotify(s)

Worker(s) == WorkerBase(s) \/ Publish(s)

-----------------------------------------------------------------------------
(* The calling thread: AwaitStep.                                          *)

\* wait_request_id_ is read without the mutex.  The value may be any that the
\* counter has held since this thread last held the mutex.
StepCall(s, msg) ==
  /\ CallerGoes(s, "idle", IF msg = NoMsg THEN "check" ELSE "push")
  /\ \E id \in seen[s] .. waitRequestId[s] :
        snapshot' = [snapshot EXCEPT ![s] = id]
  /\ inbound' = [inbound EXCEPT ![s] = msg]
  /\ UNCHANGED <<members, workerVars, seen, reply, asleep, history>>

StepPush(s) ==
  /\ CallerGoes(s, "push", "check")
  /\ inboundQueue' = [inboundQueue EXCEPT ![s] = Append(@, inbound[s])]
  /\ inbound' = [inbound EXCEPT ![s] = NoMsg]
  /\ NotifyAll(s)
  /\ UNCHANGED <<workerDone, aborted, waiting, outbound, fatal, waitRequestId,
                 workerVars, snapshot, seen, reply, history>>

\* The caller is awake, holds the mutex and is at the top of AwaitStep's loop.
Checking(s) == cpc[s] = "check" /\ "caller" \notin asleep[s]

\* Slip: off by one in the comparison of the counters.
LaterWait(s) == waiting[s] /\ waitRequestId[s] > snapshot[s] + 1

NewWait(s) == waiting[s] /\ waitRequestId[s] > snapshot[s]

StepReturns(s, state, msg) ==
  /\ cpc' = [cpc EXCEPT ![s] = "idle"]
  /\ reply' = [reply EXCEPT ![s] = Answer(state, msg)]
  /\ seen' = [seen EXCEPT ![s] = waitRequestId[s]]
  /\ UNCHANGED <<workerDone, aborted, waiting, inboundQueue, fatal,
                 waitRequestId, workerVars, inbound, snapshot, asleep,
                 sent, consumed>>

StepError(s) ==
  /\ Checking(s) /\ fatal[s]
  /\ StepReturns(s, "error", NoMsg)
  /\ UNCHANGED <<outbound, handed>>

\* Slip: the slot is not emptied.
StepOutboundKept(s) ==
  /\ Checking(s) /\ ~fatal[s] /\ outbound[s] # NoMsg
  /\ handed' = [handed EXCEPT ![s] = Append(@, outbound[s])]
  /\ StepReturns(s, IF workerDone[s] THEN "done" ELSE "continue", outbound[s])
  /\ UNCHANGED outbound

StepOutbound(s) ==
  /\ Checking(s) /\ ~fatal[s] /\ outbound[s] # NoMsg
  /\ outbound' = [outbound EXCEPT ![s] = NoMsg]
  /\ handed' = [handed EXCEPT ![s] = Append(@, outbound[s])]
  /\ StepReturns(s, IF workerDone[s] THEN "done" ELSE "continue", outbound[s])

\* Slip: the end of the worker is looked at before the slot.
StepDoneFirst(s) ==
  /\ Checking(s) /\ ~fatal[s] /\ workerDone[s]
  /\ StepReturns(s, "done", NoMsg)
  /\ UNCHANGED <<outbound, handed>>

StepDone(s) ==
  /\ Checking(s) /\ ~fatal[s] /\ outbound[s] = NoMsg /\ workerDone[s]
  /\ StepReturns(s, "done", NoMsg)
  /\ UNCHANGED <<outbound, handed>>

StepContinue(s) ==
  /\ Checking(s) /\ ~fatal[s] /\ outbound[s] = NoMsg /\ ~workerDone[s]
  /\ NewWait(s)
  /\ StepReturns(s, "continue", NoMsg)
  /\ UNCHANGED <<outbound, handed>>

StepSleep(s) ==
  /\ Checking(s) /\ ~fatal[s] /\ outbound[s] = NoMsg /\ ~workerDone[s]
  /\ ~NewWait(s)
  /\ asleep' = [asleep EXCEPT ![s] = @ \cup {"caller"}]
  /\ UNCHANGED <<members, workerVars, callerVars, history>>

-----------------------------------------------------------------------------
(* The calling thread: EnsureWorkerFinished and the destructor.            *)

FinalizeCall(s) ==
  /\ CallerGoes(s, "idle", "finwait")
  /\ UNCHANGED <<members, workerVars, inbound, snapshot, seen, reply, asleep,
                 history>>

FinalizeReturns(s) ==
  /\ cpc[s] = "finwait" /\ "caller" \notin asleep[s]
  /\ workerDone[s] \/ fatal[s]
  /\ StepReturns(s, IF fatal[s] THEN "error" ELSE "finished", NoMsg)
  /\ UNCHANGED <<outbound, handed>>

FinalizeSleep(s) ==
  /\ cpc[s] = "finwait" /\ "caller" \notin asleep[s]
  /\ ~workerDone[s] /\ ~fatal[s]
  /\ asleep' = [asleep EXCEPT ![s] = @ \cup {"caller"}]
  /\ UNCHANGED <<members, workerVars, callerVars, history>>

\* The derived object is destroyed first, its members with it.
FreeCall(s) ==
  /\ CallerGoes(s, "idle", "free")
  /\ UNCHANGED <<members, workerVars, inbound, snapshot, seen, reply, asleep,
                 history>>

\* Slip: the destructor does not wake the worker.
AbortQuietly(s) ==
  /\ CallerGoes(s, "free", "join")
  /\ aborted' = [aborted EXCEPT ![s] = TRUE]
  /\ UNCHANGED <<workerDone, waiting, inboundQueue, outbound, fatal,
                 waitRequestId, workerVars, inbound, snapshot, seen, reply,
                 asleep, history>>

\* Then ~AsyncSession aborts the worker and joins it.
AbortWorker(s) ==
  /\ CallerGoes(s, "free", "join")
  /\ aborted' = [aborted EXCEPT ![s] = TRUE]
  /\ NotifyAll(s)
  /\ UNCHANGED <<workerDone, waiting, inboundQueue, outbound, fatal,
                 waitRequestId, workerVars, inbound, snapshot, seen, reply,
                 history>>

Join(s) ==
  /\ wpc[s] = "ended"
  /\ CallerGoes(s, "join", "freed")
  /\ UNCHANGED <<members, workerVars, inbound, snapshot, seen, reply, asleep,
                 history>>

\* What a call that was made does until it returns.
InCallBase(s) ==
  \/ StepPush(s) \/ StepError(s) \/ StepOutbound(s) \/ StepDone(s)
  \/ StepContinue(s) \/ StepSleep(s)
  \/ FinalizeSleep(s) \/ AbortWorker(s) \/ Join(s)

InCall(s) == InCallBase(s) \/ FinalizeReturns(s)

\* What the last answer of Step or Finalize tells the caller.
Heard(s) ==
  IF reply[s].state = "error" THEN "failed"
  ELSE IF reply[s].state \in {"done", "finished"} THEN "done" ELSE "running"

\* The client calls what it likes, in any order, one call at a time.
Call(s) ==
  \/ StepCall(s, NoMsg)
  \/ /\ Len(inboundQueue[s]) + Len(consumed[s]) < MaxInbound
     /\ \E m \in Inbound : StepCall(s, m)
  \/ FinalizeCall(s)
  \/ FreeCall(s)

\* A condition variable may wake a thread nobody notified.
SpuriousWake(s) ==
  /\ \E t \in asleep[s] : asleep' = [asleep EXCEPT ![s] = @ \ {t}]
  /\ UNCHANGED <<members, workerVars, callerVars, history>>

\* Only a freed session is over: the client may always call again otherwise.
Freed ==
  /\ \A s \in Sessions : cpc[s] = "freed"
  /\ UNCHANGED vars

Next ==
  \/ \E s \in Sessions : Worker(s) \/ InCall(s) \/ Call(s) \/ SpuriousWake(s)
  \/ Freed

Spec == Init /\ [][Next]_vars

\* The scheduler runs both threads; nobody has to call anything.
Fairness == \A s \in Sessions : WF_vars(Worker(s)) /\ WF_vars(InCall(s))

FairSpec == Spec /\ Fairness

-----------------------------------------------------------------------------
(* Properties.                                                             *)

\* The type invariant.
TypeOK ==
  /\ workerDone \in [Sessions -> BOOLEAN]
  /\ aborted \in [Sessions -> BOOLEAN]
  /\ waiting \in [Sessions -> BOOLEAN]
  /\ inboundQueue \in [Sessions -> Seq(Nat)]
  /\ outbound \in [Sessions -> Nat]
  /\ fatal \in [Sessions -> BOOLEAN]
  /\ waitRequestId \in [Sessions -> Nat]
  /\ wpc \in [Sessions -> WorkerPC]
  /\ script \in [Sessions -> Seq({"send", "recv"})]
  /\ cpc \in [Sessions -> CallerPC]
  /\ inbound \in [Sessions -> Nat]
  /\ snapshot \in [Sessions -> Nat]
  /\ seen \in [Sessions -> Nat]
  /\ reply \in [Sessions -> [state : Answers, msg : Nat]]
  /\ asleep \in [Sessions -> SUBSET {"worker", "caller"}]
  /\ sent \in [Sessions -> Nat]
  /\ handed \in [Sessions -> Seq(Nat)]
  /\ consumed \in [Sessions -> Seq(Nat)]

\* No wakeup is lost.  A thread asleep on cv_ has nothing to wake up for,
\* unless the thread that changed the state is still about to notify: OnSend,
\* the publication of the result and the end of the worker notify only after
\* they have released the mutex.
CallerSleepsRightly(s) ==
  "caller" \in asleep[s] =>
    /\ cpc[s] = "check" =>
         ~fatal[s] /\ ~NewWait(s) /\ (outbound[s] # NoMsg => wpc[s] = "sent")
    /\ cpc[s] = "finwait" => ~fatal[s]
    /\ workerDone[s] => wpc[s] = "finished"

WorkerSleepsRightly(s) ==
  "worker" \in asleep[s] =>
    wpc[s] = "recv" /\ inboundQueue[s] = <<>> /\ ~aborted[s] /\ ~fatal[s]

NoLostWakeup ==
  \A s \in Sessions : CallerSleepsRightly(s) /\ WorkerSleepsRightly(s)

\* A step answers Done only for a protocol that ran to its end without an
\* error, and leaves no outbound message behind that the peer would miss.
DoneIsFinal ==
  \A s \in Sessions : reply[s].state = "done" =>
    workerDone[s] /\ ~fatal[s] /\ outbound[s] = NoMsg /\ script[s] = <<>>

\* The messages handed to the caller are messages the worker sent, each at
\* most once and in order; a missing one was overwritten in the slot.
HandedInOrder ==
  \A s \in Sessions :
    /\ \A i, j \in DOMAIN handed[s] : i < j => handed[s][i] < handed[s][j]
    /\ \A i \in DOMAIN handed[s] : handed[s][i] <= sent[s]

\* The worker waits for a message nobody has passed on yet.
Starved(s) ==
  /\ wpc[s] = "recv" /\ inboundQueue[s] = <<>>
  /\ ~aborted[s] /\ ~fatal[s]

\* AwaitStep has nothing to return: the worker is starved, and announced its
\* wait before the snapshot was taken.
Stuck(s) ==
  /\ cpc[s] = "check" /\ Starved(s)
  /\ outbound[s] = NoMsg /\ waitRequestId[s] = snapshot[s]

\* Every Step call returns, except in the one situation AwaitStep takes for work
\* in progress: the worker registered its wait before the snapshot.  Then the
\* call never returns.
StepReturnsUnlessStuck ==
  \A s \in Sessions :
    []<>(cpc[s] \notin {"push", "check"}) \/ <>[]Stuck(s)

\* Every Finalize call returns, except when the worker is left waiting for a
\* message: then EnsureWorkerFinished never returns.
FinalizeReturnsUnlessStarved ==
  \A s \in Sessions :
    []<>(cpc[s] # "finwait") \/ <>[]Starved(s)

\* Freeing a session returns: the worker leaves OnReceive, fails, is joined.
FreeReturns == \A s \in Sessions : cpc[s] = "free" ~> cpc[s] = "freed"

=============================================================================
