-------------------------- MODULE DkgSessionProofs --------------------------
(***************************************************************************)
(* Safety of key generation and refresh sessions for any set of sessions,  *)
(* any protocol and any client.  A DkgSession is an AsyncSession, so the   *)
(* invariants of the base class carry over; what is added is that the key  *)
(* share is stored exactly when the worker leaves its protocol in success. *)
(***************************************************************************)
EXTENDS DkgSession, AsyncSessionProofs, SequenceTheorems

\* The worker has left its protocol.
Left == {"published"} \cup Returned

KeyPhase(s) ==
  /\ keyReady[s] \/ issued[s] > 0 =>
       wpc[s] \in Left /\ ~fatal[s] /\ script[s] = <<>>
  /\ wpc[s] \in Left /\ ~fatal[s] => keyReady[s] \/ issued[s] = 1
  /\ keyReady[s] => issued[s] = 0
  /\ issued[s] <= 1
  /\ finalized[s] \in {"keypair", "incomplete"} => issued[s] = 1

DkgInv == DkgTypeOK /\ \A s \in Sessions : KeyPhase(s)

\* A step of a session under a client that may pass it any message.
DkgStep(s) ==
  \/ DkgWorker(s) \/ DkgInCall(s)
  \/ (AnyCall(s) \/ SpuriousWake(s)) /\ UNCHANGED dkgVars

\* DkgNext is such a step, of one of the sessions.
LEMMA DkgNextIsStep ==
  ASSUME [DkgNext]_allVars
  PROVE  UNCHANGED allVars \/ \E s \in Sessions : DkgStep(s)
BY CallIsAnyCall DEF DkgNext, DkgStep, Freed, allVars

-----------------------------------------------------------------------------
(* A DkgSession is an AsyncSession.                                        *)

\* Every step of a DkgSession is a step of its base class, or leaves it alone.
LEMMA DkgNextIsNext == [DkgNext]_allVars => [Next]_vars
<1> SUFFICES ASSUME [DkgNext]_allVars PROVE [Next]_vars
  OBVIOUS
<1>1. CASE UNCHANGED allVars
  BY <1>1 DEF allVars
<1>2. ASSUME NEW s \in Sessions, DkgWorker(s) PROVE Next
  BY <1>2 DEF DkgWorker, PublishKey, Worker, Next
<1>3. ASSUME NEW s \in Sessions, DkgInCall(s) PROVE Next
  BY <1>3 DEF DkgInCall, Finalize, InCall, Next
<1>4. QED
  BY <1>1, <1>2, <1>3 DEF DkgNext, Next

\* DkgSession implements AsyncSession.
THEOREM DkgIsAsync == DkgSpec => Spec
<1>1. DkgInit => Init
  BY DEF DkgInit
<1>2. QED
  BY <1>1, DkgNextIsNext, PTL DEF DkgSpec, Spec

\* The base class's invariant holds of every DkgSession.
LEMMA DkgKeepsInv == DkgSpec => []Inv
BY DkgIsAsync, PhaseCorrect, PTL

-----------------------------------------------------------------------------
(* The key share.                                                          *)

\* How a base-class step of the worker may leave the protocol: with an error.
LEMMA WorkerLeaves ==
  ASSUME Inv, NEW s \in Sessions, WorkerBase(s)
  PROVE  /\ \A r \in Sessions \ {s} :
              wpc'[r] = wpc[r] /\ fatal'[r] = fatal[r] /\ script'[r] = script[r]
         /\ wpc[s] \in Left =>
              wpc'[s] \in Left /\ fatal'[s] = fatal[s] /\ script'[s] = script[s]
         /\ wpc[s] \notin Left /\ wpc'[s] \in Left => fatal'[s]
<1> USE DEF Inv, TypeOK, Left, Returned, members, workerVars, WorkerGoes
<1>1. CASE OnSend(s)
  BY <1>1 DEF OnSend
<1>2. CASE OnSendNotify(s)
  BY <1>2 DEF OnSendNotify
<1>3. ASSUME NEW sleepers, ReceiveOrSleep(s, sleepers), wpc[s] \notin Left,
             UNCHANGED fatal
      PROVE  /\ wpc'[s] \notin Left
             /\ \A r \in Sessions \ {s} :
                  wpc'[r] = wpc[r] /\ fatal'[r] = fatal[r] /\ script'[r] = script[r]
  <2>1. CASE GiveUp(s, sleepers)
    BY <1>3, <2>1 DEF GiveUp
  <2>2. CASE TakeInbound(s, sleepers)
    BY <1>3, <2>2 DEF TakeInbound
  <2>3. CASE SleepForInbound(s, sleepers)
    BY <1>3, <2>3 DEF SleepForInbound
  <2>4. QED BY <1>3, <2>1, <2>2, <2>3 DEF ReceiveOrSleep
<1>4. CASE OnReceive(s)
  <2>1. ReceiveOrSleep(s, {}) /\ wpc[s] \notin Left /\ UNCHANGED fatal
    BY <1>4 DEF OnReceive
  <2>2. QED BY <1>3, <2>1
<1>5. CASE ResumeReceive(s)
  <2>1. ReceiveOrSleep(s, asleep[s]) /\ wpc[s] \notin Left /\ UNCHANGED fatal
    BY <1>5 DEF ResumeReceive
  <2>2. QED BY <1>3, <2>1
<1>6. CASE Fail(s)
  BY <1>6 DEF Fail
<1>7. CASE PublishNotify(s)
  BY <1>7 DEF PublishNotify
<1>8. CASE SetWorkerDone(s)
  BY <1>8 DEF SetWorkerDone
<1>9. CASE DoneNotify(s)
  BY <1>9 DEF DoneNotify
<1>10. QED
  BY <1>1, <1>2, <1>4, <1>5, <1>6, <1>7, <1>8, <1>9 DEF WorkerBase

\* The calling thread moves neither the worker nor its failure.
LEMMA CallerLeavesWorker ==
  ASSUME NEW s \in Sessions, InCall(s) \/ AnyCall(s) \/ SpuriousWake(s)
  PROVE  UNCHANGED <<wpc, fatal, script>>
BY DEF InCall, InCallBase, AnyCall, SpuriousWake, StepPush, StepError, StepOutbound,
       StepDone, StepContinue, StepSleep, StepReturns, FinalizeReturns,
       FinalizeSleep, AbortWorker, Join, StepCall, FinalizeCall, FreeCall,
       members, workerVars

\* Storing the key, giving it out and everything else keep DkgInv.
LEMMA DkgStepInv ==
  ASSUME Inv, DkgInv, NEW s \in Sessions, DkgStep(s)
  PROVE  DkgInv'
<1> USE DEF DkgInv, DkgTypeOK, KeyPhase, FinalizeAnswers
<1>1. CASE PublishKey(s)
  <2>1. /\ wpc[s] = "body" /\ wpc' = [wpc EXCEPT ![s] = "published"]
        /\ script[s] = <<>> /\ UNCHANGED <<script, fatal, finalized, issued>>
        /\ keyReady' = [keyReady EXCEPT ![s] = TRUE]
    BY <1>1 DEF PublishKey, Publish, WorkerGoes, members
  <2>2. ~fatal[s] /\ wpc[s] \notin Left
    BY <2>1 DEF Inv, Phases, Phase, Left, Returned
  <2>3. wpc \in [Sessions -> WorkerPC]
    BY DEF Inv, TypeOK
  <2>4. DkgTypeOK'
    BY <2>1
  <2>5. ASSUME NEW r \in Sessions PROVE KeyPhase(r)'
    BY <2>1, <2>2, <2>3 DEF Left
  <2>6. QED BY <2>4, <2>5
<1>2. CASE WorkerBase(s) /\ UNCHANGED dkgVars
  <2>1. ASSUME NEW r \in Sessions PROVE KeyPhase(r)'
    BY <1>2, <2>1, WorkerLeaves DEF dkgVars
  <2>2. QED BY <1>2, <2>1 DEF dkgVars
<1>3. CASE Finalize(s)
  <2>1. UNCHANGED <<wpc, fatal, script>>
    BY <1>3, CallerLeavesWorker DEF Finalize, InCall
  <2>2. fatal[s] \/ wpc[s] \in Left
    BY <1>3 DEF Finalize, FinalizeReturns, Inv, Phases, Phase, Left, Returned
  <2>3. /\ finalized' \in [Sessions -> FinalizeAnswers]
        /\ finalized'[s] = "incomplete" => ~fatal[s] /\ ~keyReady[s]
        /\ finalized'[s] = "keypair" => ~fatal[s] /\ keyReady[s]
        /\ \A r \in Sessions \ {s} : finalized'[r] = finalized[r]
    BY <1>3 DEF Finalize
  <2>4. CASE /\ ~fatal[s] /\ keyReady[s]
             /\ keyReady' = [keyReady EXCEPT ![s] = FALSE]
             /\ issued' = [issued EXCEPT ![s] = @ + 1]
    BY <2>1, <2>2, <2>3, <2>4
  <2>5. CASE (fatal[s] \/ ~keyReady[s]) /\ UNCHANGED <<keyReady, issued>>
    BY <2>1, <2>2, <2>3, <2>5
  <2>6. QED BY <1>3, <2>4, <2>5 DEF Finalize
<1>4. CASE /\ InCallBase(s) \/ AnyCall(s) \/ SpuriousWake(s)
           /\ UNCHANGED dkgVars
  <2>1. UNCHANGED <<wpc, fatal, script>>
    BY <1>4, CallerLeavesWorker DEF InCall
  <2>2. QED BY <1>4, <2>1 DEF dkgVars
<1>5. QED
  BY <1>1, <1>2, <1>3, <1>4 DEF DkgStep, DkgWorker, DkgInCall

\* The same of every step of DkgNext.
LEMMA DkgNextInv ==
  ASSUME Inv, DkgInv, [DkgNext]_allVars
  PROVE  DkgInv'
<1>1. CASE UNCHANGED allVars
  BY <1>1 DEF DkgInv, DkgTypeOK, KeyPhase, allVars, dkgVars, vars, workerVars,
     members
<1>2. QED BY <1>1, DkgNextIsStep, DkgStepInv

\* The initial state has no key.
LEMMA DkgInitInv == DkgInit => DkgInv
BY DEF DkgInit, Init, DkgInv, DkgTypeOK, KeyPhase, FinalizeAnswers, Left, Returned

\* DkgInv is an invariant of every DkgSession.
THEOREM DkgInvariant == DkgSpec => []DkgInv
BY DkgInitInv, DkgNextInv, DkgKeepsInv, PTL DEF DkgSpec

\* The derived class's variables keep their types.
THEOREM DkgTypeCorrect == DkgSpec => []DkgTypeOK
<1>1. DkgInv => DkgTypeOK
  BY DEF DkgInv
<1>2. QED BY <1>1, DkgInvariant, PTL

\* A session gives out at most one keypair.
THEOREM IssuedOnceCorrect == DkgSpec => []IssuedOnce
<1>1. DkgInv => IssuedOnce
  BY DEF DkgInv, DkgTypeOK, KeyPhase, IssuedOnce
<1>2. QED BY <1>1, DkgInvariant, PTL

\* A keypair comes only from a protocol that ran to its end.
THEOREM KeyCorrect == DkgSpec => []KeyOnlyFromSuccess
<1>1. DkgInv => KeyOnlyFromSuccess
  BY DEF DkgInv, KeyPhase, KeyOnlyFromSuccess
<1>2. QED BY <1>1, DkgInvariant, PTL

\* After a step has answered Done, Finalize has a key to give out or gave it.
THEOREM DoneKeyCorrect == DkgSpec => []DoneMeansKey
<1>1. Inv /\ DoneIsFinal /\ DkgInv => DoneMeansKey
  BY DEF Inv, Phases, Phase, DoneIsFinal, DkgInv, KeyPhase, DoneMeansKey, Left,
         Returned
<1>2. QED
  BY <1>1, DkgIsAsync, DoneCorrect, DkgKeepsInv, DkgInvariant, PTL

-----------------------------------------------------------------------------
(* What the session promises its caller (StepSession).                     *)

\* Each step of a DkgSession is a step of the promise, or none.
LEMMA PromiseStep ==
  ASSUME Inv, HeardInv, DkgInv, [DkgNext]_allVars
  PROVE  [Promise!SNext]_<<Shown, issued>>
<1> USE DEF Promise!SNext, Promise!StepAnswers, Promise!GiveKey
<1>1. CASE UNCHANGED <<reply, issued>>
  BY <1>1 DEF Shown, Heard
<1>2. ASSUME NEW s \in Sessions, DkgWorker(s) PROVE UNCHANGED <<reply, issued>>
  BY <1>2, EndStays DEF DkgWorker, PublishKey, Worker, dkgVars
<1>3. ASSUME NEW s \in Sessions,
             InCallBase(s) \/ AnyCall(s) \/ SpuriousWake(s), UNCHANGED dkgVars
      PROVE  [Promise!SNext]_<<Shown, issued>>
  <2>1. CASE reply' = reply
    BY <1>1, <1>3, <2>1 DEF dkgVars
  <2>2. CASE reply' # reply
    <3>1. PICK a \in [state : Answers, msg : Nat] :
            /\ reply' = [reply EXCEPT ![s] = a]
            /\ a.state = "error" <=> fatal[s]
            /\ a.state \in {"done", "finished"} <=> workerDone[s] /\ ~fatal[s]
      BY <1>3, <2>2, AnswerIsSo DEF InCall
    <3>2. UNCHANGED <<fatal, workerDone>>
      BY <1>3, AnswerIsSo DEF InCall
    <3>3. \E p \in Promise!After(Shown[s]) : Shown' = [Shown EXCEPT ![s] = p]
      BY <3>1, <3>2, HeardStep DEF Shown, Promise!After, Promise!Phases
    <3>4. QED BY <1>3, <3>3 DEF Shown, dkgVars
  <2>3. QED BY <2>1, <2>2
<1>4. ASSUME NEW s \in Sessions, Finalize(s)
      PROVE  [Promise!SNext]_<<Shown, issued>>
  <2>1. PICK a \in [state : Answers, msg : Nat] :
          /\ reply' = [reply EXCEPT ![s] = a]
          /\ a.state = "error" <=> fatal[s]
          /\ a.state \in {"done", "finished"} <=> workerDone[s] /\ ~fatal[s]
    BY <1>4, AnswerIsSo DEF Finalize, InCall
  <2>2. UNCHANGED <<fatal, workerDone>>
    BY <1>4, AnswerIsSo DEF Finalize, InCall
  <2>3. \E p \in Promise!After(Shown[s]) : Shown' = [Shown EXCEPT ![s] = p]
    BY <2>1, <2>2, HeardStep DEF Shown, Promise!After, Promise!Phases
  <2>4. CASE UNCHANGED issued
    BY <2>3, <2>4 DEF Shown
  <2>5. CASE ~fatal[s] /\ keyReady[s] /\ issued' = [issued EXCEPT ![s] = @ + 1]
    <3>1. issued[s] = 0 /\ issued' = [issued EXCEPT ![s] = 1]
      <4>1. issued[s] = 0 /\ issued' = [issued EXCEPT ![s] = issued[s] + 1]
        BY <2>5 DEF DkgInv, KeyPhase
      <4>2. QED BY <4>1
    <3>2. Shown[s] # "failed"
      BY <2>5 DEF Shown, Heard, HeardInv
    <3>3. workerDone[s]
      BY <1>4, <2>5 DEF Finalize, FinalizeReturns
    <3>4. Heard(s)' = "done" /\ \A r \in Sessions \ {s} : Heard(r)' = Heard(r)
      BY <2>1, <2>5, <3>3 DEF Heard, Inv, TypeOK
    <3>5. Shown' = [Shown EXCEPT ![s] = "done"]
      BY <3>4 DEF Shown
    <3>6. QED BY <3>1, <3>2, <3>5 DEF Shown
  <2>6. QED BY <1>4, <2>4, <2>5 DEF Finalize
<1>5. QED
  BY <1>1, <1>2, <1>3, <1>4, DkgNextIsStep
     DEF DkgStep, DkgInCall, allVars, vars, callerVars, dkgVars

\* A DkgSession implements StepSession: whatever its two threads do and in
\* whatever order Step and Finalize are called, an end once reported stays,
\* and the key is given out once, by a session that has not failed.
THEOREM PromiseCorrect == DkgSpec => KeepsPromise
<1>1. DkgInit => Promise!SInit
  BY DEF DkgInit, Init, Promise!SInit, Heard, Answer
<1>2. Inv /\ HeardInv /\ DkgInv /\ [DkgNext]_allVars
        => [Promise!SNext]_<<[s \in Sessions |-> Heard(s)], issued>>
  BY PromiseStep DEF Shown
<1>3. DkgSpec => []HeardInv
  BY DkgIsAsync, HeardInvariant, PTL
<1>4. QED
  BY <1>1, <1>2, <1>3, DkgKeepsInv, DkgInvariant, PTL
     DEF DkgSpec, KeepsPromise, Promise!SSpec

-----------------------------------------------------------------------------
(* Sessions driven by programs that carry messages between them.           *)

\* A message is about to be pushed exactly while inbound holds one, and an
\* error comes without a message.
CallInv ==
  \A s \in Sessions :
    /\ inbound[s] # NoMsg <=> cpc[s] = "push"
    /\ reply[s].state = "error" => reply[s].msg = NoMsg

SessionInv ==
  /\ Inv /\ DoneIsFinal /\ NoLostWakeup /\ CountInv
  /\ DkgInv /\ HeardInv /\ CallInv

\* The next operation of a protocol is to send, or to receive.
Says(s) ==
  /\ script[s] # <<>> /\ Head(script[s]) = "send"
  /\ script' = [script EXCEPT ![s] = Tail(script[s])]
  /\ sent' = [sent EXCEPT ![s] = sent[s] + 1]
  /\ outbound' = [outbound EXCEPT ![s] = sent[s] + 1]
  /\ UNCHANGED <<inboundQueue, consumed>>

Hears(s) ==
  /\ script[s] # <<>> /\ Head(script[s]) = "recv"
  /\ inboundQueue[s] # <<>>
  /\ script' = [script EXCEPT ![s] = Tail(script[s])]
  /\ inboundQueue' = [inboundQueue EXCEPT ![s] = Tail(inboundQueue[s])]
  /\ consumed' = [consumed EXCEPT ![s] = Append(consumed[s], Head(inboundQueue[s]))]
  /\ UNCHANGED <<sent, outbound>>

\* What the worker thread does to what the two sides of a conversation share.
LEMMA WorkerEffect ==
  ASSUME Inv, NEW s \in Sessions, DkgWorker(s)
  PROVE  /\ UNCHANGED <<cpc, inbound, reply, handed, seen, snapshot, issued,
                        finalized>>
         /\ \/ Says(s) \/ Hears(s)
            \/ UNCHANGED <<script, sent, outbound, inboundQueue, consumed>>
<1> USE DEF members, callerVars, history, WorkerGoes
<1>1. CASE PublishKey(s)
  BY <1>1 DEF PublishKey, Publish
<1>2. CASE OnSend(s) /\ UNCHANGED dkgVars
  BY <1>2 DEF OnSend, Says, dkgVars
<1>3. ASSUME NEW sleepers, ReceiveOrSleep(s, sleepers), UNCHANGED <<sent, outbound>>,
             script[s] # <<>>, Head(script[s]) = "recv"
      PROVE  Hears(s) \/ UNCHANGED <<script, sent, outbound, inboundQueue, consumed>>
  BY <1>3 DEF ReceiveOrSleep, GiveUp, TakeInbound, SleepForInbound, Hears
<1>4. CASE OnReceive(s) /\ UNCHANGED dkgVars
  <2>1. /\ ReceiveOrSleep(s, {}) /\ UNCHANGED <<sent, outbound>>
        /\ script[s] # <<>> /\ Head(script[s]) = "recv"
    BY <1>4 DEF OnReceive
  <2>2. UNCHANGED <<callerVars, handed, dkgVars>>
    BY <1>4 DEF OnReceive
  <2>3. QED BY <1>3, <2>1, <2>2 DEF dkgVars
<1>5. CASE ResumeReceive(s) /\ UNCHANGED dkgVars
  <2>1. /\ ReceiveOrSleep(s, asleep[s]) /\ UNCHANGED <<sent, outbound>>
        /\ script[s] # <<>> /\ Head(script[s]) = "recv"
    BY <1>5 DEF ResumeReceive, Inv, Phases, Phase
  <2>2. UNCHANGED <<callerVars, handed, dkgVars>>
    BY <1>5 DEF ResumeReceive
  <2>3. QED BY <1>3, <2>1, <2>2 DEF dkgVars
<1>6. CASE /\ \/ OnSendNotify(s) \/ Fail(s) \/ PublishNotify(s)
              \/ SetWorkerDone(s) \/ DoneNotify(s)
           /\ UNCHANGED dkgVars
  BY <1>6 DEF OnSendNotify, Fail, PublishNotify, SetWorkerDone, DoneNotify, dkgVars
<1>7. QED BY <1>1, <1>2, <1>4, <1>5, <1>6 DEF DkgWorker, WorkerBase

\* A call returns, with the message it found in the slot or without one.
HandsOut(s) ==
  /\ cpc[s] = "check" /\ cpc' = [cpc EXCEPT ![s] = "idle"]
  /\ outbound[s] # NoMsg
  /\ outbound' = [outbound EXCEPT ![s] = NoMsg]
  /\ handed' = [handed EXCEPT ![s] = Append(handed[s], outbound[s])]
  /\ \E state \in {"continue", "done"} :
       reply' = [reply EXCEPT ![s] = Answer(state, outbound[s])]
  /\ UNCHANGED <<inboundQueue, inbound>>

\* Continue without a message says that the worker has come to a new wait;
\* Finished is the answer to Finalize.
Returns(s) ==
  /\ cpc[s] \in {"check", "finwait"} /\ cpc' = [cpc EXCEPT ![s] = "idle"]
  /\ \E state \in Answers :
       /\ reply' = [reply EXCEPT ![s] = Answer(state, NoMsg)]
       /\ state \in {"continue", "none"} => snapshot[s] < waitRequestId[s]
       /\ state = "finished" => cpc[s] = "finwait"
  /\ UNCHANGED <<outbound, inboundQueue, inbound, handed>>

Pushes(s) ==
  /\ cpc[s] = "push" /\ cpc' = [cpc EXCEPT ![s] = "check"]
  /\ inboundQueue' = [inboundQueue EXCEPT ![s] = Append(inboundQueue[s], inbound[s])]
  /\ inbound' = [inbound EXCEPT ![s] = NoMsg]
  /\ UNCHANGED <<outbound, reply, handed, seen>>

\* Sleeping, waking and being destroyed.
Stays(s) ==
  /\ \/ UNCHANGED cpc
     \/ /\ cpc[s] \in {"free", "join"}
        /\ \E to \in {"join", "freed"} : cpc' = [cpc EXCEPT ![s] = to]
  /\ UNCHANGED <<outbound, inboundQueue, inbound, reply, handed, seen>>

\* What a call that was made does to it.
LEMMA CallerEffect ==
  ASSUME Inv, NEW s \in Sessions, DkgInCall(s) \/ (SpuriousWake(s) /\ UNCHANGED dkgVars)
  PROVE  /\ UNCHANGED <<script, sent, consumed, snapshot, waitRequestId>>
         /\ \/ HandsOut(s) /\ seen' = [seen EXCEPT ![s] = waitRequestId[s]]
            \/ Returns(s) /\ seen' = [seen EXCEPT ![s] = waitRequestId[s]]
            \/ Pushes(s) \/ Stays(s)
<1> USE DEF members, workerVars, callerVars, history, CallerGoes, Checking
<1>1. CASE StepOutbound(s)
  BY <1>1 DEF StepOutbound, StepReturns, HandsOut
<1>2. CASE StepError(s) \/ StepDone(s) \/ StepContinue(s) \/ FinalizeReturns(s)
  <2>1. PICK state \in Answers :
          /\ StepReturns(s, state, NoMsg) /\ UNCHANGED <<outbound, handed>>
          /\ state \in {"continue", "none"} => NewWait(s)
          /\ state = "finished" => cpc[s] = "finwait"
    BY <1>2 DEF StepError, StepDone, StepContinue, FinalizeReturns, Answers
  <2>2. cpc[s] \in {"check", "finwait"}
    BY <1>2 DEF StepError, StepDone, StepContinue, FinalizeReturns
  <2>3. snapshot[s] < waitRequestId[s] \/ state \notin {"continue", "none"}
    BY <2>1 DEF NewWait, Inv, TypeOK
  <2>4. QED BY <2>1, <2>2, <2>3 DEF StepReturns, Returns
<1>3. CASE StepPush(s)
  BY <1>3 DEF StepPush, Pushes
<1>4. CASE StepSleep(s) \/ FinalizeSleep(s) \/ AbortWorker(s) \/ Join(s)
           \/ SpuriousWake(s)
  BY <1>4 DEF StepSleep, FinalizeSleep, AbortWorker, Join, SpuriousWake, Stays
<1>5. QED
  BY <1>1, <1>2, <1>3, <1>4 DEF DkgInCall, Finalize, InCallBase

\* A key is given out by a call that returns, once, and by a session whose
\* protocol has ended well.
LEMMA KeyEffect ==
  ASSUME Inv, DkgInv, NEW s \in Sessions, DkgStep(s)
  PROVE  \/ UNCHANGED issued
         \/ /\ issued[s] = 0 /\ issued' = [issued EXCEPT ![s] = 1]
            /\ script[s] = <<>>
            /\ DkgInCall(s) /\ UNCHANGED <<script, sent, consumed>>
<1>1. CASE Finalize(s)
  <2>1. CASE ~fatal[s] /\ keyReady[s] /\ issued' = [issued EXCEPT ![s] = issued[s] + 1]
    <3>1. issued[s] = 0 /\ script[s] = <<>>
      BY <2>1 DEF DkgInv, KeyPhase
    <3>2. issued' = [issued EXCEPT ![s] = 1]
      BY <2>1, <3>1
    <3>3. DkgInCall(s)
      BY <1>1 DEF DkgInCall
    <3>4. UNCHANGED <<script, sent, consumed>>
      BY <3>3, CallerEffect
    <3>5. QED BY <3>1, <3>2, <3>3, <3>4
  <2>2. QED BY <1>1, <2>1 DEF Finalize
<1>2. CASE ~Finalize(s)
  BY <1>2 DEF DkgStep, DkgWorker, PublishKey, DkgInCall, dkgVars
<1>3. QED BY <1>1, <1>2

\* SessionInv is kept by every step of a driven session.
LEMMA SessionStep ==
  ASSUME SessionInv, NEW s \in Sessions, DkgStep(s)
  PROVE  SessionInv'
<1> USE DEF SessionInv
<1>1. \/ Worker(s) \/ InCall(s) \/ AnyCall(s) \/ SpuriousWake(s)
  BY DEF DkgStep, DkgWorker, PublishKey, Worker, DkgInCall, Finalize, InCall
<1>2. Inv'
  BY <1>1, WorkerTypeOK, WorkerPhase, CallerTypeOK, CallerPhase
     DEF Inv, Phases, Phase
<1>3. DoneIsFinal' /\ NoLostWakeup' /\ CountInv'
  BY <1>1, WorkerDoneFinal, CallerDoneFinal, WorkerWakes, CallerWakes,
     WorkerCounts, CallerCounts
<1>4. DkgInv'
  BY DkgStepInv
<1>5. HeardInv'
  BY <1>1, HeardStepInv
<1>6. CallInv'
  <2> USE DEF CallInv
  <2>1. CASE DkgWorker(s)
    BY <2>1, WorkerEffect
  <2>2. CASE DkgInCall(s) \/ (SpuriousWake(s) /\ UNCHANGED dkgVars)
    <3>1. HandsOut(s) \/ Returns(s) \/ Pushes(s) \/ Stays(s)
      BY <2>2, CallerEffect
    <3> USE DEF Inv, TypeOK, Answer, CallerPC
    <3>2. CASE HandsOut(s)
      BY <3>2 DEF HandsOut
    <3>3. CASE Returns(s)
      BY <3>3 DEF Returns
    <3>4. CASE Pushes(s)
      BY <3>4 DEF Pushes
    <3>5. CASE Stays(s)
      BY <3>5 DEF Stays
    <3>6. QED BY <3>1, <3>2, <3>3, <3>4, <3>5
  <2>3. CASE AnyCall(s)
    <3> USE DEF CallerGoes, Inv, TypeOK
    <3>1. CASE FinalizeCall(s) \/ FreeCall(s)
      BY <3>1 DEF FinalizeCall, FreeCall
    <3>2. ASSUME NEW m \in Nat, StepCall(s, m) PROVE CallInv'
      <4>1. /\ cpc' = [cpc EXCEPT ![s] = IF m = NoMsg THEN "check" ELSE "push"]
            /\ inbound' = [inbound EXCEPT ![s] = m] /\ reply' = reply
        BY <3>2 DEF StepCall
      <4>2. QED BY <4>1
    <3>3. QED BY <2>3, <3>1, <3>2 DEF AnyCall
  <2>4. QED BY <2>1, <2>2, <2>3 DEF DkgStep
<1>7. QED BY <1>2, <1>3, <1>4, <1>5, <1>6

LEMMA SessionStutter ==
  ASSUME SessionInv, UNCHANGED allVars
  PROVE  SessionInv'
<1> USE DEF SessionInv, allVars, dkgVars, vars, members, workerVars, callerVars, history
<1>1. Inv'
  BY StutterInv
<1>2. NoLostWakeup' /\ CountInv'
  BY DEF NoLostWakeup, CallerSleepsRightly, WorkerSleepsRightly, NewWait, CountInv,
     Counts
<1>3. QED
  BY <1>1, <1>2 DEF DoneIsFinal, DkgInv, DkgTypeOK, KeyPhase, HeardInv, CallInv

LEMMA SessionInit ==
  ASSUME DkgInit
  PROVE  SessionInv
<1>1. Inv
  BY InitInv DEF DkgInit
<1>2. \A s \in Sessions : reply[s] = Answer("none", NoMsg)
  BY DEF DkgInit, Init
<1>3. DoneIsFinal /\ HeardInv /\ CallInv
  BY <1>2 DEF DkgInit, Init, DoneIsFinal, HeardInv, CallInv, Answer
<1>4. NoLostWakeup /\ CountInv
  BY WakeInit, CountInit DEF DkgInit
<1>5. QED BY <1>1, <1>3, <1>4, DkgInitInv DEF SessionInv

\* A program that calls Finalize only for a worker that has ended hangs, if at
\* all, in a stuck Step: any other call that sleeps waits for a worker that is
\* awake, and so does the destructor.
HangsOnlyIfStuck ==
  \A s \in Sessions :
    /\ "caller" \in asleep[s] => WorkerAwake(s) \/ Stuck(s)
    /\ cpc[s] = "join" => "worker" \notin asleep[s]

LEMMA HangsIfStuck ==
  ASSUME SessionInv, \A s \in Sessions : cpc[s] = "finwait" => workerDone[s]
  PROVE  HangsOnlyIfStuck
<1> USE DEF SessionInv
<1>1. NoDeadlock
  BY AwakeOrStuck
<1>2. ASSUME NEW s \in Sessions, "caller" \in asleep[s]
      PROVE  WorkerAwake(s) \/ Stuck(s)
  <2>1. cpc[s] \in {"check", "finwait"}
    BY <1>2 DEF Inv, Phases, Phase
  <2>2. CASE cpc[s] = "finwait"
    <3>1. workerDone[s] /\ ~Starved(s)
      BY <2>2 DEF Inv, Phases, Phase, Starved
    <3>2. QED BY <1>1, <1>2, <2>2, <3>1 DEF NoDeadlock
  <2>3. QED BY <1>1, <1>2, <2>1, <2>2 DEF NoDeadlock
<1>3. QED BY <1>1, <1>2 DEF NoDeadlock, HangsOnlyIfStuck

\* What a session does of itself, and in the calls that were made.
SessionMoves(s) ==
  DkgWorker(s) \/ DkgInCall(s) \/ (SpuriousWake(s) /\ UNCHANGED dkgVars)

\* It speaks or listens, and is not called; or a call goes on, and the
\* conversation does not.
LEMMA SessionMovesEffect ==
  ASSUME SessionInv, NEW s \in Sessions, SessionMoves(s)
  PROVE  /\ \A r \in Sessions : workerDone[r] => workerDone'[r]
         /\ \A r \in Sessions : issued[r] = 1 => issued'[r] = 1
         /\ Says(s) \/ Hears(s) =>
              UNCHANGED <<cpc, inbound, reply, issued, handed, seen>>
         /\ \/ Says(s) \/ Hears(s)
            \/ /\ UNCHANGED <<script, sent, consumed>>
               /\ \/ HandsOut(s) /\ seen' = [seen EXCEPT ![s] = waitRequestId[s]]
                  \/ Returns(s) /\ seen' = [seen EXCEPT ![s] = waitRequestId[s]]
                  \/ Pushes(s) \/ Stays(s)
<1> USE DEF SessionInv, SessionMoves
<1>1. ASSUME NEW r \in Sessions, workerDone[r] PROVE workerDone'[r]
  <2>1. CASE DkgWorker(s)
    <3>1. workerDone' = workerDone \/ workerDone' = [workerDone EXCEPT ![s] = TRUE]
      BY <2>1 DEF DkgWorker, PublishKey, Publish, WorkerBase, OnSend, OnSendNotify,
         OnReceive, ResumeReceive, Fail, PublishNotify, SetWorkerDone, DoneNotify,
         members
    <3>2. QED BY <1>1, <3>1 DEF Inv, TypeOK
  <2>2. CASE ~DkgWorker(s)
    BY <1>1, <2>2, AnswerIsSo DEF DkgInCall, Finalize, InCall
  <2>3. QED BY <2>1, <2>2
<1>2. ASSUME NEW r \in Sessions, issued[r] = 1 PROVE issued'[r] = 1
  BY <1>2, KeyEffect DEF DkgStep, DkgInv, DkgTypeOK
<1>3. CASE DkgWorker(s)
  BY <1>1, <1>2, <1>3, WorkerEffect DEF Stays
<1>4. CASE ~DkgWorker(s)
  <2>1. ~Says(s) /\ ~Hears(s)
    <3>1. SUFFICES ASSUME script[s] # <<>>, script' = [script EXCEPT ![s] = Tail(script[s])]
                   PROVE  FALSE
      BY DEF Says, Hears
    <3>2. script' = script /\ script \in [Sessions -> Seq({"send", "recv"})]
      BY <1>4, CallerEffect DEF Inv, TypeOK
    <3>3. Tail(script[s]) = script[s] /\ script[s] \in Seq({"send", "recv"})
      BY <3>1, <3>2
    <3>4. Len(script[s]) \in Nat \ {0} /\ Len(Tail(script[s])) = Len(script[s]) - 1
      BY <3>1, <3>3, EmptySeq, HeadTailProperties
    <3>5. Len(script[s]) = Len(script[s]) - 1
      BY <3>3, <3>4
    <3>6. \A n \in Nat : n # n - 1
      OBVIOUS
    <3>7. QED BY <3>4, <3>5, <3>6
  <2>2. QED BY <1>1, <1>2, <1>4, <2>1, CallerEffect
<1>5. QED BY <1>3, <1>4

-----------------------------------------------------------------------------
(* Two parties in conversation.                                            *)

Op == {"send", "recv"}

\* The owner of a has sent what the owner of b has not received.
Ahead(a, b) ==
  /\ b # <<>> /\ Head(b) = "recv"
  /\ Conversation(a, Tail(b))
  /\ a # <<>> => Head(a) = "recv"

LEMMA ConversationSymmetric ==
  ASSUME NEW a \in Seq(Op), NEW b \in Seq(Op), Conversation(a, b)
  PROVE  Conversation(b, a)
<1>1. \A i \in 1 .. Len(a) : a[i] \in Op /\ b[i] \in Op
  BY ElementOfSeq DEF Conversation
<1>2. ASSUME NEW i \in 1 .. Len(b) - 1 PROVE b[i] # b[i + 1]
  <2>1. i \in 1 .. Len(a) - 1 /\ i \in 1 .. Len(a) /\ i + 1 \in 1 .. Len(a)
    BY DEF Conversation
  <2>2. a[i] # b[i] /\ a[i + 1] # b[i + 1] /\ a[i] # a[i + 1]
    BY <2>1 DEF Conversation
  <2>3. QED BY <1>1, <2>1, <2>2 DEF Op
<1>3. QED BY <1>2 DEF Conversation

\* Whose turn it is to send is ahead when it has sent.
LEMMA ToSend ==
  ASSUME NEW a \in Seq(Op), NEW b \in Seq(Op), Conversation(a, b),
         a # <<>>, Head(a) = "send"
  PROVE  Ahead(Tail(a), b)
<1>1. /\ Len(a) \in Nat \ {0} /\ Len(b) = Len(a)
      /\ Head(a) = a[1] /\ Head(b) = b[1]
  BY EmptySeq DEF Conversation
<1>2. b # <<>> /\ Head(b) = "recv"
  <2>1. 1 \in 1 .. Len(a) /\ 1 \in 1 .. Len(b)
    BY <1>1
  <2>2. b[1] \in Op /\ a[1] # b[1]
    BY <2>1, ElementOfSeq DEF Conversation
  <2>3. QED BY <1>1, <2>2, EmptySeq DEF Op
<1>3. /\ Len(Tail(a)) = Len(a) - 1 /\ Len(Tail(b)) = Len(b) - 1
      /\ \A i \in 1 .. Len(a) - 1 : Tail(a)[i] = a[i + 1] /\ Tail(b)[i] = b[i + 1]
      /\ Tail(a) \in Seq(Op) /\ Tail(b) \in Seq(Op)
  BY <1>1, <1>2, HeadTailProperties
<1>4. Conversation(Tail(a), Tail(b))
  <2>1. ASSUME NEW i \in 1 .. Len(a) - 1 PROVE Tail(a)[i] # Tail(b)[i]
    <3>1. i + 1 \in 1 .. Len(a)
      BY <1>1
    <3>2. QED BY <1>1, <1>3, <3>1 DEF Conversation
  <2>2. ASSUME NEW i \in 1 .. Len(a) - 2 PROVE Tail(a)[i] # Tail(a)[i + 1]
    <3>1. i + 1 \in 1 .. Len(a) - 1 /\ i \in 1 .. Len(a) - 1
      BY <1>1
    <3>2. QED BY <1>1, <1>3, <3>1 DEF Conversation
  <2>3. QED BY <1>1, <1>3, <2>1, <2>2 DEF Conversation
<1>5. ASSUME Tail(a) # <<>> PROVE Head(Tail(a)) = "recv"
  <2>1. Len(Tail(a)) \in Nat \ {0} /\ Head(Tail(a)) = Tail(a)[1]
    BY <1>3, <1>5, EmptySeq
  <2>2. 1 \in 1 .. Len(a) - 1 /\ 1 + 1 \in 1 .. Len(a)
    BY <1>1, <1>3, <2>1
  <2>3. Tail(a)[1] = a[1 + 1] /\ a[1] # a[1 + 1] /\ a[1 + 1] \in Op
    BY <1>3, <2>2, ElementOfSeq DEF Conversation
  <2>4. QED BY <1>1, <2>1, <2>3 DEF Op
<1>6. QED BY <1>2, <1>4, <1>5 DEF Ahead

\* Neither is silent while the other has something to say: who is to receive
\* has a peer that is to send, and a protocol ends on both sides at once.
LEMMA ToReceive ==
  ASSUME NEW a \in Seq(Op), NEW b \in Seq(Op), Conversation(a, b)
  PROVE  /\ a = <<>> <=> b = <<>>
         /\ a # <<>> /\ Head(a) = "recv" => Head(b) = "send"
<1>1. Len(a) = Len(b)
  BY DEF Conversation
<1>2. a = <<>> <=> b = <<>>
  BY <1>1, EmptySeq
<1>3. ASSUME a # <<>>, Head(a) = "recv" PROVE Head(b) = "send"
  <2>1. 1 \in 1 .. Len(a) /\ 1 \in 1 .. Len(b)
    BY <1>1, <1>3, EmptySeq
  <2>2. b[1] \in Op /\ a[1] # b[1] /\ Head(a) = a[1] /\ Head(b) = b[1]
    BY <2>1, ElementOfSeq DEF Conversation
  <2>3. QED BY <1>3, <2>2 DEF Op
<1>4. QED BY <1>2, <1>3

\* Who is ahead has nothing to send, nor has its peer, which is not at its end.
LEMMA AheadSilent ==
  ASSUME NEW a, NEW b, Ahead(a, b)
  PROVE  /\ ~(a # <<>> /\ Head(a) = "send")
         /\ b # <<>> /\ Head(b) # "send"
BY DEF Ahead

-----------------------------------------------------------------------------
(* Messages on their way.                                                  *)

\* A place for one message.
Opt(m) == IF m = NoMsg THEN <<>> ELSE <<m>>

LEMMA OptType ==
  ASSUME NEW m \in Nat
  PROVE  /\ Opt(m) \in Seq(Nat) /\ (Opt(m) = <<>> <=> m = NoMsg)
         /\ Len(Opt(m)) = IF m = NoMsg THEN 0 ELSE 1
<1>1. CASE m = NoMsg
  BY <1>1 DEF Opt
<1>2. CASE m # NoMsg
  BY <1>2 DEF Opt
<1>3. QED BY <1>1, <1>2

\* Nothing is on its way exactly when nothing is in any place.
LEMMA BothEmpty ==
  ASSUME NEW S, NEW x \in Seq(S), NEW y \in Seq(S)
  PROVE  x \o y = <<>> <=> x = <<>> /\ y = <<>>
<1>1. /\ x \o y \in Seq(S) /\ Len(x \o y) = Len(x) + Len(y)
      /\ Len(x) \in Nat /\ Len(y) \in Nat
  BY ConcatProperties
<1>2. QED BY <1>1, EmptySeq

LEMMA Regroup ==
  ASSUME NEW x \in Seq(Nat), NEW y \in Seq(Nat), NEW z \in Seq(Nat)
  PROVE  (x \o y) \o z = x \o (y \o z)
<1> DEFINE S == Nat
<1>1. x \in Seq(S) /\ y \in Seq(S) /\ z \in Seq(S)
  OBVIOUS
<1> HIDE DEF S
<1>2. QED BY <1>1, ConcatAssociative

\* The oldest message of a queue is passed on to the place before it.
LEMMA PassedOn ==
  ASSUME NEW S, NEW x \in Seq(S), NEW y \in Seq(S), y # <<>>, NEW r \in Seq(S)
  PROVE  Append(x, Head(y)) \o (Tail(y) \o r) = x \o (y \o r)
<1>1. /\ Head(y) \in S /\ Tail(y) \in Seq(S) /\ <<Head(y)>> \in Seq(S)
      /\ Tail(y) \o r \in Seq(S) /\ y \o r \in Seq(S)
  BY HeadTailProperties, ConcatProperties
<1>2. Append(x, Head(y)) = x \o <<Head(y)>>
  BY <1>1, AppendIsConcat
<1>3. y = <<Head(y)>> \o Tail(y)
  <2>1. /\ Len(y) \in Nat \ {0} /\ Len(Tail(y)) = Len(y) - 1 /\ Head(y) = y[1]
        /\ \A i \in 1 .. Len(y) - 1 : Tail(y)[i] = y[i + 1]
    BY EmptySeq, HeadTailProperties
  <2> DEFINE z == <<Head(y)>> \o Tail(y)
  <2>2. /\ z \in Seq(S) /\ Len(z) = Len(y)
        /\ \A i \in 1 .. Len(y) :
             z[i] = IF i <= 1 THEN <<Head(y)>>[i] ELSE Tail(y)[i - 1]
    BY <1>1, <2>1, ConcatProperties
  <2>3. ASSUME NEW i \in 1 .. Len(y) PROVE z[i] = y[i]
    <3>1. CASE i = 1
      BY <2>1, <2>2, <3>1
    <3>2. CASE i # 1
      <4>1. i - 1 \in 1 .. Len(y) - 1 /\ (i - 1) + 1 = i /\ ~(i <= 1)
        BY <2>1, <3>2
      <4>2. QED BY <2>1, <2>2, <4>1
    <3>3. QED BY <3>1, <3>2
  <2> HIDE DEF z
  <2>4. z = y
    BY <2>2, <2>3, SeqEqual
  <2>5. QED BY <2>4 DEF z
<1>4. (x \o <<Head(y)>>) \o (Tail(y) \o r) = x \o (<<Head(y)>> \o (Tail(y) \o r))
  BY <1>1, ConcatAssociative
<1>5. <<Head(y)>> \o (Tail(y) \o r) = (<<Head(y)>> \o Tail(y)) \o r
  BY <1>1, ConcatAssociative
<1>6. QED BY <1>2, <1>3, <1>4, <1>5

\* One message is passed on to the queue before its place.
LEMMA PassedOne ==
  ASSUME NEW x \in Seq(Nat), NEW m \in Nat, m # NoMsg, NEW r \in Seq(Nat)
  PROVE  Append(x, m) \o (Opt(NoMsg) \o r) = x \o (Opt(m) \o r)
<1>1. /\ Opt(m) = <<m>> /\ Opt(NoMsg) = <<>>
      /\ <<m>> \in Seq(Nat) /\ <<m>> # <<>> /\ Head(<<m>>) = m /\ Tail(<<m>>) = <<>>
  BY DEF Opt
<1>2. Append(x, Head(<<m>>)) \o (Tail(<<m>>) \o r) = x \o (<<m>> \o r)
  BY <1>1, PassedOn
<1>3. QED BY <1>1, <1>2

\* The oldest message of a queue is passed on to a place for one.
LEMMA TakenOut ==
  ASSUME NEW y \in Seq(Nat), y # <<>>, Head(y) # NoMsg, NEW r \in Seq(Nat)
  PROVE  Opt(Head(y)) \o (Tail(y) \o r) = Opt(NoMsg) \o (y \o r)
<1>1. /\ Opt(Head(y)) = <<Head(y)>> /\ Opt(NoMsg) = <<>>
      /\ Head(y) \in Nat /\ y \o r \in Seq(Nat)
  BY HeadTailProperties, ConcatProperties DEF Opt
<1>2. Append(<<>>, Head(y)) \o (Tail(y) \o r) = <<>> \o (y \o r)
  <2>1. <<>> \in Seq(Nat)
    OBVIOUS
  <2>2. QED BY <2>1, PassedOn
<1>3. Append(<<>>, Head(y)) = <<Head(y)>>
  BY <1>1
<1>4. QED BY <1>1, <1>2, <1>3

\* The first of what is on its way, where it has arrived.
LEMMA Arrived ==
  ASSUME NEW x \in Seq(Nat), x # <<>>, NEW r \in Seq(Nat)
  PROVE  /\ x \o r # <<>>
         /\ Head(x) = Head(x \o r)
         /\ Tail(x) \o r = Tail(x \o r)
<1>1. /\ Len(x) \in Nat \ {0} /\ Len(r) \in Nat
      /\ x \o r \in Seq(Nat) /\ Len(x \o r) = Len(x) + Len(r)
      /\ \A i \in 1 .. Len(x) + Len(r) :
           (x \o r)[i] = IF i <= Len(x) THEN x[i] ELSE r[i - Len(x)]
  BY EmptySeq, ConcatProperties
<1>2. x \o r # <<>>
  BY <1>1, EmptySeq
<1>3. Head(x) = Head(x \o r)
  <2>1. 1 \in 1 .. Len(x) + Len(r) /\ 1 <= Len(x)
    BY <1>1
  <2>2. QED BY <1>1, <2>1
<1>4. /\ Tail(x) \in Seq(Nat) /\ Len(Tail(x)) = Len(x) - 1
      /\ \A i \in 1 .. Len(x) - 1 : Tail(x)[i] = x[i + 1]
  BY HeadTailProperties
<1>5. /\ Tail(x \o r) \in Seq(Nat) /\ Len(Tail(x \o r)) = Len(x) + Len(r) - 1
      /\ \A i \in 1 .. Len(x) + Len(r) - 1 : Tail(x \o r)[i] = (x \o r)[i + 1]
  BY <1>1, <1>2, HeadTailProperties
<1>6. /\ Tail(x) \o r \in Seq(Nat) /\ Len(Tail(x) \o r) = Len(x) + Len(r) - 1
      /\ \A i \in 1 .. Len(x) + Len(r) - 1 :
           (Tail(x) \o r)[i] =
             IF i <= Len(x) - 1 THEN Tail(x)[i] ELSE r[i - (Len(x) - 1)]
  <2>1. Len(x) - 1 + Len(r) = Len(x) + Len(r) - 1
    BY <1>1
  <2>2. QED BY <1>4, <2>1, ConcatProperties
<1>7. ASSUME NEW i \in 1 .. Len(x) + Len(r) - 1
      PROVE  (Tail(x) \o r)[i] = Tail(x \o r)[i]
  <2>1. i + 1 \in 1 .. Len(x) + Len(r)
    BY <1>1
  <2>2. CASE i <= Len(x) - 1
    <3>1. i \in 1 .. Len(x) - 1 /\ i + 1 <= Len(x)
      BY <1>1, <2>2
    <3>2. QED BY <1>1, <1>4, <1>5, <1>6, <2>1, <2>2, <3>1
  <2>3. CASE ~(i <= Len(x) - 1)
    <3>1. ~(i + 1 <= Len(x)) /\ i + 1 - Len(x) = i - (Len(x) - 1)
      BY <1>1, <2>3
    <3>2. QED BY <1>1, <1>5, <1>6, <2>1, <2>3, <3>1
  <2>4. QED BY <2>2, <2>3
<1>8. Tail(x) \o r = Tail(x \o r)
  BY <1>5, <1>6, <1>7, SeqEqual
<1>9. QED BY <1>2, <1>3, <1>8

-----------------------------------------------------------------------------
(* How much a session can do: each operation of its protocol is worth one   *)
(* message sent or one wait announced.                                      *)

Work(s, limit) ==
  /\ sent[s] + waitRequestId[s] < limit
  /\ wpc[s] \in {"body", "sent"} =>
       sent[s] + waitRequestId[s] + Len(script[s]) < limit
  /\ wpc[s] = "recv" =>
       sent[s] + waitRequestId[s] + Len(script[s]) <= limit

\* Steps that answered something: each handed a message out or saw a new wait.
Accounted(s) ==
  /\ Len(handed[s]) + Len(Opt(outbound[s])) <= sent[s]
  /\ seen[s] <= waitRequestId[s]
  /\ cpc[s] \in {"push", "check"} => seen[s] <= snapshot[s]

\* The worker stays within the limit.
LEMMA WorkerWork ==
  ASSUME Inv, NEW limit \in Nat, NEW s \in Sessions, Work(s, limit), DkgWorker(s)
  PROVE  Work(s, limit)' /\ waitRequestId[s] <= waitRequestId'[s]
<1> USE DEF Inv, TypeOK, Work, WorkerGoes, members, history
<1>1. CASE PublishKey(s)
  BY <1>1 DEF PublishKey, Publish
<1>2. CASE OnSend(s)
  <2>1. /\ Len(script[s]) \in Nat \ {0}
        /\ Len(Tail(script[s])) = Len(script[s]) - 1
    BY <1>2, EmptySeq, HeadTailProperties DEF OnSend
  <2>2. /\ script'[s] = Tail(script[s]) /\ sent'[s] = sent[s] + 1
        /\ wpc[s] = "body" /\ wpc'[s] = "sent" /\ waitRequestId' = waitRequestId
    BY <1>2 DEF OnSend
  <2>3. /\ Len(script'[s]) = Len(script[s]) - 1
        /\ sent[s] \in Nat /\ waitRequestId[s] \in Nat
    BY <2>1, <2>2
  <2> HIDE DEF Inv, TypeOK
  <2>4. QED BY <2>1, <2>2, <2>3
<1>3. CASE OnReceive(s)
  <2>1. /\ Len(script[s]) \in Nat \ {0}
        /\ Len(Tail(script[s])) = Len(script[s]) - 1
    BY <1>3, EmptySeq, HeadTailProperties DEF OnReceive
  <2>2. /\ waitRequestId'[s] = waitRequestId[s] + 1 /\ sent' = sent
        /\ wpc[s] = "body" /\ ReceiveOrSleep(s, {})
    BY <1>3 DEF OnReceive
  <2>3. CASE GiveUp(s, {})
    BY <2>1, <2>2, <2>3 DEF GiveUp
  <2>4. CASE TakeInbound(s, {})
    <3>1. script'[s] = Tail(script[s]) /\ wpc'[s] = "body"
      BY <2>4 DEF TakeInbound
    <3>2. /\ Len(script'[s]) = Len(script[s]) - 1
          /\ sent[s] \in Nat /\ waitRequestId[s] \in Nat
      BY <2>1, <3>1
    <3> HIDE DEF Inv, TypeOK
    <3>3. QED BY <2>1, <2>2, <3>1, <3>2
  <2>5. CASE SleepForInbound(s, {})
    BY <2>1, <2>2, <2>5 DEF SleepForInbound
  <2>6. QED BY <2>2, <2>3, <2>4, <2>5 DEF ReceiveOrSleep
<1>4. CASE ResumeReceive(s)
  <2>1. wpc[s] = "recv" /\ script[s] # <<>>
    BY <1>4 DEF ResumeReceive, Phases, Phase
  <2>2. /\ Len(script[s]) \in Nat \ {0}
        /\ Len(Tail(script[s])) = Len(script[s]) - 1
    BY <2>1, EmptySeq, HeadTailProperties
  <2>3. /\ waitRequestId' = waitRequestId /\ sent' = sent
        /\ ReceiveOrSleep(s, asleep[s])
    BY <1>4 DEF ResumeReceive
  <2>4. CASE GiveUp(s, asleep[s])
    BY <2>1, <2>3, <2>4 DEF GiveUp
  <2>5. CASE TakeInbound(s, asleep[s])
    <3>1. script'[s] = Tail(script[s]) /\ wpc'[s] = "body"
      BY <2>5 DEF TakeInbound
    <3>2. QED BY <2>1, <2>2, <2>3, <3>1
  <2>6. CASE SleepForInbound(s, asleep[s])
    BY <2>1, <2>3, <2>6 DEF SleepForInbound
  <2>7. QED BY <2>3, <2>4, <2>5, <2>6 DEF ReceiveOrSleep
<1>5. CASE \/ OnSendNotify(s) \/ Fail(s) \/ PublishNotify(s)
           \/ SetWorkerDone(s) \/ DoneNotify(s)
  BY <1>5 DEF OnSendNotify, Fail, PublishNotify, SetWorkerDone, DoneNotify
<1>6. QED BY <1>1, <1>2, <1>3, <1>4, <1>5 DEF DkgWorker, WorkerBase

\* A step of one session leaves the others alone.
LEMMA OthersAlone ==
  ASSUME Inv, DkgInv, NEW s \in Sessions, DkgStep(s), NEW r \in Sessions \ {s}
  PROVE  /\ wpc'[r] = wpc[r] /\ script'[r] = script[r] /\ sent'[r] = sent[r]
         /\ waitRequestId'[r] = waitRequestId[r] /\ outbound'[r] = outbound[r]
         /\ inboundQueue'[r] = inboundQueue[r] /\ inbound'[r] = inbound[r]
         /\ consumed'[r] = consumed[r] /\ handed'[r] = handed[r]
         /\ cpc'[r] = cpc[r] /\ reply'[r] = reply[r]
         /\ seen'[r] = seen[r] /\ snapshot'[r] = snapshot[r]
         /\ finalized'[r] = finalized[r] /\ issued'[r] = issued[r]
<1> USE DEF Inv, TypeOK, members, workerVars, callerVars, history, WorkerGoes,
            CallerGoes
<1>1. CASE DkgWorker(s)
  <2>1. ASSUME NEW sleepers, ReceiveOrSleep(s, sleepers)
        PROVE  /\ wpc'[r] = wpc[r] /\ script'[r] = script[r]
               /\ inboundQueue'[r] = inboundQueue[r] /\ consumed'[r] = consumed[r]
    BY <2>1 DEF ReceiveOrSleep, GiveUp, TakeInbound, SleepForInbound
  <2>2. CASE OnReceive(s) \/ ResumeReceive(s)
    <3>1. /\ ReceiveOrSleep(s, {}) \/ ReceiveOrSleep(s, asleep[s])
          /\ UNCHANGED <<outbound, callerVars, sent, handed>>
          /\ waitRequestId'[r] = waitRequestId[r]
      BY <2>2 DEF OnReceive, ResumeReceive
    <3>2. UNCHANGED <<finalized, issued>>
      BY <1>1, WorkerEffect
    <3>3. QED BY <2>1, <3>1, <3>2
  <2>3. CASE ~OnReceive(s) /\ ~ResumeReceive(s)
    BY <1>1, <2>3 DEF DkgWorker, WorkerBase, PublishKey, Publish, OnSend,
       OnSendNotify, Fail, PublishNotify, SetWorkerDone, DoneNotify, dkgVars
  <2>4. QED BY <2>2, <2>3
<1>2. CASE DkgInCall(s)
  <2>1. CASE Finalize(s)
    <3>1. finalized'[r] = finalized[r] /\ issued'[r] = issued[r]
      BY <2>1 DEF Finalize, DkgInv, DkgTypeOK
    <3>2. QED BY <2>1, <3>1 DEF Finalize, FinalizeReturns, StepReturns
  <2>2. CASE \/ StepPush(s) \/ StepError(s) \/ StepOutbound(s) \/ StepDone(s)
             \/ StepContinue(s)
    <3>1. UNCHANGED dkgVars \/ Finalize(s)
      BY <1>2 DEF DkgInCall
    <3>2. QED
      BY <2>1, <2>2, <3>1 DEF StepPush, StepError, StepOutbound, StepDone,
         StepContinue, StepReturns, dkgVars
  <2>3. CASE StepSleep(s) \/ FinalizeSleep(s) \/ AbortWorker(s) \/ Join(s)
    <3>1. UNCHANGED dkgVars \/ Finalize(s)
      BY <1>2 DEF DkgInCall
    <3>2. QED
      BY <2>1, <2>3, <3>1 DEF StepSleep, FinalizeSleep, AbortWorker, Join, dkgVars
  <2>4. QED BY <1>2, <2>1, <2>2, <2>3 DEF DkgInCall, InCallBase
<1>3. CASE (AnyCall(s) \/ SpuriousWake(s)) /\ UNCHANGED dkgVars
  BY <1>3 DEF AnyCall, StepCall, FinalizeCall, FreeCall, SpuriousWake, dkgVars
<1>4. QED BY <1>1, <1>2, <1>3 DEF DkgStep

\* Every session stays within its limit.
LEMMA WorkStep ==
  ASSUME Inv, DkgInv, NEW limit \in Nat, NEW s \in Sessions, DkgStep(s),
         NEW r \in Sessions, Work(r, limit)
  PROVE  Work(r, limit)'
<1>1. CASE r # s
  BY <1>1, OthersAlone DEF Work
<1>2. CASE r = s /\ DkgWorker(s)
  BY <1>2, WorkerWork
<1>3. CASE r = s /\ ~DkgWorker(s)
  <2>1. UNCHANGED <<wpc, script, sent, waitRequestId>>
    BY <1>3 DEF DkgStep, DkgInCall, Finalize, InCallBase, AnyCall, SpuriousWake,
       StepPush, StepError, StepOutbound, StepDone, StepContinue, StepSleep,
       StepReturns, FinalizeReturns, FinalizeSleep, AbortWorker, Join, StepCall,
       FinalizeCall, FreeCall, members, workerVars, history
  <2>2. QED BY <1>3, <2>1 DEF Work
<1>4. QED BY <1>1, <1>2, <1>3

\* The count of answers is kept.
LEMMA AccountedStep ==
  ASSUME Inv, DkgInv, NEW s \in Sessions, DkgStep(s), NEW r \in Sessions, Accounted(r)
  PROVE  Accounted(r)'
<1> USE DEF Inv, TypeOK, Accounted
<1>1. CASE r # s
  BY <1>1, OthersAlone
<1>2. CASE r = s /\ DkgWorker(s)
  <2>1. waitRequestId[s] <= waitRequestId'[s]
    <3>1. ASSUME WorkerBase(s) \/ Publish(s)
          PROVE  \/ UNCHANGED waitRequestId
                 \/ waitRequestId' = [waitRequestId EXCEPT ![s] = @ + 1]
      BY <3>1 DEF WorkerBase, OnSend, OnSendNotify, OnReceive, ResumeReceive, Fail,
         PublishNotify, SetWorkerDone, DoneNotify, Publish, members
    <3>2. waitRequestId[s] \in Nat
      OBVIOUS
    <3>3. QED BY <1>2, <3>1, <3>2 DEF DkgWorker, PublishKey
  <2>2. UNCHANGED <<cpc, handed, seen, snapshot>>
    BY <1>2, WorkerEffect
  <2>3. waitRequestId' \in [Sessions -> Nat]
    BY <1>2, WorkerTypeOK DEF DkgWorker, PublishKey, Worker, Phases, Phase
  <2>4. CASE Says(s)
    <3>1. sent'[s] = sent[s] + 1 /\ outbound'[s] = sent[s] + 1
      BY <2>4 DEF Says
    <3>2. sent[s] \in Nat /\ outbound[s] \in Nat /\ handed[s] \in Seq(Nat)
          /\ waitRequestId'[s] \in Nat /\ waitRequestId[s] \in Nat /\ seen[s] \in Nat
      BY <2>3
    <3>3. /\ Len(Opt(outbound'[s])) = 1 /\ Len(Opt(outbound[s])) \in 0 .. 1
          /\ Len(handed[s]) \in Nat
      <4>1. outbound'[s] \in Nat /\ outbound'[s] # NoMsg
        <5> HIDE DEF Inv, TypeOK
        <5>1. QED BY <3>1, <3>2 DEF NoMsg
      <4>2. Len(Opt(outbound'[s])) = 1
        BY <4>1, OptType
      <4>3. Len(Opt(outbound[s])) \in 0 .. 1
        BY <3>2, OptType
      <4>4. QED BY <3>2, <4>2, <4>3
    <3>4. Len(handed[s]) \in Nat /\ UNCHANGED <<handed, cpc, seen, snapshot>>
      BY <2>2, <3>2
    <3>5. Accounted(s)
      BY <1>2
    <3> HIDE DEF Inv, TypeOK
    <3>6. Accounted(s)'
      <4>1. Len(handed'[s]) + Len(Opt(outbound'[s])) <= sent'[s]
        <5>1. Len(handed'[s]) = Len(handed[s]) /\ sent'[s] = sent[s] + 1
          BY <3>1, <3>4
        <5>2. Len(handed[s]) + Len(Opt(outbound[s])) <= sent[s]
          BY <3>5
        <5>3. \A h, o, n \in Nat : h + o <= n => h + 1 <= n + 1
          OBVIOUS
        <5>4. /\ Len(Opt(outbound[s])) \in Nat /\ sent[s] \in Nat
              /\ Len(handed[s]) \in Nat
          BY <3>2, <3>3
        <5>5. Len(handed[s]) + 1 <= sent[s] + 1
          BY <5>2, <5>3, <5>4
        <5>6. QED BY <3>3, <5>1, <5>5
      <4>2. seen'[s] <= waitRequestId'[s]
        BY <2>1, <3>2, <3>4, <3>5
      <4>3. cpc'[s] \in {"push", "check"} => seen'[s] <= snapshot'[s]
        BY <3>4, <3>5
      <4>4. QED BY <4>1, <4>2, <4>3
    <3>7. QED BY <1>2, <3>6
  <2>5. CASE UNCHANGED <<sent, outbound>>
    BY <1>2, <2>1, <2>2, <2>3, <2>5
  <2>6. QED BY <1>2, <2>4, <2>5, WorkerEffect DEF Hears
<1>3. CASE r = s /\ (DkgInCall(s) \/ (SpuriousWake(s) /\ UNCHANGED dkgVars))
  <2>1. UNCHANGED <<sent, snapshot, waitRequestId>>
    BY <1>3, CallerEffect
  <2>2. CASE HandsOut(s) /\ seen' = [seen EXCEPT ![s] = waitRequestId[s]]
    <3>1. /\ Len(handed'[s]) = Len(handed[s]) + 1 /\ outbound'[s] = NoMsg
          /\ outbound[s] # NoMsg /\ cpc'[s] = "idle" /\ seen'[s] = waitRequestId[s]
      BY <2>2, AppendProperties DEF HandsOut
    <3>2. Len(Opt(outbound[s])) = 1 /\ Len(Opt(outbound'[s])) = 0
      <4>1. outbound[s] \in Nat /\ outbound'[s] \in Nat
        BY <3>1 DEF NoMsg
      <4>2. QED BY <3>1, <4>1, OptType
    <3>3. QED BY <1>3, <2>1, <3>1, <3>2
  <2>3. CASE Returns(s) /\ seen' = [seen EXCEPT ![s] = waitRequestId[s]]
    BY <1>3, <2>1, <2>3 DEF Returns
  <2>4. CASE Pushes(s)
    BY <1>3, <2>1, <2>4, CallerEffect DEF Pushes, HandsOut, Returns
  <2>5. CASE Stays(s)
    BY <1>3, <2>1, <2>5 DEF Stays
  <2>6. QED BY <1>3, <2>2, <2>3, <2>4, <2>5, CallerEffect
<1>4. CASE r = s /\ AnyCall(s)
  <2>1. UNCHANGED <<sent, handed, outbound, waitRequestId, seen>>
    BY <1>4 DEF AnyCall, StepCall, FinalizeCall, FreeCall, members, history
  <2>2. CASE FinalizeCall(s) \/ FreeCall(s)
    BY <1>4, <2>1, <2>2 DEF FinalizeCall, FreeCall, CallerGoes
  <2>3. ASSUME NEW m \in Nat, StepCall(s, m) PROVE seen[s] <= snapshot'[s]
    BY <2>3 DEF StepCall
  <2>4. QED BY <1>4, <2>1, <2>2, <2>3 DEF AnyCall
<1>5. QED BY <1>1, <1>2, <1>3, <1>4 DEF DkgStep

=============================================================================
