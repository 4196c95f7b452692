---------------------------- MODULE SignSession -----------------------------
(***************************************************************************)
(* SignSessionImpl of cpp/src/bridge.cpp: an AsyncSession whose worker     *)
(* first waits, on a mutex and a condition variable of the derived class,  *)
(* for the message to sign, and only then runs the signing protocol.       *)
(***************************************************************************)
EXTENDS AsyncSession

CONSTANTS Signers,     \* the sessions of party p1, which obtain the signature
          Messages,    \* the messages a client may ask to be signed
          MaxAccepted  \* bound: messages a session accepts

NoMessage == "nomessage"

ASSUME SignAssumption ==
  /\ Signers \subseteq Sessions
  /\ NoMessage \notin Messages
  /\ MaxAccepted \in Nat

VARIABLES messageReady, message,  \* message_ready_, message_
          signing,                \* the message the worker took to sign
          stage,                  \* the worker, before it enters the protocol
          sawAbort,               \* aborted_ as the wait on message_cv_ reads it
          signatureReady,         \* signature_ready_
          finalized,              \* the last answer of Finalize
          accepted                \* history: messages SetMessage took

signVars == <<messageReady, message, signing, stage, sawAbort, signatureReady,
              finalized, accepted>>
allVars  == <<vars, signVars>>

Stages == {"wait",     \* evaluating the wait on message_cv_
           "sleep",    \* asleep on message_cv_
           "signing",  \* in the protocol, or past it
           "quit"}     \* returned without a message

SignAnswers == {"none", "signature", "failed", "unavailable", "unready"}

SignInit ==
  /\ Init
  /\ messageReady   = [s \in Sessions |-> FALSE]
  /\ message        = [s \in Sessions |-> NoMessage]
  /\ signing        = [s \in Sessions |-> NoMessage]
  /\ stage          = [s \in Sessions |-> "wait"]
  /\ sawAbort       = [s \in Sessions |-> FALSE]
  /\ signatureReady = [s \in Sessions |-> FALSE]
  /\ finalized      = [s \in Sessions |-> "none"]
  /\ accepted       = [s \in Sessions |-> <<>>]

-----------------------------------------------------------------------------
(* The client sets the message.  SetMessage has a mutex of its own, so a    *)
(* call may overlap with a Step.                                           *)

Usable(s) == cpc[s] \notin {"free", "join", "freed"}

\* Slip: a message replaces the one not yet taken.
ReplaceMessage(s, m) ==
  /\ Usable(s)
  /\ Len(accepted[s]) < MaxAccepted
  /\ messageReady' = [messageReady EXCEPT ![s] = TRUE]
  /\ message' = [message EXCEPT ![s] = m]
  /\ accepted' = [accepted EXCEPT ![s] = Append(@, m)]
  /\ stage' = [stage EXCEPT ![s] = IF @ = "sleep" THEN "wait" ELSE @]
  /\ UNCHANGED <<vars, signing, sawAbort, signatureReady, finalized>>

\* Slip: message_cv_ is not notified.
SetMessageQuietly(s, m) ==
  /\ Usable(s)
  /\ ~messageReady[s] /\ Len(accepted[s]) < MaxAccepted
  /\ messageReady' = [messageReady EXCEPT ![s] = TRUE]
  /\ message' = [message EXCEPT ![s] = m]
  /\ accepted' = [accepted EXCEPT ![s] = Append(@, m)]
  /\ UNCHANGED <<vars, signing, stage, sawAbort, signatureReady, finalized>>

SetMessage(s, m) ==
  /\ Usable(s)
  /\ ~messageReady[s]
  /\ Len(accepted[s]) < MaxAccepted
  /\ messageReady' = [messageReady EXCEPT ![s] = TRUE]
  /\ message' = [message EXCEPT ![s] = m]
  /\ accepted' = [accepted EXCEPT ![s] = Append(@, m)]
  /\ stage' = [stage EXCEPT ![s] = IF @ = "sleep" THEN "wait" ELSE @]
  /\ UNCHANGED <<vars, signing, sawAbort, signatureReady, finalized>>

-----------------------------------------------------------------------------
(* The worker waits for the message.                                       *)

TakeMessage(s) ==
  /\ stage[s] = "wait" /\ messageReady[s]
  /\ stage' = [stage EXCEPT ![s] = "signing"]
  /\ signing' = [signing EXCEPT ![s] = message[s]]
  /\ message' = [message EXCEPT ![s] = NoMessage]
  /\ messageReady' = [messageReady EXCEPT ![s] = FALSE]
  /\ UNCHANGED <<vars, sawAbort, signatureReady, finalized, accepted>>

\* The wait reads aborted_ without the mutex that guards it: what it reads is
\* the old value until the new one becomes visible, some time after the write.
AbortVisible(s) ==
  /\ aborted[s] /\ ~sawAbort[s]
  /\ sawAbort' = [sawAbort EXCEPT ![s] = TRUE]
  /\ UNCHANGED <<vars, messageReady, message, signing, stage, signatureReady,
                 finalized, accepted>>

\* Without a message the worker gives up if it reads aborted_, and otherwise
\* sleeps until SetMessage notifies message_cv_; nothing else does.
AwaitMessage(s) ==
  /\ stage[s] = "wait" /\ ~messageReady[s]
  /\ \/ /\ sawAbort[s]
        /\ stage' = [stage EXCEPT ![s] = "quit"]
        /\ wpc' = [wpc EXCEPT ![s] = "returned"]
     \/ /\ ~sawAbort[s]
        /\ stage' = [stage EXCEPT ![s] = "sleep"]
        /\ UNCHANGED wpc
  /\ UNCHANGED <<members, script, callerVars, asleep, history, messageReady,
                 message, signing, sawAbort, signatureReady, finalized, accepted>>

\* Slip: the wait has no predicate.
WakeUnchecked(s) ==
  /\ stage[s] = "sleep"
  /\ stage' = [stage EXCEPT ![s] = "signing"]
  /\ UNCHANGED <<vars, messageReady, message, signing, sawAbort,
                 signatureReady, finalized, accepted>>

\* message_cv_ may wake the worker without a notification.
SpuriousMessageWake(s) ==
  /\ stage[s] = "sleep"
  /\ stage' = [stage EXCEPT ![s] = "wait"]
  /\ UNCHANGED <<vars, messageReady, message, signing, sawAbort,
                 signatureReady, finalized, accepted>>

-----------------------------------------------------------------------------
(* The protocol, and Finalize.                                             *)

\* Slip: the signature is never marked ready.
PublishNothing(s) ==
  /\ stage[s] = "signing" /\ Publish(s) /\ UNCHANGED signVars

\* Party p1 stores the signature; p2 ends with an empty one.
PublishSignature(s) ==
  /\ stage[s] = "signing"
  /\ Publish(s)
  /\ signatureReady' = [signatureReady EXCEPT ![s] = (s \in Signers)]
  /\ UNCHANGED <<messageReady, message, signing, stage, sawAbort, finalized,
                 accepted>>

\* Finalize may be repeated, once per signature format.
Finalize(s) ==
  /\ FinalizeReturns(s)
  /\ finalized' = [finalized EXCEPT ![s] =
        IF fatal[s] THEN "failed"
        ELSE IF s \notin Signers THEN "unavailable"
        ELSE IF signatureReady[s] THEN "signature" ELSE "unready"]
  /\ UNCHANGED <<messageReady, message, signing, stage, sawAbort,
                 signatureReady, accepted>>

SignWorker(s) ==
  \/ TakeMessage(s) \/ AwaitMessage(s) \/ PublishSignature(s)
  \/ stage[s] \in {"signing", "quit"} /\ WorkerBase(s) /\ UNCHANGED signVars

SignInCall(s) == Finalize(s) \/ (InCallBase(s) /\ UNCHANGED signVars)

SignNext ==
  \/ \E s \in Sessions :
       \/ SignWorker(s) \/ SignInCall(s) \/ SpuriousMessageWake(s)
       \/ AbortVisible(s)
       \/ \E m \in Messages : SetMessage(s, m)
       \/ (Call(s) \/ SpuriousWake(s)) /\ UNCHANGED signVars
  \/ Freed /\ UNCHANGED signVars

SignSpec == SignInit /\ [][SignNext]_allVars

\* The scheduler runs both threads, and a write becomes visible.
SignFairness ==
  \A s \in Sessions :
    /\ WF_allVars(SignWorker(s)) /\ WF_allVars(SignInCall(s))
    /\ WF_allVars(AbortVisible(s))

FairSignSpec == SignSpec /\ SignFairness

-----------------------------------------------------------------------------
(* Properties.                                                             *)

\* The type invariant of the derived class.
SignTypeOK ==
  /\ messageReady \in [Sessions -> BOOLEAN]
  /\ message \in [Sessions -> Messages \cup {NoMessage}]
  /\ signing \in [Sessions -> Messages \cup {NoMessage}]
  /\ stage \in [Sessions -> Stages]
  /\ sawAbort \in [Sessions -> BOOLEAN]
  /\ signatureReady \in [Sessions -> BOOLEAN]
  /\ finalized \in [Sessions -> SignAnswers]
  /\ accepted \in [Sessions -> Seq(Messages)]

\* What the worker signs is the first message the client set, whatever the
\* client sets later.
SignsFirstMessage ==
  \A s \in Sessions : stage[s] = "signing" => signing[s] = Head(accepted[s])

\* A signature exists only for p1, after the whole protocol ran without an
\* error, and p1 never finalizes a successful run without one.
SignatureOnlyFromSuccess ==
  \A s \in Sessions :
    /\ signatureReady[s] =>
         s \in Signers /\ ~fatal[s] /\ script[s] = <<>> /\ accepted[s] # <<>>
    /\ finalized[s] # "unready"

\* The worker sends and receives nothing before the client has set a message.
SilentUntilMessage ==
  \A s \in Sessions :
    accepted[s] = <<>> /\ cpc[s] \notin {"join", "freed"} =>
      sent[s] = 0 /\ waitRequestId[s] = 0 /\ ~workerDone[s]

Promise == INSTANCE StepSession WITH
             phase <- [s \in Sessions |-> Heard(s)],
             given <- [s \in Sessions |-> 0]

\* A signing session, too, keeps what bridge.h promises of it: an end once
\* reported stays.  The signature is no key and may be asked for again.
KeepsPromise == Promise!SSpec

\* Every Step call returns, except a stuck one and one made on a session whose
\* message is never set.
SignStepReturns ==
  \A s \in Sessions :
    \/ []<>(cpc[s] \notin {"push", "check"})
    \/ <>[]Stuck(s)
    \/ <>[](accepted[s] = <<>>)

=============================================================================
