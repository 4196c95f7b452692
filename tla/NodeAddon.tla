----------------------------- MODULE NodeAddon -----------------------------
(***************************************************************************)
(* The Node binding (bindings/node/addon.cc): JavaScript objects around the *)
(* handles of CApi, as in HostObjects, but the two step functions only      *)
(* queue a job.  A thread of the libuv pool runs it, and the JavaScript     *)
(* thread settles its promise.  A job keeps the addresses of the objects it *)
(* uses and does not keep them alive.                                       *)
(*                                                                         *)
(* JavaScript awaits one step of a session before it asks for the next;     *)
(* otherwise it calls in any order.  Calls that throw before they reach the *)
(* C API change nothing and are left out.  Once freed memory has been used  *)
(* (torn) anything may follow, and the model stops.                         *)
(***************************************************************************)
EXTENDS CApi, Sequences

CONSTANTS Jobs,     \* every job there will ever be
          Threads   \* threads in the libuv pool

ASSUME ThreadsAssumption == Threads \in Nat \ {0}

VARIABLES
  cwrap,   \* the context's object: none, set, null (shut down), gone (collected)
  wrap,    \* the same of every handle's object
  job,     \* per job: its session, how far it is, whether its step waits
  queue,   \* jobs the pool has not started
  leaked,  \* history: a buffer was given back to no context
  hasty    \* history: something was freed under a step that uses it

hostVars == <<apiVars, cwrap, wrap>>
jobVars  == <<job, queue>>
nodeVars == <<hostVars, jobVars, leaked, hasty>>

Stages == {"unused", "queued", "running", "returned", "finished", "settled"}

Of(h, stages) == \E j \in Jobs : job[j].on = h /\ job[j].stage \in stages
Any(stages)   == \E j \in Jobs : job[j].stage \in stages

NInit ==
  /\ CInit /\ cwrap = "none" /\ wrap = [h \in Handles |-> "none"]
  /\ job = [j \in Jobs |-> [on |-> Nothing, stage |-> "unused", waits |-> FALSE]]
  /\ queue = <<>> /\ leaked = FALSE /\ hasty = FALSE

-----------------------------------------------------------------------------
(* Calls on the JavaScript thread.                                         *)

\* UnwrapHandle, and the check of what is in the object.
UnwrapHandle(h) == cwrap = "set" /\ wrap[h] = "set"

\* Puts a handle that was made into an object.
WrapHandle(h) ==
  /\ wrap' = IF handle'[h] = handle[h] THEN wrap ELSE [wrap EXCEPT ![h] = "set"]
  /\ UNCHANGED <<cwrap, jobVars, leaked, hasty>>

Call(call) == call /\ UNCHANGED <<cwrap, wrap, jobVars, leaked, hasty>>

Hasty(does) == hasty' = (hasty \/ does) /\ UNCHANGED <<jobVars, leaked>>

JsInit ==
  /\ maany_mpc_init /\ cwrap' = (IF ctx' = "up" THEN "set" ELSE cwrap)
  /\ UNCHANGED <<wrap, jobVars, leaked, hasty>>

JsShutdown ==
  /\ cwrap = "set" /\ maany_mpc_shutdown /\ cwrap' = "null" /\ UNCHANGED wrap
  /\ Hasty(Any({"running", "returned"}))

JsDkgNew(h)        == cwrap = "set" /\ maany_mpc_dkg_new(h) /\ WrapHandle(h)
JsKpImport(h)      == cwrap = "set" /\ maany_mpc_kp_import(h) /\ WrapHandle(h)
JsSignNew(k, h)    == UnwrapHandle(k) /\ maany_mpc_sign_new(k, h) /\ WrapHandle(h)
JsRefreshNew(k, h) == UnwrapHandle(k) /\ maany_mpc_refresh_new(k, h) /\ WrapHandle(h)

\* No one between the library and Node catches an exception: the program ends.
JsBackupRestore(h) ==
  /\ cwrap = "set" /\ maany_mpc_backup_restore(h) /\ WrapHandle(h)
  /\ answer'.status = "thrown" => hung'

\* A step is queued; its promise is pending.
QueueWork(j, h) ==
  /\ UnwrapHandle(h) /\ ~Of(h, Stages \ {"settled"})
  /\ job[j].stage = "unused"
  /\ job' = [job EXCEPT ![j].on = h, ![j].stage = "queued"]
  /\ queue' = Append(queue, j)
  /\ UNCHANGED <<hostVars, leaked, hasty>>

JsDkgStep(j, h)  == handle[h].kind = "dkg" /\ QueueWork(j, h)
JsSignStep(j, h) == handle[h].kind = "sign" /\ QueueWork(j, h)

\* Slip: the session's handle is kept, in its object.
DkgFinalizeKeeps(h, k) ==
  /\ UnwrapHandle(h) /\ UNCHANGED cwrap
  /\ FinalizeDkg(h, k, TRUE)
  /\ wrap' = IF answer'.status = "ok" THEN [wrap EXCEPT ![k] = "set"] ELSE wrap
  /\ Hasty(Of(h, {"queued", "running"}))

JsDkgFinalize(h, k) ==
  /\ UnwrapHandle(h) /\ UNCHANGED cwrap
  /\ \/ /\ FinalizeDkg(h, k, FALSE)
        /\ wrap' = IF answer'.status = "ok"
                   THEN [wrap EXCEPT ![h] = "null", ![k] = "set"] ELSE wrap
     \/ handle[h].kind = "dkg" /\ Blocks("dkg_finalize", h) /\ UNCHANGED wrap
  /\ Hasty(Of(h, {"queued", "running"}))

\* The message may be what the session's step waits for.
JsSignSetMessage(h) ==
  /\ UnwrapHandle(h) /\ maany_mpc_sign_set_message(h)
  /\ \/ UNCHANGED job
     \/ /\ answer'.status = "ok"
        /\ job' = [j \in Jobs |-> IF job[j].on = h THEN [job[j] EXCEPT !.waits = FALSE]
                                  ELSE job[j]]
  /\ UNCHANGED <<cwrap, wrap, queue, leaked, hasty>>

JsSignFinalize(h) ==
  /\ UnwrapHandle(h) /\ UNCHANGED <<cwrap, wrap>>
  /\ \/ maany_mpc_sign_finalize(h)
     \/ handle[h].kind = "sign" /\ Blocks("sign_finalize", h)
  /\ Hasty(Of(h, {"queued", "running"}))

JsKpExport(h)     == UnwrapHandle(h) /\ Call(maany_mpc_kp_export(h))
JsKpPubkey(h)     == UnwrapHandle(h) /\ Call(maany_mpc_kp_pubkey(h))
JsBackupCreate(h) == UnwrapHandle(h) /\ Call(maany_mpc_backup_create(h))

\* Slip: the object still holds the handle that was freed.
DkgFreeKeeps(h) ==
  /\ wrap[h] = "set" /\ maany_mpc_dkg_free(h) /\ UNCHANGED <<cwrap, wrap>>
  /\ Hasty(Of(h, {"running"}))

\* The object is emptied once the handle is freed, with no context asked for.
Empties(h) ==
  /\ wrap[h] = "set" /\ UNCHANGED cwrap
  /\ wrap' = IF hung' THEN wrap ELSE [wrap EXCEPT ![h] = "null"]
  /\ Hasty(Of(h, {"running"}))

JsDkgFree(h)  == maany_mpc_dkg_free(h) /\ Empties(h)
JsSignFree(h) == maany_mpc_sign_free(h) /\ Empties(h)
JsKpFree(h)   == maany_mpc_kp_free(h) /\ Empties(h)

\* JavaScript has dropped an object and the collector takes it, in any order.
FinalizeCtx ==
  /\ \/ cwrap = "set" /\ maany_mpc_shutdown
     \/ cwrap = "null" /\ UNCHANGED apiVars
  /\ cwrap' = "gone" /\ UNCHANGED wrap
  /\ Hasty(Any({"queued", "running", "returned"}))

Collect(h, free) ==
  /\ \/ wrap[h] = "set" /\ FreeHandle(free, h)
     \/ wrap[h] = "null" /\ UNCHANGED apiVars
  /\ wrap' = IF hung' THEN wrap ELSE [wrap EXCEPT ![h] = "gone"]
  /\ UNCHANGED cwrap
  /\ Hasty(Of(h, {"queued", "running"}))

FinalizeDkgHandle(h) == handle[h].kind = "dkg"  /\ Collect(h, "dkg_free")
FinalizeKeypair(h)   == handle[h].kind = "kp"   /\ Collect(h, "kp_free")
FinalizeSign(h)      == handle[h].kind = "sign" /\ Collect(h, "sign_free")

-----------------------------------------------------------------------------
(* A thread of the pool runs a job: it looks at the two objects, steps the   *)
(* session, and gives the buffer back to the context.                       *)

\* Slip: the objects are not looked at again.
StartBlindly(j) ==
  /\ queue # <<>> /\ j = Head(queue) /\ queue' = Tail(queue)
  /\ Cardinality({i \in Jobs : job[i].stage \in {"running", "returned"}}) < Threads
  /\ job' = [job EXCEPT ![j].stage = "running"]
  /\ UNCHANGED <<hostVars, leaked, hasty>>

Start(j) ==
  /\ queue # <<>> /\ j = Head(queue) /\ queue' = Tail(queue)
  /\ Cardinality({i \in Jobs : job[i].stage \in {"running", "returned"}}) < Threads
  /\ LET h == job[j].on IN
     \/ /\ ~UnwrapHandle(h)
        /\ job' = [job EXCEPT ![j].stage = "finished"]
        /\ torn' = (torn \/ cwrap = "gone" \/ wrap[h] = "gone")
     \/ /\ UnwrapHandle(h) /\ UNCHANGED torn
        /\ \E waits \in {FALSE, handle[h].phase = "running" /\ handle[h].session # "null"} :
             job' = [job EXCEPT ![j].stage = "running", ![j].waits = waits]
  /\ UNCHANGED <<ctx, handle, answer, lost, stray, early, hung, cwrap, wrap, leaked, hasty>>

\* A step that waits for its peer, or for the message to sign, returns only
\* if its session is destroyed.
Waits(j) == job[j].stage = "running" /\ job[j].waits /\ handle[job[j].on].live

Return(j, call) ==
  /\ job[j].stage = "running" /\ ~Waits(j)
  /\ \E out \in BOOLEAN :
       /\ StepReturns(call, job[j].on, TRUE, out)
       /\ job' = [job EXCEPT ![j].stage = IF out /\ answer'.status = "ok"
                                          THEN "returned" ELSE "finished"]
  /\ UNCHANGED <<cwrap, wrap, queue, leaked, hasty>>

DkgStepExecute(j) ==
  job[j].on # Nothing /\ handle[job[j].on].kind = "dkg" /\ Return(j, "dkg_step")
SignStepExecute(j) ==
  job[j].on # Nothing /\ handle[job[j].on].kind = "sign" /\ Return(j, "sign_step")

\* maany_mpc_buf_free, with the context that the object holds by now: without
\* one it does nothing.
Release(j) ==
  /\ job[j].stage = "returned"
  /\ job' = [job EXCEPT ![j].stage = "finished"]
  /\ torn' = (torn \/ cwrap = "gone") /\ leaked' = (leaked \/ cwrap = "null")
  /\ UNCHANGED <<ctx, handle, answer, lost, stray, early, hung, cwrap, wrap, queue, hasty>>

\* Slip: nothing is said when the session's object has been emptied.
CompleteSilently(j) ==
  /\ ~hung /\ job[j].stage = "finished" /\ wrap[job[j].on] = "set"
  /\ job' = [job EXCEPT ![j].stage = "settled"]
  /\ UNCHANGED <<hostVars, queue, leaked, hasty>>

\* The promise is settled, on the JavaScript thread.
Complete(j) ==
  /\ ~hung /\ job[j].stage = "finished"
  /\ job' = [job EXCEPT ![j].stage = "settled"]
  /\ UNCHANGED <<hostVars, queue, leaked, hasty>>

DkgStepComplete(j) ==
  job[j].on # Nothing /\ handle[job[j].on].kind = "dkg" /\ Complete(j)
SignStepComplete(j) ==
  job[j].on # Nothing /\ handle[job[j].on].kind = "sign" /\ Complete(j)

-----------------------------------------------------------------------------
JavaScript ==
  \/ JsInit \/ JsShutdown \/ FinalizeCtx
  \/ \E h \in Handles :
       \/ JsDkgNew(h) \/ JsKpImport(h) \/ JsBackupRestore(h)
       \/ \E k \in Handles : JsSignNew(k, h) \/ JsRefreshNew(k, h) \/ JsDkgFinalize(h, k)
       \/ \E j \in Jobs : JsDkgStep(j, h) \/ JsSignStep(j, h)
       \/ JsSignSetMessage(h) \/ JsSignFinalize(h)
       \/ JsKpExport(h) \/ JsKpPubkey(h) \/ JsBackupCreate(h)
       \/ JsDkgFree(h) \/ JsSignFree(h) \/ JsKpFree(h)
       \/ FinalizeDkgHandle(h) \/ FinalizeKeypair(h) \/ FinalizeSign(h)

Runs(j) ==
  \/ Start(j) \/ DkgStepExecute(j) \/ SignStepExecute(j) \/ Release(j)
  \/ DkgStepComplete(j) \/ SignStepComplete(j)

\* The pool's threads have ended with the program.
Died == answer.status = "thrown"

NNext ==
  \/ ~torn /\ ~hung /\ JavaScript
  \/ ~torn /\ ~Died /\ \E j \in Jobs : Runs(j)
  \/ (torn \/ hung \/ cwrap = "gone") /\ UNCHANGED nodeVars

NSpec == NInit /\ [][NNext]_nodeVars

\* The pool and the event loop keep running; JavaScript need not call.
NFairSpec == NSpec /\ \A j \in Jobs : WF_nodeVars(~torn /\ ~Died /\ Runs(j))

-----------------------------------------------------------------------------
(* Properties.                                                             *)

\* The type invariant.
NTypeOK ==
  /\ CTypeOK
  /\ cwrap \in {"none", "set", "null", "gone"}
  /\ wrap \in [Handles -> {"none", "set", "null", "gone"}]
  /\ job \in [Jobs -> [on : Handles \cup {Nothing}, stage : Stages, waits : BOOLEAN]]
  /\ queue \in Seq(Jobs)
  /\ leaked \in BOOLEAN /\ hasty \in BOOLEAN

\* A JavaScript object holds a handle exactly as long as the handle is there,
\* whichever of free(), finalize, shutdown and the collector takes it.
WrappersHold ==
  /\ \A h \in Handles : wrap[h] = "set" <=> handle[h].live
  /\ cwrap = "set" <=> ctx = "up"

\* A program that frees, finalizes, shuts down or drops nothing a step is
\* using, and shuts down last, never makes the addon use freed memory or lose
\* a buffer.  A step that is only queued may be overtaken by free or shutdown.
SafeUnlessHasty ==
  /\ torn => hasty \/ early
  /\ leaked => hasty

Host == INSTANCE HostObjects

\* For such a program the asynchronous addon does to the library what the
\* synchronous React Native binding does, call for call.
BehavesLikeHost == [][~hasty' /\ ~hung => Host!HNext]_hostVars

\* Every step's promise is settled in the end, unless the JavaScript thread is
\* blocked in a call or died in one, the step waits for its peer, or steps that
\* wait hold every thread of the pool (four, if libuv is not told otherwise).
StepsSettle ==
  \A j \in Jobs :
    \/ []<>(job[j].stage \in {"unused", "settled"})
    \/ <>[](torn \/ hung)
    \/ <>[]Waits(j)
    \/ <>[](Cardinality({i \in Jobs : Waits(i)}) = Threads)

=============================================================================
