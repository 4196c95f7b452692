-------------------------------- MODULE CApi --------------------------------
(***************************************************************************)
(* The C API of cpp/src/maany_mpc.cc: handles that own a bridge object and  *)
(* point to the context they were made with.  Any allocation may fail.  The *)
(* call then answers "memory"; or "refused", as if an argument were wrong,  *)
(* when it was copying its input; or nothing at all (backup_restore: an     *)
(* exception leaves it).  One context, any number of handles; a handle's    *)
(* memory is not used again.                                               *)
(*                                                                         *)
(* The bridge's sessions appear as their caller sees them (StepSession).    *)
(* A thread that enters a call which never returns is "hung", and so is one *)
(* that an exception has ended.                                            *)
(***************************************************************************)
EXTENDS Naturals, FiniteSets

CONSTANTS Handles,   \* every handle there will ever be
          Nothing    \* no handle

ASSUME CApiAssumption == Nothing \notin Handles

VARIABLES
  ctx,     \* the context: not made yet, up, or shut down and freed
  handle,  \* per handle, the object it stands for
  answer,  \* the last call that returned (or never does), and its status
  lost,    \* history: what a session gave out and no caller received
  stray,   \* history: a call reported an error and left buffers allocated
  torn,    \* history: freed memory was used
  early,   \* history: the context was shut down before its handles were freed
  hung     \* the calling thread will never return, or is gone

apiVars == <<ctx, handle, answer, lost, stray, torn, early, hung>>

Phases   == {"running", "done", "failed"}
Sessions == {"open",   \* the session still has its key, or none to give
             "empty",  \* it has given its key out
             "null"}   \* the handle has let go of it

\* MapBridgeErrorCode and TranslateException, as far as callers tell the codes
\* apart: the call's own argument checks, memory, any other error.  "thrown"
\* and "never" are no codes: an exception came out of the call, or nothing did.
Statuses == {"none", "ok", "refused", "memory", "failed", "thrown", "never"}

Objects == [kind : {"none", "dkg", "sign", "kp"}, live : BOOLEAN,
            phase : Phases, session : Sessions, armed : BOOLEAN,
            from : Handles \cup {Nothing}]

Unused == [kind |-> "none", live |-> FALSE, phase |-> "running",
           session |-> "open", armed |-> FALSE, from |-> Nothing]

Made(kind, from) == [Unused EXCEPT !.kind = kind, !.live = TRUE, !.from = from]

CInit ==
  /\ ctx = "none"
  /\ handle = [h \in Handles |-> Unused]
  /\ answer = [call |-> "none", on |-> Nothing, status |-> "none"]
  /\ lost = {} /\ stray = FALSE /\ torn = FALSE /\ early = FALSE /\ hung = FALSE

-----------------------------------------------------------------------------
(* Helpers.                                                                *)

Answers(call, h, status) ==
  answer' = [call |-> call, on |-> h, status |-> status]

Hangs(call, h) == Answers(call, h, "never") /\ hung' = TRUE

\* CopyInBuffer fails: what is said of it, for want of memory too, is that an
\* argument is invalid.
CopyInFails(call, h) ==
  Answers(call, h, "refused") /\ UNCHANGED <<ctx, handle, lost, stray, early, hung>>

\* An exception is caught by nobody in the call.  A caller in C++ may catch it;
\* otherwise the program ends.
Throws(call, h) ==
  /\ Answers(call, h, "thrown") /\ hung' \in {hung, TRUE}
  /\ UNCHANGED <<ctx, handle, lost, stray, early>>

\* A call is made with the context and a handle: both had better be there.
Uses(h) == torn' = (torn \/ ctx # "up" \/ ~handle[h].live)

\* A session that waits for its message to sign, and no message set, cannot
\* be destroyed: its worker is not woken (SignSession).
Unarmed(object) == object.kind = "sign" /\ ~object.armed

-----------------------------------------------------------------------------
(* The context.                                                            *)

maany_mpc_init ==
  /\ ctx = "none"
  /\ \/ ctx' = "up" /\ Answers("init", Nothing, "ok")
     \/ ctx' = "none" /\ Answers("init", Nothing, "memory")
  /\ UNCHANGED <<handle, lost, stray, torn, early, hung>>

maany_mpc_shutdown ==
  /\ ctx' = "down"
  /\ torn' = (torn \/ ctx # "up")
  /\ early' = (early \/ \E h \in Handles : handle[h].live)
  /\ Answers("shutdown", Nothing, "ok")
  /\ UNCHANGED <<handle, lost, stray, hung>>

-----------------------------------------------------------------------------
(* Making handles.                                                         *)

\* The bridge makes the object or throws; then the handle is allocated, and a
\* failed allocation destroys the object again.
Create(call, h, object) ==
  /\ handle[h] = Unused
  /\ \/ Answers(call, h, "ok") /\ handle' = [handle EXCEPT ![h] = object]
        /\ UNCHANGED hung
     \/ \E status \in {"failed", "memory"} : Answers(call, h, status)
        /\ UNCHANGED <<handle, hung>>
     \/ Unarmed(object) /\ Hangs(call, h) /\ UNCHANGED handle
  /\ UNCHANGED <<ctx, lost, stray, early>>

maany_mpc_dkg_new(h) ==
  Create("dkg_new", h, Made("dkg", Nothing)) /\ torn' = (torn \/ ctx # "up")

maany_mpc_kp_import(h) ==
  /\ \/ Create("kp_import", h, Made("kp", Nothing))
     \/ handle[h] = Unused /\ CopyInFails("kp_import", h)
  /\ torn' = (torn \/ ctx # "up")

\* The copies of the record and of the shares fail inside a try, the vector
\* that is to hold the shares is allocated outside.
maany_mpc_backup_restore(h) ==
  /\ \/ Create("backup_restore", h, Made("kp", Nothing))
     \/ /\ handle[h] = Unused
        /\ CopyInFails("backup_restore", h) \/ Throws("backup_restore", h)
  /\ torn' = (torn \/ ctx # "up")

\* The session copies the key: the keypair may go before it.
maany_mpc_sign_new(k, h) ==
  handle[k].kind = "kp" /\ Create("sign_new", h, Made("sign", Nothing)) /\ Uses(k)

maany_mpc_refresh_new(k, h) ==
  handle[k].kind = "kp" /\ Create("refresh_new", h, Made("dkg", Nothing)) /\ Uses(k)

-----------------------------------------------------------------------------
(* Sessions.                                                               *)

\* CopyOutBuffer: a message the session has given out reaches the caller,
\* unless there is no memory for the copy, or nowhere to put it.
CopyOut(call, h, wanted) ==
  \/ wanted /\ Answers(call, h, "ok") /\ UNCHANGED lost
  \/ /\ Answers(call, h, IF wanted THEN "memory" ELSE "refused")
     /\ lost' = lost \cup {<<"message", h>>}

\* The body of the two step functions, where the session's Step returns with
\* or without a message.  Only a message to copy makes them look into the
\* context.  A call on a session that was let go of is refused like one whose
\* input cannot be copied.
StepReturns(call, h, wanted, out) ==
  /\ torn' = (torn \/ ~handle[h].live \/ (out /\ ctx # "up"))
  /\ \/ ~out /\ CopyInFails(call, h)
     \/ /\ ~out /\ handle[h].session # "null" /\ Answers(call, h, "memory")
        /\ UNCHANGED <<handle, lost>>
     \/ /\ ~out /\ handle[h].session # "null" /\ ~Unarmed(handle[h])
        /\ handle[h].phase # "done"
        /\ Answers(call, h, "failed")
        /\ handle' = [handle EXCEPT ![h].phase = "failed"]
        /\ UNCHANGED lost
     \/ /\ handle[h].session # "null" /\ ~Unarmed(handle[h])
        /\ handle[h].phase # "failed"
        /\ \E p \in {handle[h].phase, "done"} :
             handle' = [handle EXCEPT ![h].phase = p]
        /\ \/ out /\ CopyOut(call, h, wanted)
           \/ ~out /\ Answers(call, h, "ok") /\ UNCHANGED lost
  /\ UNCHANGED <<ctx, stray, early, hung>>

\* The session's Step, or the wait for its worker, may never return.
Blocks(call, h) ==
  /\ handle[h].phase = "running" /\ handle[h].session # "null"
  /\ Hangs(call, h)
  /\ UNCHANGED <<ctx, handle, lost, stray, torn, early>>

maany_mpc_dkg_step(h, wanted, out) ==
  handle[h].kind = "dkg" /\ StepReturns("dkg_step", h, wanted, out)

maany_mpc_sign_step(h, wanted, out) ==
  handle[h].kind = "sign" /\ StepReturns("sign_step", h, wanted, out)

\* Slip: the session is kept when there is no memory for the keypair's handle.
FinalizeKeepsSession(h, k, keeps) ==
  /\ handle[h].kind = "dkg" /\ Uses(h)
  /\ handle[h].session = "open" /\ handle[h].phase # "failed"
  /\ \/ /\ handle[k] = Unused /\ Answers("dkg_finalize", h, "ok")
        /\ handle' = [handle EXCEPT ![h].phase = "done", ![h].session = "null",
                                    ![h].live = keeps, ![k] = Made("kp", h)]
        /\ UNCHANGED lost
     \/ /\ Answers("dkg_finalize", h, "memory")
        /\ handle' = [handle EXCEPT ![h].phase = "done"]
        /\ lost' = lost \cup {<<"key", h>>}
  /\ UNCHANGED <<ctx, stray, early, hung>>

\* Slip: the failure of a session is not looked at.
FinalizeUnchecked(h, k, keeps) ==
  /\ handle[h].kind = "dkg" /\ Uses(h)
  /\ handle[h].session = "open" /\ handle[k] = Unused
  /\ Answers("dkg_finalize", h, "ok")
  /\ handle' = [handle EXCEPT ![h].phase = "done", ![h].session = "null",
                              ![h].live = keeps, ![k] = Made("kp", h)]
  /\ UNCHANGED <<ctx, lost, stray, early, hung>>

\* The key leaves the session, the session is let go of, and only then is the
\* keypair's handle k allocated.  Without memory for the key's own object the
\* session stays, empty.  A binding frees the handle h of a session that has
\* given its key (keeps is FALSE); a C program does so when it likes.
FinalizeDkg(h, k, keeps) ==
  /\ handle[h].kind = "dkg" /\ Uses(h)
  /\ \/ /\ handle[h].session = "null" /\ Answers("dkg_finalize", h, "refused")
        /\ UNCHANGED <<handle, lost>>
     \/ /\ handle[h].session = "empty" /\ Answers("dkg_finalize", h, "failed")
        /\ UNCHANGED <<handle, lost>>
     \/ /\ handle[h].session = "open" /\ handle[h].phase # "done"
        /\ Answers("dkg_finalize", h, "failed")
        /\ handle' = [handle EXCEPT ![h].phase = "failed"]
        /\ UNCHANGED lost
     \/ /\ handle[h].session = "open" /\ handle[h].phase # "failed"
        /\ handle[k] = Unused /\ Answers("dkg_finalize", h, "ok")
        /\ handle' = [handle EXCEPT ![h].phase = "done", ![h].session = "null",
                                    ![h].live = keeps, ![k] = Made("kp", h)]
        /\ UNCHANGED lost
     \/ /\ handle[h].session = "open" /\ handle[h].phase # "failed"
        /\ Answers("dkg_finalize", h, "memory")
        /\ \E s \in {"empty", "null"} :
             handle' = [handle EXCEPT ![h].phase = "done", ![h].session = s]
        /\ lost' = lost \cup {<<"key", h>>}
  /\ UNCHANGED <<ctx, stray, early, hung>>

maany_mpc_dkg_finalize(h, k) == FinalizeDkg(h, k, TRUE)

\* Slip: the flag is set before the message is copied.
SetMessageEarly(h) ==
  /\ handle[h].kind = "sign" /\ Uses(h)
  /\ \E status \in {"ok", "memory"} : Answers("sign_set_message", h, status)
  /\ handle' = [handle EXCEPT ![h].armed = TRUE]
  /\ UNCHANGED <<ctx, lost, stray, early, hung>>

\* A message is accepted until one waits to be taken (SignSession).
maany_mpc_sign_set_message(h) ==
  /\ handle[h].kind = "sign" /\ Uses(h)
  /\ \/ Answers("sign_set_message", h, "ok")
        /\ handle' = [handle EXCEPT ![h].armed = TRUE]
     \/ handle[h].armed /\ Answers("sign_set_message", h, "failed") /\ UNCHANGED handle
     \/ Answers("sign_set_message", h, "memory") /\ UNCHANGED handle
  /\ UNCHANGED <<ctx, lost, stray, early, hung>>

\* The signature stays in the session: a failed copy may be tried again.
maany_mpc_sign_finalize(h) ==
  /\ handle[h].kind = "sign" /\ ~Unarmed(handle[h]) /\ Uses(h)
  /\ \/ /\ handle[h].phase # "done" /\ Answers("sign_finalize", h, "failed")
        /\ handle' = [handle EXCEPT ![h].phase = "failed"]
     \/ /\ handle[h].phase # "failed"
        /\ \E status \in {"ok", "failed", "memory"} : Answers("sign_finalize", h, status)
        /\ handle' = [handle EXCEPT ![h].phase = "done"]
  /\ UNCHANGED <<ctx, lost, stray, early, hung>>

-----------------------------------------------------------------------------
(* Keypairs.                                                               *)

Query(call, h, statuses) ==
  /\ handle[h].kind = "kp" /\ Uses(h)
  /\ \E status \in statuses : Answers(call, h, status)
  /\ UNCHANGED <<ctx, handle, lost, stray, early, hung>>

maany_mpc_kp_export(h) == Query("kp_export", h, {"ok", "failed", "memory"})
maany_mpc_kp_pubkey(h) == Query("kp_pubkey", h, {"ok", "failed", "memory"})
maany_mpc_kp_meta(h)   == Query("kp_meta", h, {"ok"})

\* The label is copied in; the label, the ciphertext and the shares are copied
\* out one after the other, and when one of these copies fails those before it
\* are left in the caller's structures.
maany_mpc_backup_create(h) ==
  /\ handle[h].kind = "kp" /\ Uses(h)
  /\ \/ \E status \in {"ok", "failed", "refused"} : Answers("backup_create", h, status)
        /\ UNCHANGED stray
     \/ Answers("backup_create", h, "memory") /\ stray' \in {stray, TRUE}
  /\ UNCHANGED <<ctx, handle, lost, early, hung>>

-----------------------------------------------------------------------------
(* Freeing handles.                                                        *)

\* The context is asked for its free_fn.
FreeHandle(call, h) ==
  /\ Uses(h)
  /\ \/ Answers(call, h, "ok") /\ handle' = [handle EXCEPT ![h].live = FALSE]
        /\ UNCHANGED hung
     \/ Unarmed(handle[h]) /\ Hangs(call, h) /\ UNCHANGED handle
  /\ UNCHANGED <<ctx, lost, stray, early>>

maany_mpc_dkg_free(h)  == handle[h].kind = "dkg"  /\ FreeHandle("dkg_free", h)
maany_mpc_sign_free(h) == handle[h].kind = "sign" /\ FreeHandle("sign_free", h)
maany_mpc_kp_free(h)   == handle[h].kind = "kp"   /\ FreeHandle("kp_free", h)

-----------------------------------------------------------------------------
(* A C program: one thread, which passes only handles it has not freed and a *)
(* context it has not shut down, but may shut down before it frees.         *)

OnHandle(h) ==
  \/ \E wanted, out \in BOOLEAN :
       maany_mpc_dkg_step(h, wanted, out) \/ maany_mpc_sign_step(h, wanted, out)
  \/ \E k \in Handles : maany_mpc_dkg_finalize(h, k)
  \/ maany_mpc_sign_set_message(h) \/ maany_mpc_sign_finalize(h)
  \/ maany_mpc_kp_export(h) \/ maany_mpc_kp_pubkey(h) \/ maany_mpc_kp_meta(h)
  \/ maany_mpc_backup_create(h)
  \/ \E n \in Handles : maany_mpc_sign_new(h, n) \/ maany_mpc_refresh_new(h, n)
  \/ handle[h].kind = "dkg" /\ (Blocks("dkg_step", h) \/ Blocks("dkg_finalize", h))
  \/ handle[h].kind = "sign" /\ (Blocks("sign_step", h) \/ Blocks("sign_finalize", h))

FreesHandle(h) ==
  maany_mpc_dkg_free(h) \/ maany_mpc_sign_free(h) \/ maany_mpc_kp_free(h)

\* Nothing is left to free, or the thread is gone.
Rest ==
  /\ hung \/ (ctx = "down" /\ \A h \in Handles : ~handle[h].live)
  /\ UNCHANGED apiVars

CNext ==
  \/ maany_mpc_init
  \/ ~hung /\ ctx = "up" /\ maany_mpc_shutdown
  \/ ~hung /\ ctx = "up" /\ \E h \in Handles :
       \/ maany_mpc_dkg_new(h) \/ maany_mpc_kp_import(h) \/ maany_mpc_backup_restore(h)
       \/ handle[h].live /\ OnHandle(h)
  \/ ~hung /\ \E h \in Handles : handle[h].live /\ FreesHandle(h)
  \/ Rest

CSpec == CInit /\ [][CNext]_apiVars

-----------------------------------------------------------------------------
(* Properties.                                                             *)

\* The type invariant; a handle that is there stands for something.
CTypeOK ==
  /\ ctx \in {"none", "up", "down"}
  /\ handle \in [Handles -> Objects]
  /\ \A h \in Handles : handle[h].live => handle[h].kind # "none"
  /\ answer.status \in Statuses /\ answer.on \in Handles \cup {Nothing}
  /\ lost \subseteq {"message", "key"} \X Handles
  /\ stray \in BOOLEAN /\ torn \in BOOLEAN /\ early \in BOOLEAN /\ hung \in BOOLEAN

\* The key of a generation or refresh is in one place: in its session, in one
\* keypair handle (which the client may have freed), or, if memory ran out
\* while dkg_finalize moved it, nowhere, and then it is never found again.
KeyConserved ==
  \A d \in Handles : handle[d].kind = "dkg" =>
    LET kps == {k \in Handles : handle[k].from = d}
    IN  /\ handle[d].session = "open" => kps = {} /\ <<"key", d>> \notin lost
        /\ handle[d].session # "open" =>
             \/ <<"key", d>> \in lost /\ kps = {}
             \/ <<"key", d>> \notin lost /\ \E k \in Handles : kps = {k}

\* A call that ran out of memory can be made again as if it had never been,
\* whichever way it says so, except: a step may have taken its session on,
\* dkg_finalize has lost the key, and backup_create may have left buffers behind.
\* An invalid argument and an exception mean that nothing has happened, except
\* a refusal of a null out_msg, by a step that has lost its message.  What a
\* session gave out and the caller did not get is always reported by the call
\* that lost it: a key as "out of memory", a message as that or as the refusal.
RetrySafe ==
  [][/\ answer'.status \in {"memory", "refused", "thrown"} =>
          /\ \A h \in Handles : handle'[h] # handle[h] =>
               \/ /\ answer'.status = "memory"
                  /\ answer'.call \in
                       {"dkg_step", "sign_step", "dkg_finalize", "sign_finalize"}
               \/ answer'.status = "refused" /\ <<"message", h>> \in lost'
          /\ stray' # stray =>
               answer'.status = "memory" /\ answer'.call = "backup_create"
          /\ \A h \in Handles : handle'[h].session # handle[h].session =>
               <<"key", h>> \in lost'
     /\ \A h \in Handles :
          /\ <<"key", h>> \in lost' \ lost => answer'.status = "memory"
          /\ <<"message", h>> \in lost' \ lost => answer'.status \in {"memory", "refused"}
    ]_apiVars

Promise == INSTANCE StepSession WITH
  Sessions <- Handles,
  phase <- [h \in Handles |-> handle[h].phase],
  given <- [h \in Handles |-> IF handle[h].session = "open" THEN 0 ELSE 1]

\* The handles pass on what the sessions promise: an end, once reported, stays,
\* and a key comes out once, whatever fails in between.
KeepsPromise == Promise!SSpec

=============================================================================
