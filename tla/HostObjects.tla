---------------------------- MODULE HostObjects ----------------------------
(***************************************************************************)
(* The React Native bindings (bindings/rn and bindings/rn-bare,             *)
(* MaanyMpcHostObject.cpp): JavaScript objects that hold the handles of     *)
(* CApi.  Every call runs to its end on the JavaScript thread; it keeps the *)
(* objects it was given alive (shared_ptr), so the garbage collector        *)
(* destroys an object only between calls.  Calls that throw before they     *)
(* reach the C API change nothing and are left out; an object that cannot   *)
(* be made ends like a handle that cannot be allocated.                     *)
(***************************************************************************)
EXTENDS CApi

VARIABLES cwrap,  \* the object of the context: ctx_ set, null, or collected
          wrap    \* the same of every handle's object

hostVars == <<apiVars, cwrap, wrap>>

Wrappers == {"none", "set", "null", "gone"}

HInit == CInit /\ cwrap = "none" /\ wrap = [h \in Handles |-> "none"]

\* requireCtx and ptr: the context's object, with the context in it.
requireCtx == cwrap = "set"
\* requireDkg, requireKeypair, requireSign, and ptr.
require(h) == cwrap = "set" /\ wrap[h] = "set"

\* A handle that was made is put into an object.
Wraps(h) ==
  /\ wrap' = IF handle'[h] = handle[h] THEN wrap ELSE [wrap EXCEPT ![h] = "set"]
  /\ UNCHANGED cwrap

\* Fails or not, the call leaves the objects alone.
Only(call) == call /\ UNCHANGED <<cwrap, wrap>>

-----------------------------------------------------------------------------
init     == maany_mpc_init /\ cwrap' = (IF ctx' = "up" THEN "set" ELSE cwrap)
            /\ UNCHANGED wrap
shutdown == cwrap = "set" /\ maany_mpc_shutdown /\ cwrap' = "null" /\ UNCHANGED wrap

dkgNew(h)         == requireCtx /\ maany_mpc_dkg_new(h) /\ Wraps(h)
kpImport(h)       == requireCtx /\ maany_mpc_kp_import(h) /\ Wraps(h)
\* Whether the JavaScript engine catches what backup_restore throws is its own.
backupRestore(h)  == requireCtx /\ maany_mpc_backup_restore(h) /\ Wraps(h)
signNew(k, h)     == require(k) /\ maany_mpc_sign_new(k, h) /\ Wraps(h)
refreshNew(k, h)  == require(k) /\ maany_mpc_refresh_new(k, h) /\ Wraps(h)

dkgStep(h) ==
  require(h) /\ Only(\/ \E out \in BOOLEAN : maany_mpc_dkg_step(h, TRUE, out)
                     \/ handle[h].kind = "dkg" /\ Blocks("dkg_step", h))
signStep(h) ==
  require(h) /\ Only(\/ \E out \in BOOLEAN : maany_mpc_sign_step(h, TRUE, out)
                     \/ handle[h].kind = "sign" /\ Blocks("sign_step", h))

\* When the keypair is there, the session's handle is freed with it.
dkgFinalize(h, k) ==
  /\ require(h) /\ UNCHANGED cwrap
  /\ \/ /\ FinalizeDkg(h, k, FALSE)
        /\ wrap' = IF answer'.status = "ok"
                   THEN [wrap EXCEPT ![h] = "null", ![k] = "set"] ELSE wrap
     \/ handle[h].kind = "dkg" /\ Blocks("dkg_finalize", h) /\ UNCHANGED wrap

signSetMessage(h) == require(h) /\ Only(maany_mpc_sign_set_message(h))
signFinalize(h) ==
  require(h) /\ Only(\/ maany_mpc_sign_finalize(h)
                     \/ handle[h].kind = "sign" /\ Blocks("sign_finalize", h))
kpExport(h)       == require(h) /\ Only(maany_mpc_kp_export(h))
kpPubkey(h)       == require(h) /\ Only(maany_mpc_kp_pubkey(h))
backupCreate(h)   == require(h) /\ Only(maany_mpc_backup_create(h))

\* free(): the object is emptied once the handle is freed, with no context
\* asked for.
Empties(h) ==
  /\ wrap[h] = "set" /\ UNCHANGED cwrap
  /\ wrap' = IF hung' THEN wrap ELSE [wrap EXCEPT ![h] = "null"]

dkgFree(h)  == maany_mpc_dkg_free(h) /\ Empties(h)
signFree(h) == maany_mpc_sign_free(h) /\ Empties(h)
kpFree(h)   == maany_mpc_kp_free(h) /\ Empties(h)

\* The destructors: JavaScript has dropped an object and the collector takes
\* it, in any order.
DestroyCtx ==
  /\ \/ cwrap = "set" /\ maany_mpc_shutdown
     \/ cwrap = "null" /\ UNCHANGED apiVars
  /\ cwrap' = "gone" /\ UNCHANGED wrap
Destroy(h, kind, free) ==
  /\ handle[h].kind = kind
  /\ \/ wrap[h] = "set" /\ FreeHandle(free, h)
     \/ wrap[h] = "null" /\ UNCHANGED apiVars
  /\ wrap' = IF hung' THEN wrap ELSE [wrap EXCEPT ![h] = "gone"]
  /\ UNCHANGED cwrap
DestroyDkg(h)     == Destroy(h, "dkg", "dkg_free")
DestroyKeypair(h) == Destroy(h, "kp", "kp_free")
DestroySign(h)    == Destroy(h, "sign", "sign_free")

HNext ==
  /\ ~hung
  /\ \/ init \/ shutdown \/ DestroyCtx
     \/ \E h \in Handles :
          \/ dkgNew(h) \/ kpImport(h) \/ backupRestore(h)
          \/ \E k \in Handles : signNew(k, h) \/ refreshNew(k, h) \/ dkgFinalize(h, k)
          \/ dkgStep(h) \/ signStep(h) \/ signSetMessage(h) \/ signFinalize(h)
          \/ kpExport(h) \/ kpPubkey(h) \/ backupCreate(h)
          \/ dkgFree(h) \/ signFree(h) \/ kpFree(h)
          \/ DestroyDkg(h) \/ DestroyKeypair(h) \/ DestroySign(h)

HSpec == HInit /\ [][HNext]_hostVars

=============================================================================
