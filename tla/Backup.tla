------------------------------- MODULE Backup -------------------------------
(***************************************************************************)
(* Backing a keypair up and restoring it (ContextImpl::CreateBackup and     *)
(* RestoreBackup in cpp/src/bridge.cpp, and what the Node and React Native  *)
(* bindings make of their options): the exported key is encrypted under a   *)
(* random secret, and the secret is cut into shares of which a threshold    *)
(* give it back.  Share i is the value at i of a polynomial over a field;   *)
(* here a small one.  The shares then lie wherever they were put: some are  *)
(* brought back, with a share from elsewhere or a damaged one among them,   *)
(* and with a ciphertext record whose unprotected fields may have changed.  *)
(*                                                                         *)
(* The authenticated cipher opens with the secret and the label it was      *)
(* closed with, and never otherwise.                                       *)
(***************************************************************************)
EXTENDS Integers, FiniteSets

CONSTANTS
  Prime,      \* the order of the field
  MaxShares,  \* shares a backup may have
  Halves,     \* JavaScript numbers given as options, times two
  NaN,        \* the one that is not a number
  Absent,     \* an option that is left out
  Nothing     \* no options, no keypair, no share, no record

ASSUME BackupAssumption ==
  /\ Prime \in Nat /\ MaxShares \in Nat /\ 3 <= MaxShares /\ MaxShares < Prime
  /\ \A a, b \in 2..(Prime - 1) : a * b # Prime
  /\ Halves \subseteq Int /\ NaN # Absent

\* A share's number is an int, the order of the curve has 256 bits.
ASSUME OrderAssumption == \A h \in Halves : h < 2 * Prime

VARIABLES
  kp,       \* the keypair that is backed up
  request,  \* the binding that was called, its options, and what it takes them for
  artifact, \* what CreateBackup made: the ciphertext record and the shares
  attempt   \* the restore that was tried, and how it ended

backupVars == <<kp, request, artifact, attempt>>

Field   == 0..(Prime - 1)
Labels  == {"label", "other"}
Numbers == Halves \cup {NaN, Absent}
Options == [threshold : Numbers, shareCount : Numbers, shares : Numbers]
              \cup {Nothing}
Requests == [by : {"node", "host"}, options : Options, size : Nat \X Nat,
             status : {"asked", "thrown"}]

BInit ==
  /\ kp \in [kind : {"device", "server"}, keyId : {"own"}]
  /\ request = Nothing /\ artifact = Nothing /\ attempt = Nothing

-----------------------------------------------------------------------------
(* Options.  A conversion to an unsigned type is the truncated value, and is  *)
(* undefined, any value, for a NaN or a number of -1 and less.              *)

\* Trunc is towards zero.
Truncate(h) ==
  IF h = NaN \/ h <= -2 THEN 0..MaxShares ELSE {IF h < 0 THEN 0 ELSE h \div 2}

\* An absent option is read like a number that could not be read, as 0.
NodeNumber(h) ==
  IF h = NaN THEN 0..MaxShares
  ELSE IF h = Absent THEN {} ELSE IF h < 2 THEN {} ELSE Truncate(h)

\* Slip: the count is never compared with the threshold or with anything.
NodeOptionsLoose(o) ==
  IF o = Nothing THEN {<<2, 3>>}
  ELSE NodeNumber(o.threshold) \X NodeNumber(o.shareCount)

\* JsBackupCreate: threshold and share count, or nothing when it throws.  The
\* name "shares" is looked up only if looking "shareCount" up fails, and an
\* absent property does not fail.
NodeOptions(o) ==
  IF o = Nothing THEN {<<2, 3>>}
  ELSE {size \in NodeNumber(o.threshold) \X NodeNumber(o.shareCount) :
          size[2] >= size[1]}

HostNumber(h, default) == IF h = Absent THEN {default} ELSE Truncate(h)

\* backupCreate of the React Native binding.
HostOptions(o) ==
  IF o = Nothing THEN {<<2, 3>>}
  ELSE {size \in HostNumber(o.threshold, 2)
                 \X (IF o.shareCount = Absent THEN HostNumber(o.shares, 3)
                     ELSE Truncate(o.shareCount)) :
          size[2] >= size[1]}

Takes(binding, o) == IF binding = "node" THEN NodeOptions(o) ELSE HostOptions(o)

\* The call reaches the binding, which throws or knows what to ask for.
BackupCreate(binding, o) ==
  /\ \/ \E size \in Takes(binding, o) :
          request' = [by |-> binding, options |-> o, size |-> size, status |-> "asked"]
     \/ /\ Takes(binding, o) = {}
        /\ request' = [by |-> binding, options |-> o, size |-> <<0, 0>>,
                       status |-> "thrown"]
  /\ UNCHANGED <<kp, artifact, attempt>>

-----------------------------------------------------------------------------
(* Keys and shares.                                                        *)

Blob(kind, keyId) == [magic |-> TRUE, kind |-> kind, keyId |-> keyId]

ExportKey(keypair) == Blob(keypair.kind, keypair.keyId)

\* What is not a key blob is refused.
ImportKey(blob) ==
  IF blob.magic THEN [kind |-> blob.kind, keyId |-> blob.keyId] ELSE Nothing

\* The polynomial with these coefficients, at x, by Horner's rule.
At(coefficients, x) ==
  LET n == Cardinality(DOMAIN coefficients)
      value[k \in 0..n] == IF k = 0 THEN 0
                           ELSE (coefficients[n - k] + x * value[k - 1]) % Prime
  IN  value[n]

\* The sum and the product of a[0], ..., a[Prime - 1].
Sum(a) ==
  LET sum[k \in 0..Prime] == IF k = 0 THEN 0 ELSE (sum[k - 1] + a[k - 1]) % Prime
  IN  sum[Prime]

Product(a) ==
  LET product[k \in 0..Prime] == IF k = 0 THEN 1
                                 ELSE (product[k - 1] * a[k - 1]) % Prime
  IN  product[Prime]

Reciprocal == [a \in 1..(Prime - 1) |-> CHOOSE b \in Field : (a * b) % Prime = 1]

Factor(pids, i) ==
  Product([j \in Field |->
    IF j \in pids \ {i} THEN (Prime - j) * Reciprocal[(i - j) % Prime] ELSE 1])

\* lagrange_interpolate at 0, over all the shares that are given.
Interpolate(shares) ==
  Sum([i \in Field |->
    IF i \in DOMAIN shares THEN shares[i] * Factor(DOMAIN shares, i) ELSE 0])

-----------------------------------------------------------------------------
(* The bridge.                                                             *)

\* AesGcmEncrypt: the label is the additional data.
AesGcmEncrypt(key, label, blob) == [key |-> key, label |-> label, blob |-> blob]

\* AesGcmDecrypt throws on a wrong key, label or tag.
AesGcmDecrypt(key, label, payload) ==
  IF payload.key = key /\ payload.label = label THEN payload.blob
  ELSE [magic |-> FALSE]

\* Slip: the first share is number 0.
FirstPidZero == 0

FirstPid == 1

\* Slip: a polynomial of the threshold's degree.
DegreeTooHigh(t) == t

Degree(t) == t - 1

\* The numbers are checked again; the secret and the other coefficients are
\* drawn; the key is encrypted and the secret shared.  The random bytes or the
\* cipher may fail whatever the numbers are.
CreateBackup ==
  /\ request # Nothing /\ request.status = "asked"
  /\ LET t == request.size[1]  n == request.size[2] IN
     \/ /\ request' = [request EXCEPT !.status = "thrown"]
        /\ UNCHANGED artifact
     \/ /\ 1 <= t /\ t <= n
        /\ \E coefficients \in [0..Degree(t) -> Field] :
             artifact' = [kind |-> kp.kind, keyId |-> kp.keyId, threshold |-> t,
                          label |-> "label",
                          payload |-> AesGcmEncrypt(coefficients[0], "label", ExportKey(kp)),
                          shares |-> [i \in FirstPid..(FirstPid + n - 1)
                                        |-> At(coefficients, i)]]
        /\ request' = Nothing
  /\ UNCHANGED <<kp, attempt>>

Bad == [pid |-> Nothing, value |-> Nothing]

\* DecodeShare: another length or version is refused.
Decodes(share) == share = Nothing \/ share # Bad

\* Slip: the fields of the ciphertext record say whose key it is.
RestoredByRecord(record, key) ==
  IF AesGcmDecrypt(key, record.label, artifact.payload).magic
  THEN [kind |-> record.kind, keyId |-> record.keyId] ELSE Nothing

\* The plaintext says whose key it is; the record's own fields are not used.
Restored(record, key) ==
  LET blob == AesGcmDecrypt(key, record.label, artifact.payload)
  IN  IF blob.magic THEN ImportKey(blob) ELSE Nothing

\* The shares by number: those brought back, and the one from elsewhere, which
\* is some number's value.
Given(brought, stray) ==
  IF stray = Nothing THEN {[i \in brought |-> artifact.shares[i]]}
  ELSE IF stray.pid \in brought THEN {}
  ELSE {[i \in brought \cup {stray.pid} |->
           IF i = stray.pid THEN stray.value ELSE artifact.shares[i]]}

\* Two shares of one number have no polynomial: the division by zero throws or
\* gives some value.
Keys(brought, stray) ==
  IF Given(brought, stray) = {} THEN Field
  ELSE {Interpolate(shares) : shares \in Given(brought, stray)}

\* The ciphertext record, as it was or with another kind, label or threshold.
Records ==
  {[kind |-> k, keyId |-> artifact.keyId, label |-> l, threshold |-> t] :
     k \in {"device", "server"}, l \in Labels, t \in {1, artifact.threshold}}

Ends(brought, stray, record, keypair) ==
  attempt' = [brought |-> brought, pure |-> stray = Nothing, record |-> record,
              restored |-> keypair]

\* JsBackupRestore, backupRestore and RestoreBackup: too few shares for the
\* threshold that the record names, or one that cannot be read, is refused.
RestoreBackup(brought, stray) ==
  LET count == Cardinality(brought) + (IF stray = Nothing THEN 0 ELSE 1)
  IN  /\ attempt = Nothing
      /\ \/ \E record \in Records :
              /\ count < record.threshold \/ record.threshold < 1 \/ ~Decodes(stray)
              /\ Ends(brought, stray, record, Nothing)
         \/ /\ count >= 1 /\ Decodes(stray)
            /\ \E key \in Keys(brought, stray), record \in Records :
                 /\ 1 <= record.threshold /\ record.threshold <= count
                 /\ Ends(brought, stray, record, Restored(record, key))
      /\ UNCHANGED <<kp, request, artifact>>

-----------------------------------------------------------------------------
Strays == {Nothing, Bad} \cup [pid : Field, value : Field]

BNext ==
  \/ /\ request = Nothing /\ artifact = Nothing
     /\ \E binding \in {"node", "host"}, o \in Options : BackupCreate(binding, o)
  \/ CreateBackup
  \/ artifact # Nothing /\ \E brought \in SUBSET DOMAIN artifact.shares, stray \in Strays :
       RestoreBackup(brought, stray)
  \/ /\ attempt # Nothing \/ (request # Nothing /\ request.status = "thrown")
     /\ UNCHANGED backupVars

BSpec == BInit /\ [][BNext]_backupVars

-----------------------------------------------------------------------------
(* Properties.                                                             *)

\* The type invariant.
BTypeOK ==
  /\ kp \in [kind : {"device", "server"}, keyId : {"own"}]
  /\ request \in Requests \cup {Nothing}
  /\ artifact # Nothing =>
       artifact.kind = kp.kind /\ artifact.keyId = kp.keyId /\ artifact.label \in Labels
  /\ attempt # Nothing =>
       attempt.pure \in BOOLEAN /\ attempt.record.label \in Labels

\* A backup the Node binding would make, the React Native binding makes too,
\* of the same size: only what one of them throws on differs.
BindingsAgree ==
  request # Nothing /\ request.by = "node" /\ request.status = "asked" =>
    request.size \in HostOptions(request.options)

\* A restored keypair is the one that was backed up, whoever's share was
\* among the shares and whatever the unprotected fields of the record say; and
\* it takes the label of the backup.
RestoreSound ==
  attempt # Nothing /\ attempt.restored # Nothing =>
    attempt.restored = kp /\ attempt.record.label = artifact.label

\* A backup that was made can be restored: its threshold is between one and all
\* of its shares, whichever options led to it, and that many of its shares or
\* more restore the keypair, whichever they are, if nothing else is among them.
RestoreComplete ==
  /\ artifact # Nothing => artifact.threshold \in 1..Cardinality(DOMAIN artifact.shares)
  /\ attempt # Nothing =>
       (/\ attempt.pure /\ attempt.record.label = artifact.label
        /\ Cardinality(attempt.brought) >= artifact.threshold
        => attempt.restored = kp)

\* Fewer shares than the threshold say nothing of the secret: every secret has
\* a polynomial through them.
FewSharesTellNothing ==
  artifact # Nothing /\ attempt = Nothing =>
    \A few \in SUBSET DOMAIN artifact.shares :
      Cardinality(few) < artifact.threshold =>
        \A secret \in Field :
          \E coefficients \in [0..(artifact.threshold - 1) -> Field] :
            /\ coefficients[0] = secret
            /\ \A i \in few : At(coefficients, i) = artifact.shares[i]

=============================================================================
