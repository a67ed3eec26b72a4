---------------------------- MODULE NodeSettings ----------------------------
(***************************************************************************)
(* The settings of the install (settings.rs): one row that holds a         *)
(* credential and the other knobs, read, changed and written back as a     *)
(* whole by requests and by the normalization at boot (main.rs), with the  *)
(* credential sealed under the key the process was given, or left as an    *)
(* older version wrote it.                                                 *)
(***************************************************************************)
EXTENDS Naturals

CONSTANTS
  Secret,     \* values of the credential
  NoSecret,
  Key, NoKey, \* sealing keys a process may be given
  Keep,       \* a field that a request leaves out
  Handler,    \* requests that change the settings
  MaxChanges  \* bounds requests and boots

VARIABLES
  blob,     \* the row
  key,      \* the key of the process
  up,       \* whether the process has booted
  calls,    \* per handler, and for the boot
  changes,
  \* What happened:
  wanted,   \* the credential by the last change of it that was written
  knob,     \* the other knobs by the last change of them
  crossed   \* a change was read before another was written, and written after it

vars == <<blob, key, up, calls, changes, wanted, knob, crossed>>

Boot == "boot"
Actor == Handler \cup {Boot}
Knob == 0..1

\* sealed under a key, or in the clear: under NoKey.
NoBlob == [there |-> FALSE, reads |-> TRUE, secret |-> NoSecret, under |-> NoKey, knob |-> 0]
Idle == [pc |-> "idle", secret |-> NoSecret, knob |-> 0, patch |-> Keep, turn |-> Keep, stale |-> FALSE]

TypeOK ==
  /\ blob.secret \in Secret \cup {NoSecret} /\ blob.under \in Key \cup {NoKey}
  /\ blob.knob \in Knob /\ blob.there \in BOOLEAN /\ blob.reads \in BOOLEAN
  /\ key \in Key \cup {NoKey} /\ up \in BOOLEAN
  /\ \A a \in Actor : calls[a].pc \in {"idle", "save"}
  /\ changes \in 0..MaxChanges
  /\ wanted \in Secret \cup {NoSecret} /\ knob \in Knob /\ crossed \in BOOLEAN

\* Nothing was stored yet, an older version stored its credential in the clear, or a newer
\* one left a row that this one cannot read.
Init ==
  /\ \/ blob = NoBlob
     \/ \E s \in Secret, r \in BOOLEAN :
          blob = [NoBlob EXCEPT !.there = TRUE, !.secret = s, !.reads = r]
  /\ wanted = (IF blob.reads THEN blob.secret ELSE NoSecret) /\ knob = 0
  /\ key = NoKey /\ up = FALSE
  /\ calls = [a \in Actor |-> Idle]
  /\ changes = 0 /\ crossed = FALSE

-----------------------------------------------------------------------------
(* load and save.                                                          *)

\* Faulty form: a credential that cannot be opened reads as none.
LoadsAnything == TRUE

\* open_secret: a sealed credential needs its key.
Loads == blob.reads => blob.under \in {NoKey, key}

\* A row that does not parse reads as the defaults.
Read ==
  IF blob.reads /\ blob.under \in {NoKey, key} THEN [secret |-> blob.secret, knob |-> blob.knob]
  ELSE [secret |-> NoSecret, knob |-> 0]

\* seal_secret: without a key no credential is stored.
Saves(s) == s = NoSecret \/ key # NoKey

Written(s, k) ==
  [there |-> TRUE, reads |-> TRUE, secret |-> s, knob |-> k,
   under |-> IF s = NoSecret THEN NoKey ELSE key]

Load(a, patch, turn) ==
  /\ calls[a] = Idle /\ Loads
  /\ calls' = [calls EXCEPT ![a] = [pc |-> "save", secret |-> Read.secret, knob |-> Read.knob,
                                     patch |-> patch, turn |-> turn, stale |-> FALSE]]
  /\ UNCHANGED <<blob, key, wanted, knob, crossed>>

-----------------------------------------------------------------------------

\* The process starts, with a key or without.
Start ==
  /\ ~up /\ calls[Boot] = Idle /\ changes < MaxChanges
  /\ changes' = changes + 1
  /\ key' \in Key \cup {NoKey}
  /\ calls' = [calls EXCEPT ![Boot].pc = "save"]
  /\ UNCHANGED <<blob, up, wanted, knob, crossed>>

\* main: the row is written back as it is read, which seals a credential in the clear.  A
\* row that does not load, or that cannot be sealed, stays, and the process serves.
Normalize ==
  /\ ~up /\ calls[Boot].pc = "save"
  /\ blob' = IF Loads /\ Saves(Read.secret) THEN Written(Read.secret, Read.knob) ELSE blob
  /\ up' = TRUE
  /\ calls' = [calls EXCEPT ![Boot] = Idle]
  /\ UNCHANGED <<key, changes, wanted, knob, crossed>>

Crash ==
  /\ up \/ calls[Boot] # Idle
  /\ up' = FALSE /\ calls' = [a \in Actor |-> Idle]
  /\ UNCHANGED <<blob, key, changes, wanted, knob, crossed>>

\* patch, the read: a request changes the credential, clears it, changes the knobs, or both.
PatchLoad(h) ==
  /\ up /\ changes < MaxChanges
  /\ changes' = changes + 1
  /\ \E patch \in Secret \cup {NoSecret, Keep}, turn \in Knob \cup {Keep} : Load(h, patch, turn)
  /\ UNCHANGED up

Applied(patch, value) == IF patch = Keep THEN value ELSE patch

\* patch, the write: nothing was held since the read.
PatchSave(h) ==
  /\ up /\ calls[h].pc = "save"
  /\ LET call == calls[h]
         secret == Applied(call.patch, call.secret)
         turned == Applied(call.turn, call.knob) IN
     IF Saves(secret)
       THEN /\ blob' = Written(secret, turned)
            /\ wanted' = Applied(call.patch, wanted) /\ knob' = Applied(call.turn, knob)
            /\ crossed' = (crossed \/ call.stale)
            /\ calls' = [a \in Actor |->
                 IF a = h THEN Idle ELSE [calls[a] EXCEPT !.stale = calls[a].pc = "save"]]
       ELSE calls' = [calls EXCEPT ![h] = Idle] /\ UNCHANGED <<blob, wanted, knob, crossed>>
  /\ UNCHANGED <<key, up, changes>>

Next ==
  \/ Start \/ Normalize \/ Crash
  \/ \E h \in Handler : PatchLoad(h) \/ PatchSave(h)

Spec == Init /\ [][Next]_vars

-----------------------------------------------------------------------------
(* Properties.                                                             *)

\* The row holds the credential of the last change of it: not nothing because a process had
\* no key or another one, nor what it was before because other fields were changed.  Only two
\* changes at once can undo one another (load, save, patch).
CredentialKept ==
  ~crossed => (IF blob.reads THEN blob.secret ELSE NoSecret) = wanted /\ blob.knob = knob

-----------------------------------------------------------------------------
(* Why that holds (NodeProofs).                                            *)

\* No request is taken for the boot.
BootAssumption == Boot \notin Handler

Change == [pc : {"idle", "save"}, secret : Secret \cup {NoSecret}, knob : Knob,
           patch : Secret \cup {NoSecret, Keep}, turn : Knob \cup {Keep}, stale : BOOLEAN]

SettingsTypes ==
  /\ blob \in [there : BOOLEAN, reads : BOOLEAN, secret : Secret \cup {NoSecret},
               under : Key \cup {NoKey}, knob : Knob]
  /\ key \in Key \cup {NoKey} /\ crossed \in BOOLEAN
  /\ calls \in [Actor -> Change]

Stored == IF blob.reads THEN blob.secret ELSE NoSecret

\* A change that nothing was written behind has read what is stored.
SettingsInv ==
  /\ SettingsTypes /\ CredentialKept
  /\ ~blob.reads => blob.knob = 0
  /\ \A h \in Handler : calls[h].pc = "save" /\ ~calls[h].stale =>
                          calls[h].secret = Stored /\ calls[h].knob = blob.knob
=============================================================================
