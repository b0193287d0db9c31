------------------------ MODULE ProviderAdminProofs ------------------------
(***************************************************************************)
(* Proofs about ProviderAdmin and the KeyFile under it, for any number of  *)
(* processes, handlers, keys and secrets: a running process holds the key  *)
(* that is on disk, that key is for good, every stored secret can be read  *)
(* with it, and a rotation sticks.                                         *)
(*                                                                         *)
(* Before a key is on disk nothing runs, so nothing can be sealed; while   *)
(* one process writes its key no other can, unless two have drawn one      *)
(* (raced).  So the key on disk never changes under a sealed secret.       *)
(***************************************************************************)
EXTENDS ProviderAdmin, TLAPS

\* A process that has drawn or loaded a key holds one.
HoldsKey == \A s \in Servers : boot[s] \in {"create", "write", "up"} => key[s] \in Keys

\* At most one process is on its way to a key of its own, and the file tells
\* how far it has come.
OneWriter ==
    ~raced =>
        /\ \A s, o \in Servers :
              boot[s] \in {"create", "write"} /\ boot[o] \in {"create", "write"} => s = o
        /\ \A s \in Servers : boot[s] = "create" => keyFile = Absent
        /\ \A s \in Servers : boot[s] = "write" => keyFile = Short

\* Handlers run in running processes.
ServedByRunning == \A p \in Procs : pc[p] # "idle" => server[p] \in Servers /\ Up(server[p])

\* Whatever is sealed, stored or about to be, is sealed with the key on disk.
SealedWithFile ==
    ~raced =>
        /\ provider # NoRow => provider.sealed.with = keyFile
        /\ \A p \in Procs : sealed[p] # NoRow => sealed[p].with = keyFile

\* A save that typed a secret is about to store that one.
SavesWhatWasTyped ==
    \A p \in Procs : pc[p] = "saveWrite" =>
        /\ sealed[p] # NoRow
        /\ form[p].secret # Blank => sealed[p].secret = form[p].secret

\* The key file and the processes that load it.
KeyInv ==
    /\ KeyTypeOK
    /\ HoldsKey
    /\ OneWriter
    /\ RunningKeyIsOnDisk

\* The whole invariant: the key file, the handlers and the row.
AdminInv ==
    /\ TypeOK
    /\ KeyInv
    /\ ServedByRunning
    /\ SealedWithFile
    /\ SavesWhatWasTyped
    /\ RotationSticks

-----------------------------------------------------------------------------
(* The key file.                                                           *)

\* A start that has found no file draws a key, and says so if it is not the
\* only one.
LEMMA DrawKeepsKeyInv ==
    ASSUME KeyInv, NEW s \in Servers, NEW used, boot[s] = "load", keyFile = Absent, Draw(s, used)
    PROVE  KeyInv' /\ keyFile' = keyFile /\ (~raced' => ~raced)
  <1> DEFINE clash == \E o \in Servers \ {s} : boot[o] = "create"
  <1>1. raced' = (raced \/ clash) /\ clash \in BOOLEAN
    BY DEF Draw
  <1>2. ~clash => \A o \in Servers : o # s => boot[o] # "create"
    OBVIOUS
  <1> HIDE DEF clash
  <1>3. PICK k \in Keys : Step(s, "create", k)
    BY DEF Draw
  <1>4. UNCHANGED keyFile
    BY DEF Draw
  <1>5. KeyTypeOK' /\ HoldsKey'
    BY <1>1, <1>3, <1>4 DEF KeyInv, KeyTypeOK, HoldsKey, Step
  <1>6. OneWriter'
    <2> SUFFICES ASSUME ~raced' PROVE OneWriter'
      BY DEF OneWriter
    <2>1. ~raced /\ \A o \in Servers : o # s => boot[o] # "create"
      BY <1>1, <1>2
    <2>2. \A o \in Servers : boot[o] # "write"
      BY <2>1, KeyMarksAssumption DEF KeyInv, OneWriter
    <2> QED
      BY <2>1, <2>2, <1>3, <1>4 DEF KeyInv, KeyTypeOK, OneWriter, Step
  <1>7. RunningKeyIsOnDisk'
    BY <1>1, <1>3, <1>4 DEF KeyInv, KeyTypeOK, RunningKeyIsOnDisk, Step, Up
  <1> QED
    BY <1>1, <1>4, <1>5, <1>6, <1>7 DEF KeyInv

\* A process ends, or is at the beginning: the others are as before.
LEMMA StepOutKeepsKeyInv ==
    ASSUME KeyInv, NEW s \in Servers, NEW label \in {"down", "load"},
           Step(s, label, NoKey), UNCHANGED <<keyFile, raced>>
    PROVE  KeyInv'
  BY DEF KeyInv, KeyTypeOK, HoldsKey, OneWriter, RunningKeyIsOnDisk, Step, Up

\* No step of a start loses a running process or forgets a race, and only
\* before there is a key does one change the file, unless two have raced.
LEMMA NewAppKeepsKeyInv ==
    ASSUME KeyInv, NEW s \in Servers, NEW used, NewApp(s, used)
    PROVE  /\ KeyInv'
           /\ \A o \in Servers : Up(o) => Up(o)'
           /\ ~raced' => ~raced
           /\ ~raced /\ keyFile \in Keys => keyFile' = keyFile
  <1>1. CASE Start(s)
    <2>1. KeyInv'
      BY <1>1, StepOutKeepsKeyInv DEF Start
    <2> QED
      BY <1>1, <2>1 DEF Start, Step, Up, KeyInv, KeyTypeOK
  <1>2. CASE loadOrGenerateKey(s, used)
    <2>1. CASE Parses /\ Step(s, "up", keyFile) /\ UNCHANGED <<keyFile, raced>>
      BY <2>1 DEF KeyInv, KeyTypeOK, HoldsKey, OneWriter, RunningKeyIsOnDisk, Step, Up, Parses
    <2>2. CASE Exit(s)
      <3>1. KeyInv'
        BY <2>2, StepOutKeepsKeyInv DEF Exit
      <3> QED
        BY <1>2, <2>2, <3>1 DEF loadOrGenerateKey, Exit, Step, Up, KeyInv, KeyTypeOK
    <2>3. CASE keyFile = Absent /\ Draw(s, used)
      <3>1. KeyInv' /\ keyFile' = keyFile /\ (~raced' => ~raced)
        BY <1>2, <2>3, DrawKeepsKeyInv DEF loadOrGenerateKey
      <3>2. boot' = [boot EXCEPT ![s] = "create"]
        BY <2>3 DEF Draw, Step
      <3> QED
        BY <1>2, <3>1, <3>2 DEF loadOrGenerateKey, Up, KeyInv, KeyTypeOK
    <2> QED
      BY <1>2, <2>1, <2>2, <2>3 DEF loadOrGenerateKey
  <1>3. CASE CreateFile(s)
    <2>1. CASE keyFile' = Short /\ Step(s, "write", key[s]) /\ UNCHANGED raced
      <3>1. \A o \in Servers : ~raced => boot[o] # "up"
        BY <1>3, KeyMarksAssumption
           DEF CreateFile, KeyInv, HoldsKey, OneWriter, RunningKeyIsOnDisk, Up
      <3>2. KeyTypeOK' /\ HoldsKey'
        BY <1>3, <2>1 DEF CreateFile, KeyInv, KeyTypeOK, HoldsKey, Step
      <3>3. OneWriter'
        BY <1>3, <2>1 DEF CreateFile, KeyInv, KeyTypeOK, OneWriter, Step
      <3>4. RunningKeyIsOnDisk'
        BY <1>3, <2>1, <3>1 DEF CreateFile, KeyInv, KeyTypeOK, RunningKeyIsOnDisk, Step, Up
      <3>5. ~(~raced /\ keyFile \in Keys)
        BY <1>3, KeyMarksAssumption DEF CreateFile, KeyInv, OneWriter
      <3>6. \A o \in Servers : Up(o) => Up(o)'
        BY <1>3, <2>1 DEF CreateFile, KeyInv, KeyTypeOK, Step, Up
      <3> QED
        BY <2>1, <3>2, <3>3, <3>4, <3>5, <3>6 DEF KeyInv
    <2>2. CASE Exit(s)
      <3>1. KeyInv'
        BY <2>2, StepOutKeepsKeyInv DEF Exit
      <3> QED
        BY <1>3, <2>2, <3>1 DEF CreateFile, Exit, Step, Up, KeyInv, KeyTypeOK
    <2> QED
      BY <1>3, <2>1, <2>2 DEF CreateFile
  <1>4. CASE WriteFile(s)
    <2>1. CASE keyFile' = key[s] /\ Step(s, "up", key[s]) /\ UNCHANGED raced
      <3>1. \A o \in Servers : ~raced => boot[o] # "up"
        BY <1>4, KeyMarksAssumption
           DEF WriteFile, KeyInv, HoldsKey, OneWriter, RunningKeyIsOnDisk, Up
      <3>2. KeyTypeOK' /\ HoldsKey'
        BY <1>4, <2>1 DEF WriteFile, KeyInv, KeyTypeOK, HoldsKey, Step
      <3>3. OneWriter'
        BY <1>4, <2>1 DEF WriteFile, KeyInv, KeyTypeOK, OneWriter, Step
      <3>4. RunningKeyIsOnDisk'
        BY <1>4, <2>1, <3>1 DEF WriteFile, KeyInv, KeyTypeOK, RunningKeyIsOnDisk, Step, Up
      <3>5. ~(~raced /\ keyFile \in Keys)
        BY <1>4, KeyMarksAssumption DEF WriteFile, KeyInv, OneWriter
      <3>6. \A o \in Servers : Up(o) => Up(o)'
        BY <1>4, <2>1 DEF WriteFile, KeyInv, KeyTypeOK, Step, Up
      <3> QED
        BY <2>1, <3>2, <3>3, <3>4, <3>5, <3>6 DEF KeyInv
    <2>2. CASE Exit(s)
      <3>1. KeyInv'
        BY <2>2, StepOutKeepsKeyInv DEF Exit
      <3> QED
        BY <1>4, <2>2, <3>1 DEF WriteFile, Exit, Step, Up, KeyInv, KeyTypeOK
    <2> QED
      BY <1>4, <2>1, <2>2 DEF WriteFile
  <1> QED
    BY <1>1, <1>2, <1>3, <1>4 DEF NewApp

-----------------------------------------------------------------------------
(* The provider's row and the handlers.                                    *)

\* With no key on disk there is nothing sealed.
LEMMA NothingSealedWithoutKey ==
    ASSUME AdminInv, ~raced, keyFile \notin Keys
    PROVE  provider = NoRow /\ \A p \in Procs : sealed[p] = NoRow
  BY DEF AdminInv, TypeOK, SealedWithFile, Row, Sealed

\* What Upsert is going to store is a sealed secret or nothing, sealed with
\* the key on disk; if the form has a secret it is that one.
LEMMA ToStoreIsSealed ==
    ASSUME AdminInv, NEW p \in Procs, pc[p] = "saveRead"
    PROVE  /\ ToStore(p) \in Sealed \cup {NoRow}
           /\ ~raced /\ ToStore(p) # NoRow => ToStore(p).with = keyFile
           /\ form[p].secret # Blank => ToStore(p).secret = form[p].secret
  <1>1. key[server[p]] \in Keys /\ (~raced => key[server[p]] = keyFile)
    BY DEF AdminInv, KeyInv, ServedByRunning, HoldsKey, RunningKeyIsOnDisk, Up
  <1>2. form[p] \in Form /\ (form[p].secret # Blank => form[p].secret \in Secrets)
    BY DEF AdminInv, TypeOK, Form
  <1>3. CASE form[p].secret # Blank
    BY <1>1, <1>2, <1>3 DEF ToStore, Encrypt, Sealed
  <1>4. CASE form[p].secret = Blank /\ provider # NoRow
    <2>1. provider.sealed \in Sealed /\ (~raced => provider.sealed.with = keyFile)
      BY <1>4 DEF AdminInv, TypeOK, Row, SealedWithFile
    <2> QED
      BY <1>4, <2>1 DEF ToStore
  <1>5. CASE form[p].secret = Blank /\ provider = NoRow
    BY <1>5 DEF ToStore
  <1> QED
    BY <1>3, <1>4, <1>5

\* A handler that ends takes its own locals with it and nothing else.
LEMMA FinishKeepsLocals ==
    ASSUME AdminInv, NEW p \in Procs, Finish(p), UNCHANGED keyVars
    PROVE  /\ pc' \in [Procs -> {"idle", "saveRead", "saveWrite", "toggleRead", "toggleWrite", "delete"}]
           /\ server' \in [Procs -> Servers \cup {Nowhere}]
           /\ form' \in [Procs -> Form]
           /\ sealed' \in [Procs -> Sealed \cup {NoRow}]
           /\ flip' \in [Procs -> BOOLEAN]
           /\ KeyInv' /\ ServedByRunning' /\ SavesWhatWasTyped'
           /\ ~raced' => \A q \in Procs : sealed'[q] # NoRow => sealed'[q].with = keyFile'
  <1>1. NoForm \in Form
    BY DEF NoForm, Form
  <1>2. /\ pc' \in [Procs -> {"idle", "saveRead", "saveWrite", "toggleRead", "toggleWrite", "delete"}]
        /\ server' \in [Procs -> Servers \cup {Nowhere}]
        /\ form' \in [Procs -> Form]
        /\ sealed' \in [Procs -> Sealed \cup {NoRow}]
        /\ flip' \in [Procs -> BOOLEAN]
    BY <1>1 DEF AdminInv, TypeOK, Finish
  <1>3. KeyInv'
    BY DEF AdminInv, KeyInv, keyVars, KeyTypeOK, HoldsKey, OneWriter, RunningKeyIsOnDisk, Up
  <1>4. ServedByRunning'
    BY DEF AdminInv, TypeOK, Finish, keyVars, ServedByRunning, Up
  <1>5. SavesWhatWasTyped'
    BY DEF AdminInv, TypeOK, Finish, SavesWhatWasTyped
  <1>6. ~raced' => \A q \in Procs : sealed'[q] # NoRow => sealed'[q].with = keyFile'
    BY DEF AdminInv, TypeOK, Finish, keyVars, SealedWithFile
  <1> QED
    BY <1>2, <1>3, <1>4, <1>5, <1>6

\* A handler that ends without a change to the row.
LEMMA FinishKeepsInv ==
    ASSUME AdminInv, NEW p \in Procs, Finish(p), UNCHANGED <<keyVars, provider, typed, stale>>
    PROVE  AdminInv'
  <1>1. KeyInv' /\ KeyTypeOK'
    BY FinishKeepsLocals DEF KeyInv
  <1>2. TypeOK'
    BY <1>1, FinishKeepsLocals DEF AdminInv, TypeOK
  <1>3. SealedWithFile'
    BY FinishKeepsLocals DEF AdminInv, SealedWithFile, keyVars
  <1> QED
    BY <1>1, <1>2, <1>3, FinishKeepsLocals DEF AdminInv, RotationSticks

\* A handler that ends with a row that is sealed with the key on disk.
LEMMA WriteKeepsInv ==
    ASSUME AdminInv, NEW p \in Procs, Finish(p), UNCHANGED keyVars,
           provider' \in Row \cup {NoRow},
           ~raced /\ provider' # NoRow => provider'.sealed.with = keyFile,
           typed' \in Secrets \cup {Blank}, stale' \in BOOLEAN,
           ~stale' /\ provider' # NoRow => provider'.sealed.secret = typed'
    PROVE  AdminInv'
  <1>1. KeyInv' /\ KeyTypeOK'
    BY FinishKeepsLocals DEF KeyInv
  <1>2. TypeOK'
    BY <1>1, FinishKeepsLocals DEF TypeOK
  <1>3. SealedWithFile'
    BY FinishKeepsLocals DEF SealedWithFile, keyVars
  <1>4. RotationSticks'
    BY DEF RotationSticks
  <1> QED
    BY <1>1, <1>2, <1>3, <1>4, FinishKeepsLocals DEF AdminInv

\* A request arrives at a running process; nothing is sealed yet.
LEMMA BeginKeepsInv ==
    ASSUME AdminInv, NEW p \in Procs, NEW s \in Servers, NEW f \in Form,
           NEW label \in {"saveRead", "toggleRead", "delete"}, Begin(p, s, label, f)
    PROVE  AdminInv'
  <1>1. KeyInv' /\ KeyTypeOK'
    BY DEF Begin, AdminInv, KeyInv, keyVars, KeyTypeOK, HoldsKey, OneWriter, RunningKeyIsOnDisk, Up
  <1>2. TypeOK'
    BY <1>1 DEF Begin, AdminInv, TypeOK
  <1>3. ServedByRunning'
    BY DEF Begin, AdminInv, TypeOK, ServedByRunning, keyVars, Up
  <1>4. SealedWithFile' /\ RotationSticks'
    BY DEF Begin, AdminInv, keyVars, SealedWithFile, RotationSticks
  <1>5. SavesWhatWasTyped'
    BY DEF Begin, AdminInv, TypeOK, SavesWhatWasTyped
  <1> QED
    BY <1>1, <1>2, <1>3, <1>4, <1>5 DEF AdminInv

\* SaveProvider seals what was typed with its process's key, which is the one on
\* disk, or takes over the sealed secret it read.
LEMMA SaveReadKeepsInv ==
    ASSUME AdminInv, NEW p \in Procs, SaveRead(p) PROVE AdminInv'
  <1>1. CASE Finish(p)
    BY <1>1, FinishKeepsInv DEF SaveRead
  <1>2. CASE /\ ToStore(p) # NoRow
             /\ pc' = [pc EXCEPT ![p] = "saveWrite"]
             /\ sealed' = [sealed EXCEPT ![p] = ToStore(p)]
             /\ UNCHANGED <<server, form, flip>>
    <2> DEFINE bytes == ToStore(p)
    <2>1. /\ bytes \in Sealed /\ bytes # NoRow
          /\ ~raced => bytes.with = keyFile
          /\ form[p].secret # Blank => bytes.secret = form[p].secret
      BY <1>2, ToStoreIsSealed DEF SaveRead
    <2>2. sealed' = [sealed EXCEPT ![p] = bytes]
      BY <1>2
    <2>3. UNCHANGED <<keyVars, provider, typed, stale>> /\ pc[p] = "saveRead"
      BY DEF SaveRead
    <2> HIDE DEF bytes
    <2>4. KeyInv' /\ KeyTypeOK'
      BY <2>3 DEF AdminInv, KeyInv, keyVars, KeyTypeOK, HoldsKey, OneWriter, RunningKeyIsOnDisk, Up
    <2>5. TypeOK'
      BY <1>2, <2>1, <2>2, <2>3, <2>4 DEF AdminInv, TypeOK
    <2>6. ServedByRunning'
      BY <1>2, <2>3 DEF AdminInv, TypeOK, ServedByRunning, keyVars, Up
    <2>7. SealedWithFile' /\ RotationSticks'
      BY <2>1, <2>2, <2>3 DEF AdminInv, TypeOK, keyVars, SealedWithFile, RotationSticks
    <2>8. SavesWhatWasTyped'
      BY <1>2, <2>1, <2>2 DEF AdminInv, TypeOK, SavesWhatWasTyped
    <2> QED
      BY <2>4, <2>5, <2>6, <2>7, <2>8 DEF AdminInv
  <1> QED
    BY <1>1, <1>2 DEF SaveRead

\* The upsert stores what was sealed; a blank save that puts back anything but
\* what the row holds is marked stale.
LEMMA SaveWriteKeepsInv ==
    ASSUME AdminInv, NEW p \in Procs, SaveWrite(p) PROVE AdminInv'
  <1>1. CASE UNCHANGED <<provider, typed, stale>>
    BY <1>1, FinishKeepsInv DEF SaveWrite
  <1>2. CASE Store(p)
    <2>1. /\ sealed[p] \in Sealed /\ form[p] \in Form
          /\ ~raced => sealed[p].with = keyFile
          /\ form[p].secret # Blank => sealed[p].secret = form[p].secret
      BY DEF SaveWrite, AdminInv, TypeOK, SealedWithFile, SavesWhatWasTyped
    <2>2. provider' \in Row /\ provider'.sealed = sealed[p]
      BY <1>2, <2>1 DEF Store, Row, Form
    <2>3. CASE form[p].secret # Blank
      <3>1. typed' = form[p].secret /\ stale' = FALSE /\ form[p].secret \in Secrets
        BY <1>2, <2>1, <2>3 DEF Store, Form
      <3> QED
        BY <2>1, <2>2, <2>3, <3>1, WriteKeepsInv DEF SaveWrite
    <2>4. CASE form[p].secret = Blank
      <3> DEFINE overtaken == provider = NoRow \/ provider.sealed # sealed[p]
      <3>1. stale' = (stale \/ overtaken) /\ typed' = typed /\ overtaken \in BOOLEAN
        BY <1>2, <2>4 DEF Store
      <3>2. ~overtaken => provider # NoRow /\ provider.sealed = sealed[p]
        OBVIOUS
      <3> HIDE DEF overtaken
      <3>3. typed' \in Secrets \cup {Blank} /\ stale' \in BOOLEAN
        BY <3>1 DEF AdminInv, TypeOK
      <3>4. ~stale' => provider'.sealed.secret = typed'
        BY <2>2, <3>1, <3>2 DEF AdminInv, TypeOK, RotationSticks
      <3> QED
        BY <2>1, <2>2, <3>3, <3>4, WriteKeepsInv DEF SaveWrite
    <2> QED
      BY <2>3, <2>4
  <1> QED
    BY <1>1, <1>2 DEF SaveWrite

\* Toggle reads the row and keeps a copy.
LEMMA ToggleReadKeepsInv ==
    ASSUME AdminInv, NEW p \in Procs, ToggleRead(p) PROVE AdminInv'
  <1>1. CASE Finish(p)
    BY <1>1, FinishKeepsInv DEF ToggleRead
  <1>2. CASE /\ provider # NoRow
             /\ pc' = [pc EXCEPT ![p] = "toggleWrite"]
             /\ flip' = [flip EXCEPT ![p] = ~provider.enabled]
             /\ sealed' = [sealed EXCEPT ![p] = provider.sealed]
             /\ UNCHANGED <<server, form>>
    <2>1. provider.sealed \in Sealed /\ (~raced => provider.sealed.with = keyFile)
      BY <1>2 DEF AdminInv, TypeOK, Row, SealedWithFile
    <2>3. UNCHANGED <<keyVars, provider, typed, stale>> /\ pc[p] = "toggleRead"
      BY DEF ToggleRead
    <2>4. KeyInv' /\ KeyTypeOK'
      BY <2>3 DEF AdminInv, KeyInv, keyVars, KeyTypeOK, HoldsKey, OneWriter, RunningKeyIsOnDisk, Up
    <2>5. TypeOK'
      BY <1>2, <2>1, <2>3, <2>4 DEF AdminInv, TypeOK
    <2>6. ServedByRunning'
      BY <1>2, <2>3 DEF AdminInv, TypeOK, ServedByRunning, keyVars, Up
    <2>7. SealedWithFile' /\ RotationSticks'
      BY <1>2, <2>1, <2>3 DEF AdminInv, TypeOK, keyVars, SealedWithFile, RotationSticks
    <2>8. SavesWhatWasTyped'
      BY <1>2 DEF AdminInv, TypeOK, SavesWhatWasTyped
    <2> QED
      BY <2>4, <2>5, <2>6, <2>7, <2>8 DEF AdminInv
  <1> QED
    BY <1>1, <1>2 DEF ToggleRead

\* Toggle writes the flag only: the secret in the row stays.
LEMMA ToggleWriteKeepsInv ==
    ASSUME AdminInv, NEW p \in Procs, ToggleWrite(p) PROVE AdminInv'
  <1>1. CASE UNCHANGED provider
    BY <1>1, FinishKeepsInv DEF ToggleWrite
  <1>2. CASE provider' = IF provider = NoRow THEN NoRow ELSE [provider EXCEPT !.enabled = flip[p]]
    <2>1. CASE provider = NoRow
      BY <1>2, <2>1, FinishKeepsInv DEF ToggleWrite
    <2>2. CASE provider # NoRow
      <3>1. provider \in Row /\ flip[p] \in BOOLEAN
        BY <2>2 DEF AdminInv, TypeOK
      <3>2. provider' \in Row /\ provider'.sealed = provider.sealed
        BY <1>2, <2>2, <3>1 DEF Row
      <3> QED
        BY <2>2, <3>1, <3>2, WriteKeepsInv
           DEF ToggleWrite, AdminInv, TypeOK, SealedWithFile, RotationSticks
    <2> QED
      BY <2>1, <2>2
  <1> QED
    BY <1>1, <1>2 DEF ToggleWrite

\* A row that is deleted takes its secret along.
LEMMA DeleteKeepsInv ==
    ASSUME AdminInv, NEW p \in Procs, Delete(p) PROVE AdminInv'
  <1>1. CASE UNCHANGED <<provider, typed, stale>>
    BY <1>1, FinishKeepsInv DEF Delete
  <1>2. CASE provider' = NoRow /\ typed' = Blank /\ stale' = FALSE
    BY <1>2, WriteKeepsInv DEF Delete
  <1> QED
    BY <1>1, <1>2 DEF Delete

\* A start seals nothing and changes no key anything is sealed with.
LEMMA BootKeepsInv ==
    ASSUME AdminInv, NEW s \in Servers, Boot(s) PROVE AdminInv'
  <1>1. UNCHANGED <<provider, pc, server, form, sealed, flip, typed, stale>>
    BY DEF Boot, locals
  <1>2. /\ KeyInv' /\ KeyTypeOK'
        /\ \A o \in Servers : Up(o) => Up(o)'
        /\ ~raced' => ~raced
        /\ ~raced /\ keyFile \in Keys => keyFile' = keyFile
    <2>1. KeyInv /\ NewApp(s, SealedWith)
      BY DEF Boot, AdminInv
    <2> QED
      BY <2>1, NewAppKeepsKeyInv DEF KeyInv
  <1>3. TypeOK'
    BY <1>1, <1>2 DEF AdminInv, TypeOK
  <1>4. ServedByRunning'
    BY <1>1, <1>2 DEF AdminInv, ServedByRunning, Up
  <1>5. SealedWithFile'
    <2>1. CASE raced'
      BY <2>1 DEF SealedWithFile
    <2>2. CASE ~raced' /\ keyFile \in Keys
      BY <1>1, <1>2, <2>2 DEF AdminInv, SealedWithFile
    <2>3. CASE ~raced' /\ keyFile \notin Keys
      BY <1>1, <1>2, <2>3, NothingSealedWithoutKey DEF SealedWithFile
    <2> QED
      BY <1>2, <2>1, <2>2, <2>3 DEF KeyTypeOK
  <1>6. SavesWhatWasTyped' /\ RotationSticks'
    BY <1>1 DEF AdminInv, SavesWhatWasTyped, RotationSticks
  <1> QED
    BY <1>2, <1>3, <1>4, <1>5, <1>6 DEF AdminInv

\* A kill ends the process's handlers with it.
LEMMA CrashKeepsInv ==
    ASSUME AdminInv, NEW s \in Servers, Crash(s) PROVE AdminInv'
  <1>1. KeyInv' /\ KeyTypeOK'
    BY StepOutKeepsKeyInv DEF Crash, Kill, Exit, AdminInv, KeyInv
  <1>2. NoForm \in Form
    BY DEF NoForm, Form
  <1>3. TypeOK'
    BY <1>1, <1>2 DEF Crash, AdminInv, TypeOK
  <1>4. ServedByRunning'
    BY DEF Crash, Kill, Exit, Step, AdminInv, TypeOK, KeyInv, KeyTypeOK, ServedByRunning, Up
  <1>5. SealedWithFile' /\ RotationSticks'
    BY DEF Crash, Kill, Exit, AdminInv, SealedWithFile, RotationSticks
  <1>6. SavesWhatWasTyped'
    BY DEF Crash, AdminInv, SavesWhatWasTyped
  <1> QED
    BY <1>1, <1>3, <1>4, <1>5, <1>6 DEF AdminInv

-----------------------------------------------------------------------------
\* With no key file and no provider the invariant holds.
LEMMA AdminInvInit == Init => AdminInv
  <1> SUFFICES ASSUME Init PROVE AdminInv
    OBVIOUS
  <1>1. NoForm \in Form
    BY DEF NoForm, Form
  <1>2. KeyTypeOK
    BY DEF Init, KeyInit, KeyTypeOK
  <1>3. TypeOK
    BY <1>1, <1>2 DEF Init, TypeOK
  <1>4. HoldsKey /\ OneWriter /\ RunningKeyIsOnDisk
    BY DEF Init, KeyInit, HoldsKey, OneWriter, RunningKeyIsOnDisk, Up
  <1>5. ServedByRunning /\ SealedWithFile /\ SavesWhatWasTyped /\ RotationSticks
    BY DEF Init, ServedByRunning, SealedWithFile, SavesWhatWasTyped, RotationSticks
  <1> QED
    BY <1>2, <1>3, <1>4, <1>5 DEF AdminInv, KeyInv

\* Every step keeps it.
LEMMA AdminInvNext == AdminInv /\ [Next]_vars => AdminInv'
  <1> SUFFICES ASSUME AdminInv, [Next]_vars PROVE AdminInv'
    OBVIOUS
  <1>0. NoForm \in Form
    BY DEF NoForm, Form
  <1>1. CASE \E s \in Servers : Boot(s) \/ Crash(s)
    BY <1>1, BootKeepsInv, CrashKeepsInv
  <1>2. CASE \E p \in Procs, s \in Servers, f \in Form : SaveBegin(p, s, f)
    BY <1>2, BeginKeepsInv DEF SaveBegin
  <1>3. CASE \E p \in Procs, s \in Servers : ToggleBegin(p, s) \/ DeleteBegin(p, s)
    BY <1>0, <1>3, BeginKeepsInv DEF ToggleBegin, DeleteBegin
  <1>4. CASE \E p \in Procs : SaveStep(p) \/ ToggleStep(p) \/ Delete(p)
    BY <1>4, SaveReadKeepsInv, SaveWriteKeepsInv, ToggleReadKeepsInv, ToggleWriteKeepsInv,
       DeleteKeepsInv DEF SaveStep, ToggleStep
  <1>5. CASE UNCHANGED vars
    BY <1>5 DEF vars, keyVars, locals, AdminInv, TypeOK, KeyTypeOK, KeyInv, HoldsKey, OneWriter,
         RunningKeyIsOnDisk, ServedByRunning, SealedWithFile, SavesWhatWasTyped,
         RotationSticks, Up
  <1> QED
    BY <1>1, <1>2, <1>3, <1>4, <1>5 DEF Next

\* AdminInv holds of every state the processes and handlers reach.
LEMMA AdminInvariant == Spec => []AdminInv
  BY AdminInvInit, AdminInvNext, PTL DEF Spec

\* The key files, the row and the handlers' locals keep their types.
THEOREM TypeCorrect == Spec => []TypeOK
  BY AdminInvariant, PTL DEF AdminInv

\* Whatever starts, kills and failed writes came before, a process that
\* serves requests holds the key that loadOrGenerateKey would load again,
\* unless two first starts have overlapped.
THEOREM RunsOnStoredKey == Spec => []RunningKeyIsOnDisk
  <1>1. AdminInv => RunningKeyIsOnDisk
    BY DEF AdminInv, KeyInv
  <1> QED
    BY <1>1, AdminInvariant, PTL

\* Every running process can open every stored provider secret: what is
\* sealed is sealed with the key on disk, and so is what a process holds.
THEOREM SecretsReadable == Spec => []SecretsStayReadable
  <1>1. AdminInv => SecretsStayReadable
    BY DEF AdminInv, KeyInv, RunningKeyIsOnDisk, SealedWithFile, SecretsStayReadable, Decrypts
  <1> QED
    BY <1>1, AdminInvariant, PTL

\* No save, toggle or delete undoes a rotation but the blank save that was
\* overtaken while it held the old secret.
THEOREM RotationIsKept == Spec => []RotationSticks
  <1>1. AdminInv => RotationSticks
    BY DEF AdminInv
  <1> QED
    BY <1>1, AdminInvariant, PTL

\* No step of any process replaces a key that is on disk, unless two first
\* starts have overlapped.
THEOREM KeyKept == Spec => KeyIsForGood
  <1>1. AdminInv /\ [Next]_vars => [(keyFile \in Keys /\ ~raced) => keyFile' = keyFile]_vars
    <2> SUFFICES ASSUME AdminInv, Next, keyFile \in Keys, ~raced PROVE keyFile' = keyFile
      BY DEF vars, keyVars
    <2>1. ASSUME NEW s \in Servers, Boot(s) PROVE keyFile' = keyFile
      BY <2>1, NewAppKeepsKeyInv DEF Boot, AdminInv
    <2>2. ASSUME NEW s \in Servers, Crash(s) PROVE keyFile' = keyFile
      BY <2>2 DEF Crash, Kill, Exit
    <2>3. ASSUME UNCHANGED keyVars PROVE keyFile' = keyFile
      BY <2>3 DEF keyVars
    <2> QED
      BY <2>1, <2>2, <2>3
         DEF Next, SaveBegin, ToggleBegin, DeleteBegin, Begin, SaveStep, SaveRead, SaveWrite,
             ToggleStep, ToggleRead, ToggleWrite, Delete
  <1> QED
    BY <1>1, AdminInvariant, PTL DEF Spec, KeyIsForGood
=============================================================================
