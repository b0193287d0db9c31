--------------------------- MODULE ProviderAdmin ---------------------------
(***************************************************************************)
(* The configuration of an app's identity provider: the admin pages that   *)
(* save, toggle and delete it (internal/admin/providers.go), the service   *)
(* behind them (ProviderService.Upsert, Get, SetEnabled, Delete), its row  *)
(* in identity_providers, and the key that seals its client secret, which  *)
(* every server process has loaded from KeyFile when it started.           *)
(*                                                                         *)
(* Save and toggle read the row and write it later, in another statement   *)
(* and with no transaction around the two, so requests of two operators'   *)
(* tabs, or of two processes, interleave.  Rows of different apps and      *)
(* providers are independent; this is one of them.  Its client id is part  *)
(* of no decision but whether the form is complete (valid).                *)
(***************************************************************************)
EXTENDS KeyFile

CONSTANTS
    Procs,       \* handler goroutines at once
    Secrets,     \* client secrets operators type
    Blank,       \* the secret field left blank; also: no secret
    NoRow,       \* marks a provider that is not configured
    Nowhere,     \* marks a handler that runs in no process
    DBFaults     \* whether database calls may fail

VARIABLES
    provider,    \* the identity_providers row
    pc,          \* where each handler is
    server,      \* the process it runs in
    form,        \* the form it was sent
    sealed,      \* the encrypted secret it is going to write
    flip,        \* the value a toggle is going to write
    typed,       \* history: the secret typed in the last save that typed one
    stale        \* history: a blank save has since put back what it had read

Sealed == [secret : Secrets, with : Keys]
Row == [sealed : Sealed, enabled : BOOLEAN]
Form == [secret : Secrets \cup {Blank}, enabled : BOOLEAN, valid : BOOLEAN]
NoForm == [secret |-> Blank, enabled |-> FALSE, valid |-> FALSE]

ASSUME RowMarksAssumption ==
    Blank \notin Secrets /\ NoRow \notin Row /\ NoRow \notin Sealed /\ Nowhere \notin Servers
ASSUME DBFaultsAssumption == DBFaults \in BOOLEAN

locals == <<pc, server, form, sealed, flip>>
vars == <<keyVars, provider, locals, typed, stale>>

TypeOK ==
    /\ KeyTypeOK
    /\ provider \in Row \cup {NoRow}
    /\ pc \in [Procs -> {"idle", "saveRead", "saveWrite", "toggleRead", "toggleWrite", "delete"}]
    /\ server \in [Procs -> Servers \cup {Nowhere}]
    /\ form \in [Procs -> Form]
    /\ sealed \in [Procs -> Sealed \cup {NoRow}]
    /\ flip \in [Procs -> BOOLEAN]
    /\ typed \in Secrets \cup {Blank}
    /\ stale \in BOOLEAN

Init ==
    /\ KeyInit
    /\ provider = NoRow
    /\ pc = [p \in Procs |-> "idle"]
    /\ server = [p \in Procs |-> Nowhere]
    /\ form = [p \in Procs |-> NoForm]
    /\ sealed = [p \in Procs |-> NoRow]
    /\ flip = [p \in Procs |-> FALSE]
    /\ typed = Blank
    /\ stale = FALSE

\* secrets.Box: what is sealed with a key can be opened with that key only.
Encrypt(secret, k) == [secret |-> secret, with |-> k]
Decrypts(bytes, k) == bytes.with = k

-----------------------------------------------------------------------------
\* A request reaches a running process and passes loadApp.
Begin(p, s, label, f) ==
    /\ pc[p] = "idle"
    /\ Up(s)
    /\ pc' = [pc EXCEPT ![p] = label]
    /\ server' = [server EXCEPT ![p] = s]
    /\ form' = [form EXCEPT ![p] = f]
    /\ UNCHANGED <<keyVars, provider, sealed, flip, typed, stale>>

Finish(p) ==
    /\ pc' = [pc EXCEPT ![p] = "idle"]
    /\ server' = [server EXCEPT ![p] = Nowhere]
    /\ form' = [form EXCEPT ![p] = NoForm]
    /\ sealed' = [sealed EXCEPT ![p] = NoRow]
    /\ flip' = [flip EXCEPT ![p] = FALSE]

SaveBegin(p, s, f) == Begin(p, s, "saveRead", f)
ToggleBegin(p, s) == Begin(p, s, "toggleRead", NoForm)
DeleteBegin(p, s) == Begin(p, s, "delete", NoForm)

\* Upsert, up to its checks: what will be stored is a secret typed, sealed
\* with this process's key, or the bytes of the row as it is now; a new
\* provider must have one.
ToStore(p) ==
    IF form[p].secret # Blank THEN Encrypt(form[p].secret, key[server[p]])
    ELSE IF provider # NoRow THEN provider.sealed
    ELSE NoRow

SaveRead(p) ==
    /\ pc[p] = "saveRead"
    /\ \/ /\ form[p].valid /\ ToStore(p) # NoRow
          /\ pc' = [pc EXCEPT ![p] = "saveWrite"]
          /\ sealed' = [sealed EXCEPT ![p] = ToStore(p)]
          /\ UNCHANGED <<server, form, flip>>
       \/ (~form[p].valid \/ ToStore(p) = NoRow \/ DBFaults) /\ Finish(p)
    /\ UNCHANGED <<keyVars, provider, typed, stale>>

\* What a save that takes effect does to the table, and to the history.
Store(p) ==
    /\ provider' = [sealed |-> sealed[p], enabled |-> form[p].enabled]
    /\ IF form[p].secret # Blank
       THEN typed' = form[p].secret /\ stale' = FALSE
       ELSE /\ stale' = (stale \/ provider = NoRow \/ provider.sealed # sealed[p])
            /\ UNCHANGED typed

\* Faulty variant: the form's secret field is stored as it came.
SaveWriteUnsealed(p) ==
    /\ pc[p] = "saveWrite"
    /\ provider' = [sealed |-> form[p].secret, enabled |-> form[p].enabled]
    /\ Finish(p)
    /\ UNCHANGED <<keyVars, typed, stale>>

\* INSERT ... ON CONFLICT DO UPDATE.  When it reports an error, it may have
\* taken effect or not.
SaveWrite(p) ==
    /\ pc[p] = "saveWrite"
    /\ \/ Store(p)
       \/ DBFaults /\ UNCHANGED <<provider, typed, stale>>
    /\ Finish(p)
    /\ UNCHANGED keyVars

\* providerToggleHandler lists the app's providers and picks this one.
ToggleRead(p) ==
    /\ pc[p] = "toggleRead"
    /\ \/ /\ provider # NoRow
          /\ pc' = [pc EXCEPT ![p] = "toggleWrite"]
          /\ flip' = [flip EXCEPT ![p] = ~provider.enabled]
          /\ sealed' = [sealed EXCEPT ![p] = provider.sealed]
          /\ UNCHANGED <<server, form>>
       \/ (provider = NoRow \/ DBFaults) /\ Finish(p)
    /\ UNCHANGED <<keyVars, provider, typed, stale>>

\* Faulty variant: the record that was read is saved, all its columns.
ToggleSavesRecord(p) ==
    /\ pc[p] = "toggleWrite"
    /\ provider' = [sealed |-> sealed[p], enabled |-> flip[p]]
    /\ Finish(p)
    /\ UNCHANGED <<keyVars, typed, stale>>

\* SetEnabled: UPDATE of one column, of no row if there is none any more.
ToggleWrite(p) ==
    /\ pc[p] = "toggleWrite"
    /\ \/ provider' = IF provider = NoRow THEN NoRow ELSE [provider EXCEPT !.enabled = flip[p]]
       \/ DBFaults /\ UNCHANGED provider
    /\ Finish(p)
    /\ UNCHANGED <<keyVars, typed, stale>>

Delete(p) ==
    /\ pc[p] = "delete"
    /\ \/ provider' = NoRow /\ typed' = Blank /\ stale' = FALSE
       \/ DBFaults /\ UNCHANGED <<provider, typed, stale>>
    /\ Finish(p)
    /\ UNCHANGED keyVars

-----------------------------------------------------------------------------
\* The keys known outside the key file and the processes.
SealedWith ==
    {k \in Keys : \/ provider # NoRow /\ provider.sealed.with = k
                  \/ \E p \in Procs : sealed[p] # NoRow /\ sealed[p].with = k}

Boot(s) == NewApp(s, SealedWith) /\ UNCHANGED <<provider, locals, typed, stale>>

\* A process is killed, and its handlers with it.
Crash(s) ==
    LET here(p) == server[p] = s
    IN  /\ Kill(s)
        /\ pc' = [p \in Procs |-> IF here(p) THEN "idle" ELSE pc[p]]
        /\ server' = [p \in Procs |-> IF here(p) THEN Nowhere ELSE server[p]]
        /\ form' = [p \in Procs |-> IF here(p) THEN NoForm ELSE form[p]]
        /\ sealed' = [p \in Procs |-> IF here(p) THEN NoRow ELSE sealed[p]]
        /\ flip' = [p \in Procs |-> IF here(p) THEN FALSE ELSE flip[p]]
        /\ UNCHANGED <<provider, typed, stale>>

SaveStep(p) == SaveRead(p) \/ SaveWrite(p)
ToggleStep(p) == ToggleRead(p) \/ ToggleWrite(p)

Next ==
    \/ \E s \in Servers : Boot(s) \/ Crash(s)
    \/ \E p \in Procs, s \in Servers, f \in Form : SaveBegin(p, s, f)
    \/ \E p \in Procs, s \in Servers : ToggleBegin(p, s) \/ DeleteBegin(p, s)
    \/ \E p \in Procs : SaveStep(p) \/ ToggleStep(p) \/ Delete(p)

Spec == Init /\ [][Next]_vars

-----------------------------------------------------------------------------
(* Properties.                                                             *)

\* "generating and saving one on first use" (secrets/box.go): a process
\* that serves requests does so with the key that is on disk, whatever other
\* processes, failed writes and kills left behind, unless two first starts
\* have overlapped.
RunningKeyIsOnDisk == \A s \in Servers : Up(s) /\ ~raced => key[s] = keyFile

\* A key is for good: once it is on disk no later start replaces it, not
\* even one that cannot read it, unless two first starts have overlapped.
KeyIsForGood == [][(keyFile \in Keys /\ ~raced) => keyFile' = keyFile]_vars

\* The secret of a configured provider can be decrypted (Get) by whichever
\* process serves the next sign-in, before and after restarts, unless two
\* first starts have overlapped.
SecretsStayReadable ==
    \A s \in Servers :
        Up(s) /\ ~raced /\ provider # NoRow => Decrypts(provider.sealed, key[s])

\* "Leave blank to keep it, or enter a new value to rotate it"
\* (provider_form.html): the stored secret is the one typed last, and a
\* deleted provider stays deleted, unless a save with a blank field, itself
\* overtaken by another save or a delete, has put back what it had read.
RotationSticks == ~stale => (provider # NoRow => provider.sealed.secret = typed)
=============================================================================
