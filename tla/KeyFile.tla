------------------------------ MODULE KeyFile ------------------------------
(***************************************************************************)
(* A key file and the server processes that load it when they start.  The  *)
(* provider secret key (internal/secrets/box.go) and the token signing key *)
(* (internal/signing/keys.go) are handled by the same code over two files: *)
(* read the file; if there is none, draw a key and save it with            *)
(* os.WriteFile.  NewApp does this before it serves anything, and main     *)
(* exits when it fails.                                                    *)
(*                                                                         *)
(* os.WriteFile (external) creates or truncates the file and then writes   *)
(* it: in between, and for ever if the process dies there, the file is     *)
(* Short, which the reader refuses (32 bytes wanted, no PEM block).        *)
(* Nothing locks the file, so two first starts can both find none.         *)
(***************************************************************************)
CONSTANTS
    Servers,     \* processes that share the key path
    Keys,        \* keys that can be drawn
    Absent,      \* marks a file that does not exist
    Short,       \* marks a file without a whole key in it
    NoKey,       \* marks a process that has no key
    FileFaults,  \* whether reading and writing the file may fail
    Crashes      \* whether a process may be killed

ASSUME KeyMarksAssumption ==
    /\ Absent # Short
    /\ Absent \notin Keys /\ Short \notin Keys /\ NoKey \notin Keys
ASSUME KeyFaultsAssumption == FileFaults \in BOOLEAN /\ Crashes \in BOOLEAN

VARIABLES
    keyFile,     \* what is on disk
    boot,        \* how far each process has come
    key,         \* the key a process holds
    raced        \* history: two processes have drawn a key each

keyVars == <<keyFile, boot, key, raced>>

KeyTypeOK ==
    /\ keyFile \in Keys \cup {Absent, Short}
    /\ boot \in [Servers -> {"down", "load", "create", "write", "up"}]
    /\ key \in [Servers -> Keys \cup {NoKey}]
    /\ raced \in BOOLEAN

KeyInit ==
    /\ keyFile = Absent
    /\ boot = [s \in Servers |-> "down"]
    /\ key = [s \in Servers |-> NoKey]
    /\ raced = FALSE

Up(s) == boot[s] = "up"

\* parsePrivateKey, or the length check of a 32-byte key, accepts the file.
Parses == keyFile \in Keys

-----------------------------------------------------------------------------
Step(s, label, k) ==
    /\ boot' = [boot EXCEPT ![s] = label]
    /\ key' = [key EXCEPT ![s] = k]

\* log.Fatal, or a kill: what the process knew is gone, the file stays.
Exit(s) == Step(s, "down", NoKey) /\ UNCHANGED <<keyFile, raced>>

Start(s) ==
    /\ boot[s] = "down"
    /\ Step(s, "load", NoKey)
    /\ UNCHANGED <<keyFile, raced>>

\* A key unlike every other there is: used holds those known elsewhere.
Draw(s, used) ==
    /\ \E k \in Keys \ (used \cup {keyFile} \cup {key[o] : o \in Servers}) :
          Step(s, "create", k)
    /\ raced' = (raced \/ \E o \in Servers \ {s} : boot[o] = "create")
    /\ UNCHANGED keyFile

\* Faulty variant: any error of ReadFile counts as "there is no file".
loadOrGenerateOnAnyError(s, used) ==
    /\ boot[s] = "load"
    /\ \/ Parses /\ Step(s, "up", keyFile) /\ UNCHANGED <<keyFile, raced>>
       \/ keyFile = Short /\ Exit(s)
       \/ (keyFile = Absent \/ FileFaults) /\ Draw(s, used)

\* Faulty variant: a file that is too short is taken for a missing one.
loadOrReplaceShortKey(s, used) ==
    /\ boot[s] = "load"
    /\ \/ Parses /\ Step(s, "up", keyFile) /\ UNCHANGED <<keyFile, raced>>
       \/ FileFaults /\ Exit(s)
       \/ keyFile \in {Absent, Short} /\ Draw(s, used)

\* os.ReadFile: a whole key is used, a file that is too short or cannot be
\* read ends the process, a missing one makes it draw a key of its own.
loadOrGenerateKey(s, used) ==
    /\ boot[s] = "load"
    /\ \/ Parses /\ Step(s, "up", keyFile) /\ UNCHANGED <<keyFile, raced>>
       \/ (keyFile = Short \/ FileFaults) /\ Exit(s)
       \/ keyFile = Absent /\ Draw(s, used)

\* MkdirAll and the first half of WriteFile.
CreateFile(s) ==
    /\ boot[s] = "create"
    /\ \/ /\ keyFile' = Short
          /\ Step(s, "write", key[s])
          /\ UNCHANGED raced
       \/ FileFaults /\ Exit(s)

\* Faulty variant: the error of WriteFile is logged and the key used.
WriteFileBestEffort(s) ==
    /\ boot[s] = "write"
    /\ keyFile' \in {key[s], keyFile}
    /\ Step(s, "up", key[s])
    /\ UNCHANGED raced

\* The second half.  Only when it has succeeded is the key used.
WriteFile(s) ==
    /\ boot[s] = "write"
    /\ \/ /\ keyFile' = key[s]
          /\ Step(s, "up", key[s])
          /\ UNCHANGED raced
       \/ FileFaults /\ Exit(s)

Kill(s) == Crashes /\ boot[s] # "down" /\ Exit(s)

NewApp(s, used) ==
    Start(s) \/ loadOrGenerateKey(s, used) \/ CreateFile(s) \/ WriteFile(s)
=============================================================================
