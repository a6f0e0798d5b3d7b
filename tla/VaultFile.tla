----------------------------- MODULE VaultFile -----------------------------
(***************************************************************************)
(* vault.json on disk: how it is sealed, saved, migrated and re-keyed, and *)
(* what a failed write, a killed process or a power cut leaves of it.      *)
(*                                                                         *)
(* One process at a time holds a vault.Vault over the file: the server, or *)
(* `bloxsmith vault-passphrase rotate`, which asks for the server to be    *)
(* stopped first (passcli.go).  v.mu is held throughout a method, so there *)
(* is at most one save() in progress; its system calls are steps, because  *)
(* the process may die between any two.  scrypt is a symbolic function of  *)
(* passphrase, salt and file version; the payload is the number of changes *)
(* made so far.                                                            *)
(***************************************************************************)
EXTENDS Naturals

CONSTANTS
    Passes,         \* passphrases
    NoPass,
    Absent, Empty, Torn,    \* no such file; truncated; not a valid envelope
    MaxData, MaxSalt, MaxRuns   \* bounds on changes, salts and rotations

CurrentVersion == 2                 \* vault.currentVaultVersion
Versions == 1..CurrentVersion       \* vault.kdfByVersion

DerivedKeys == [pass : Passes \cup {NoPass}, salt : Nat, ver : Versions]
Envelopes == [ver : Versions, salt : Nat, key : DerivedKeys, data : Nat]
Files == Envelopes \cup {Absent, Empty, Torn}

ASSUME VaultFileAssumption ==
    /\ NoPass \notin Passes
    /\ Absent \notin Envelopes \cup Nat \cup {Empty, Torn}
    /\ Empty \notin Envelopes /\ Torn \notin Envelopes
    /\ MaxData \in Nat /\ MaxSalt \in Nat \ {0} /\ MaxRuns \in Nat

JobSteps == {"idle", "create", "write", "rename", "syncdir"}
JobKinds == {"none", "change", "init", "migrate", "rotate"}
Memories == [open : BOOLEAN, key : DerivedKeys, salt : Nat, ver : Versions, data : Nat]
CliSteps == {"idle", "opened", "backed", "rotated", "restore", "refill"}
Results == {"none", "ok", "failed", "restored"}

VARIABLES
    vault, tmp, backup,     \* vault.json, vault.json.tmp, the newest .bak-before-rotate
    durable,    \* what vault.json would hold after a power cut
    mem,        \* the process's Vault: unlocked, key, salt, ver, payload
    job,        \* its save() in progress, and what to put back if it fails
    up,         \* is the server running
    cli,        \* the rotate command: step, passphrases, original bytes, result
    salts,      \* random salts drawn so far
    acked       \* history: the last payload answered ok and flushed, or Absent

vaultFileVars == <<vault, tmp, backup, durable, mem, job, up, cli, salts, acked>>
files == <<vault, tmp, backup, durable>>

IsEnvelope(f) == f \notin {Absent, Empty, Torn}

deriveKey(pass, salt, ver) == [pass |-> pass, salt |-> salt, ver |-> ver]

\* Fernet verifies the token under the key the envelope's own fields derive.
Opens(f, pass) == IsEnvelope(f) /\ f.key = deriveKey(pass, f.salt, f.ver)

Sealed(m) == [ver |-> m.ver, salt |-> m.salt, key |-> m.key, data |-> m.data]

Locked == [open |-> FALSE, key |-> deriveKey(NoPass, 0, CurrentVersion), salt |-> 0,
           ver |-> CurrentVersion, data |-> 0]
NoJob == [pc |-> "idle", kind |-> "none", undo |-> Locked]
NoCli == [pc |-> "idle", cur |-> NoPass, new |-> NoPass, orig |-> Absent,
          result |-> "none", runs |-> 0]

(* VaultFileTypeOK: besides the types, the key in memory is the one        *)
(* derived under the version and salt that will be written beside it       *)
(* (vault.go, Vault.ver and save: a version never drifts from its token).  *)
VaultFileTypeOK ==
    /\ vault \in Files /\ tmp \in Files /\ backup \in Files /\ durable \in Files
    /\ mem \in Memories
    /\ mem.key = deriveKey(mem.key.pass, mem.salt, mem.ver)
    /\ job \in [pc : JobSteps, kind : JobKinds, undo : Memories]
    /\ up \in BOOLEAN
    /\ cli \in [pc : CliSteps, cur : Passes \cup {NoPass}, new : Passes \cup {NoPass},
                orig : Files, result : Results, runs : Nat]
    /\ salts \in Nat /\ acked \in Nat \cup {Absent}

VaultFileInit ==
    /\ vault \in {Absent} \cup
         {[ver |-> v, salt |-> 1, key |-> deriveKey(p, 1, v), data |-> 0] :
            v \in Versions, p \in Passes}
    /\ tmp = Absent /\ backup = Absent /\ durable = vault
    /\ mem = Locked
    /\ job = NoJob
    /\ up = FALSE
    /\ cli = NoCli
    /\ salts = 1
    /\ acked = IF vault = Absent THEN Absent ELSE 0

-----------------------------------------------------------------------------
(* save(): create vault.json.tmp (truncating one that is there), write and *)
(* fsync it, rename it over vault.json, fsync the directory.               *)
BeginSave(m, kind, undo) ==
    /\ mem' = m
    /\ job' = [pc |-> "create", kind |-> kind, undo |-> undo]

SaveStep(from, to) == job.pc = from /\ job' = [job EXCEPT !.pc = to]

CreateTmp ==
    /\ SaveStep("create", "write")
    /\ tmp' = Empty
    /\ UNCHANGED <<vault, backup, durable, mem, up, cli, salts, acked>>

WriteTmp ==
    /\ SaveStep("write", "rename")
    /\ tmp' = Sealed(mem)
    /\ UNCHANGED <<vault, backup, durable, mem, up, cli, salts, acked>>

RenameTmp ==
    /\ SaveStep("rename", "syncdir")
    /\ vault' = tmp
    /\ tmp' = Absent
    /\ UNCHANGED <<backup, durable, mem, up, cli, salts, acked>>

\* The save has succeeded; a directory that cannot be flushed is only logged.
SyncDir ==
    /\ job.pc = "syncdir"
    /\ \/ durable' = vault /\ acked' = mem.data
       \/ UNCHANGED <<durable, acked>>
    /\ job' = NoJob
    /\ cli' = IF job.kind = "rotate" THEN [cli EXCEPT !.pc = "rotated"] ELSE cli
    /\ UNCHANGED <<vault, tmp, backup, mem, up, salts>>

\* Mutant: the caller keeps what it tried to save.
UndoSaveForgotten ==
    /\ mem' = IF job.kind = "rotate" THEN Locked ELSE mem
    /\ job' = NoJob
    /\ cli' = IF job.kind = "rotate"
                THEN [cli EXCEPT !.pc = "idle", !.result = "failed"] ELSE cli

\* Whatever the failed save was for, the caller puts back what it had.
UndoSave ==
    /\ mem' = IF job.kind = "rotate" THEN Locked ELSE job.undo
    /\ job' = NoJob
    /\ cli' = IF job.kind = "rotate"
                THEN [cli EXCEPT !.pc = "idle", !.result = "failed"] ELSE cli

\* Any system call up to the rename may fail, part of the bytes written.
SaveFails ==
    /\ job.pc \in {"create", "write", "rename"}
    /\ tmp' \in IF job.pc = "write" THEN {tmp, Torn} ELSE {tmp}
    /\ UndoSave
    /\ UNCHANGED <<vault, backup, durable, up, salts, acked>>

Save == CreateTmp \/ WriteTmp \/ RenameTmp \/ SyncDir \/ SaveFails

-----------------------------------------------------------------------------
(* The Vault methods of the running server.                                *)
Serving == up /\ job.pc = "idle"

StartServer ==
    /\ ~up /\ cli.pc = "idle"
    /\ up' = TRUE
    /\ UNCHANGED <<files, mem, job, cli, salts, acked>>

\* The payload becomes v's state only once it has decrypted; a file of an
\* older version is then re-sealed in place, with its own salt.
Unlock(pass) ==
    LET m == [open |-> TRUE, key |-> vault.key, salt |-> vault.salt,
              ver |-> vault.ver, data |-> vault.data]
    IN /\ Opens(vault, pass)
       /\ IF vault.ver < CurrentVersion
            THEN BeginSave([m EXCEPT !.key = deriveKey(pass, m.salt, CurrentVersion),
                                     !.ver = CurrentVersion], "migrate", m)
            ELSE mem' = m /\ UNCHANGED job

UnlockServer(pass) ==
    /\ Serving
    /\ Unlock(pass)
    /\ UNCHANGED <<files, up, cli, salts, acked>>

FreshSalt == salts < MaxSalt /\ salts' = salts + 1

CreateVaultFile(pass) ==
    /\ Serving
    /\ vault = Absent
    /\ FreshSalt
    /\ BeginSave([open |-> TRUE, key |-> deriveKey(pass, salts', CurrentVersion),
                  salt |-> salts', ver |-> CurrentVersion, data |-> 0], "init", Locked)
    /\ UNCHANGED <<files, up, cli, acked>>

\* Any mutation of the payload: connections, permissions, provider keys.
Change ==
    /\ Serving
    /\ mem.open /\ mem.data < MaxData
    /\ BeginSave([mem EXCEPT !.data = @ + 1], "change", mem)
    /\ UNCHANGED <<files, up, cli, salts, acked>>

Lock ==
    /\ Serving
    /\ mem' = Locked
    /\ UNCHANGED <<files, job, up, cli, salts, acked>>

\* The secrets go even when the file cannot be removed.
Reset ==
    /\ Serving
    /\ mem' = Locked
    /\ \/ /\ vault' = Absent /\ acked' = Absent
          /\ cli' = [cli EXCEPT !.result = "none"]
       \/ UNCHANGED <<vault, acked, cli>>
    /\ UNCHANGED <<tmp, backup, durable, job, up, salts>>

-----------------------------------------------------------------------------
(* vault-passphrase rotate.                                                *)
EndCli(result) == [cli EXCEPT !.pc = "idle", !.result = result]

\* The current passphrase must open the vault before anything is touched.
RotateOpens(cur, new) ==
    /\ ~up /\ cli.pc = "idle" /\ cli.runs < MaxRuns
    /\ Unlock(cur)
    /\ cli' = [pc |-> "opened", cur |-> cur, new |-> new, orig |-> Absent,
               result |-> "none", runs |-> cli.runs + 1]
    /\ UNCHANGED <<files, up, salts, acked>>

\* The same passphrase again, or a backup that cannot be written.
RotateRefused ==
    /\ cli.pc = "opened" /\ job.pc = "idle"
    /\ cli' = EndCli("none")
    /\ mem' = Locked
    /\ UNCHANGED <<files, job, up, salts, acked>>

\* Mutant: the same passphrase again is accepted as the new one.
RotateAcceptsSame ==
    /\ cli.pc = "opened" /\ job.pc = "idle"
    /\ backup' = vault
    /\ cli' = [cli EXCEPT !.pc = "backed", !.orig = vault]
    /\ UNCHANGED <<vault, tmp, durable, mem, job, up, salts, acked>>

RotateBacksUp ==
    /\ cli.pc = "opened" /\ job.pc = "idle"
    /\ cli.new # cli.cur
    /\ backup' = vault
    /\ cli' = [cli EXCEPT !.pc = "backed", !.orig = vault]
    /\ UNCHANGED <<vault, tmp, durable, mem, job, up, salts, acked>>

Rotate ==
    /\ cli.pc = "backed" /\ job.pc = "idle"
    /\ FreshSalt
    /\ BeginSave([mem EXCEPT !.key = deriveKey(cli.new, salts', CurrentVersion),
                             !.salt = salts', !.ver = CurrentVersion], "rotate", mem)
    /\ UNCHANGED <<files, up, cli, acked>>

\* A fresh Vault opens the file and counts; that may fail for other reasons.
RotateVerified ==
    /\ cli.pc = "rotated"
    /\ Opens(vault, cli.new) /\ vault.data = mem.data
    /\ cli' = EndCli("ok")
    /\ mem' = Locked
    /\ UNCHANGED <<files, job, up, salts, acked>>

VerifyFails ==
    /\ cli.pc = "rotated"
    /\ cli' = [cli EXCEPT !.pc = "restore"]
    /\ UNCHANGED <<files, mem, job, up, salts, acked>>

\* os.WriteFile: in place, truncated first, never flushed.
RestoreTruncates ==
    /\ cli.pc = "restore"
    /\ vault' = Empty
    /\ durable' = Torn
    /\ cli' = [cli EXCEPT !.pc = "refill"]
    /\ UNCHANGED <<tmp, backup, mem, job, up, salts, acked>>

RestoreRefills ==
    /\ cli.pc = "refill"
    /\ \/ vault' = cli.orig /\ cli' = EndCli("restored")
       \/ vault' \in {vault, Torn} /\ cli' = EndCli("none")
    /\ mem' = Locked
    /\ UNCHANGED <<tmp, backup, durable, job, up, salts, acked>>

RotateStep ==
    \/ RotateRefused \/ RotateBacksUp \/ Rotate \/ RotateVerified \/ VerifyFails
    \/ RestoreTruncates \/ RestoreRefills

-----------------------------------------------------------------------------
(* The process is killed between any two system calls; a power cut also    *)
(* takes back what the directory flush had not yet made durable.           *)
Die == mem' = Locked /\ job' = NoJob

StopServer ==
    /\ up
    /\ up' = FALSE
    /\ Die
    /\ UNCHANGED <<files, cli, salts, acked>>

KillRotate ==
    /\ cli.pc # "idle"
    /\ cli' = EndCli("none")
    /\ Die
    /\ UNCHANGED <<files, up, salts, acked>>

\* Not during a rotation, whose backup and restore are never flushed.  A save
\* whose directory was not flushed is logged as one a power cut can undo: what
\* the command reported before it no longer binds (cli.result).
PowerCut ==
    /\ cli.pc = "idle"
    /\ up' = FALSE
    /\ vault' = durable
    /\ Die
    /\ cli' = IF durable = vault THEN cli ELSE EndCli("none")
    /\ UNCHANGED <<tmp, backup, durable, salts, acked>>

VaultFileNext ==
    \/ Save
    \/ StartServer \/ StopServer \/ PowerCut
    \/ \E pass \in Passes : UnlockServer(pass) \/ CreateVaultFile(pass)
    \/ Change \/ Lock \/ Reset
    \/ \E cur, new \in Passes : RotateOpens(cur, new)
    \/ RotateStep \/ KillRotate

VaultFileSpec == VaultFileInit /\ [][VaultFileNext]_vaultFileVars

-----------------------------------------------------------------------------
(* MemoryMatchesFile: whenever v.mu is free, the file on disk is exactly   *)
(* what the open vault would write, under the key it holds: no failed      *)
(* save, migration or re-key leaves the two apart (vault.go).  A rotation  *)
(* that is being put back is the one exception.                            *)
MemoryMatchesFile ==
    mem.open /\ job.pc = "idle" /\ cli.pc # "refill" => vault = Sealed(mem)

(* NothingLost: whatever was killed, and whenever the power went, the last *)
(* flushed payload can be read back with a passphrase from vault.json or   *)
(* from the backup a rotation leaves (passcli_rotate.go).                  *)
NothingLost ==
    acked # Absent =>
        \E f \in {vault, backup}, pass \in Passes : Opens(f, pass) /\ f.data >= acked

(* RotateEndsTheOldPassphrase: after the command reports success the vault *)
(* opens with the new passphrase and not with the old one, across later    *)
(* changes, failed saves and restarts (passcli_rotate.go).                 *)
RotateEndsTheOldPassphrase ==
    cli.result = "ok" => Opens(vault, cli.new) /\ ~Opens(vault, cli.cur)

(* FailedRotateKeepsTheOldKey: a rotation that reports that it failed, or  *)
(* that the original was restored, leaves a vault.json that opens with the *)
(* old passphrase, until the file is reset (passcli_rotate.go).            *)
FailedRotateKeepsTheOldKey ==
    cli.result \in {"failed", "restored"} => Opens(vault, cli.cur)

(* FileIsKept: whatever fails or is killed, the file is what the open      *)
(* vault would write, and no flushed payload is lost (vault.go,            *)
(* passcli_rotate.go).                                                     *)
FileIsKept == VaultFileTypeOK /\ MemoryMatchesFile /\ NothingLost

(* RotateTellsTheTruth: a rotation that says it succeeded ended the old    *)
(* passphrase; one that says it failed did not (passcli_rotate.go).        *)
RotateTellsTheTruth == RotateEndsTheOldPassphrase /\ FailedRotateKeepsTheOldKey
=============================================================================
