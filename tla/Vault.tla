---------------------------------- MODULE Vault ----------------------------------
(***************************************************************************)
(* The encrypted vault of crates/secrets/src/lib.rs: one file that holds a *)
(* map of names to secrets, read whole and rewritten whole by every        *)
(* process that uses it (sherwood secrets, serve, restore), with no lock.  *)
(*                                                                         *)
(* write_private truncates the file and then writes it: between the two,   *)
(* and for ever when the process dies there or the disk is full, the file  *)
(* is torn and every load_map fails.  So does one with another passphrase  *)
(* than the file's.                                                        *)
(***************************************************************************)
EXTENDS Naturals, FiniteSets, Functions

CONSTANTS
    Process,      \* processes that use the vault
    Name,         \* names of secrets
    Value,        \* what a secret may be
    Passphrase,   \* what $SHERWOOD_VAULT_PASSPHRASE may be
    MaxRewrites   \* bound: rewrites of the file ever begun

VARIABLES
    file,         \* the vault file
    job,          \* per process, the rewrite it is doing
    backup,       \* the copy sherwood backup made, and what the vault meant then
    stored,       \* history: the secrets whose set, or removal, was reported done
    overlap,      \* history: a rewrite began while another one was going on
    rewrites      \* history: rewrites begun

vaultVars == <<file, job, backup, stored, overlap, rewrites>>

Empty == [n \in {} |-> n]
Absent == [state |-> "absent", key |-> "", map |-> Empty]
Torn == [state |-> "torn", key |-> "", map |-> Empty]
Sealed(key, map) == [state |-> "ok", key |-> key, map |-> map]

NoJob == [pc |-> "idle", file |-> Absent, change |-> [op |-> "none"]]
NoBackup == [file |-> Absent, stored |-> Empty]

\* map.insert and map.remove.
Inserted(map, n, v) == [m \in DOMAIN map \cup {n} |-> IF m = n THEN v ELSE map[m]]
Removed(map, n) == Restrict(map, DOMAIN map \ {n})

\* History: what the secrets become when a command reports that it is done.
Reported(change, map) ==
    CASE change.op = "set" -> Inserted(map, change.name, change.value)
      [] change.op = "rm" -> Removed(map, change.name)
      [] change.op = "restore" -> change.map

VaultInit ==
    /\ file = Absent
    /\ job = [p \in Process |-> NoJob]
    /\ backup = NoBackup
    /\ stored = Empty
    /\ overlap = FALSE
    /\ rewrites = 0

--------------------------------------------------------------------------------
(* load_map *)

\* Mutant: a file that does not parse counts as an empty vault.
MutLoadFails(key) == file.state = "ok" /\ file.key # key

\* Malformed or Decrypt.  A missing file is an empty map.
LoadFails(key) ==
    \/ file.state = "torn"
    \/ file.state = "ok" /\ file.key # key

--------------------------------------------------------------------------------
(* store_map: load, change, truncate, write *)

\* p goes on to replace the file, which makes the change it will report.
Rewrite(p, new, change) ==
    /\ rewrites < MaxRewrites
    /\ rewrites' = rewrites + 1
    /\ job' = [job EXCEPT ![p] = [pc |-> "store", file |-> new, change |-> change]]
    /\ overlap' = (overlap \/ \E q \in Process : job[q].pc # "idle")
    /\ UNCHANGED <<file, backup, stored>>

\* set.
Set(p, n, v, key) ==
    /\ job[p].pc = "idle"
    /\ ~LoadFails(key)
    /\ Rewrite(p, Sealed(key, Inserted(file.map, n, v)), [op |-> "set", name |-> n, value |-> v])

\* delete, of a name that is there.
Delete(p, n, key) ==
    /\ job[p].pc = "idle"
    /\ ~LoadFails(key)
    /\ n \in DOMAIN file.map
    /\ Rewrite(p, Sealed(key, Removed(file.map, n)), [op |-> "rm", name |-> n])

\* write_private: open with truncate ...
Truncate(p) ==
    /\ job[p].pc = "store"
    /\ file' = Torn
    /\ job' = [job EXCEPT ![p].pc = "write"]
    /\ UNCHANGED <<backup, stored, overlap, rewrites>>

\* ... then write_all and sync_all.
Write(p) ==
    /\ job[p].pc = "write"
    /\ file' = job[p].file
    /\ stored' = Reported(job[p].change, stored)
    /\ job' = [job EXCEPT ![p] = NoJob]
    /\ UNCHANGED <<backup, overlap, rewrites>>

\* The process dies, or a call fails: what it did to the file stays.
Abort(p) ==
    /\ job[p].pc # "idle"
    /\ job' = [job EXCEPT ![p] = NoJob]
    /\ UNCHANGED <<file, backup, stored, overlap, rewrites>>

--------------------------------------------------------------------------------
(* sherwood backup and sherwood restore, for the vault file *)

\* backup: whatever is there is copied.
Backup ==
    /\ file.state # "absent"
    /\ backup' = [file |-> file, stored |-> stored]
    /\ UNCHANGED <<file, job, stored, overlap, rewrites>>

\* restore: an existing file is replaced only with --force; fs::copy truncates too.
Restore(p, force) ==
    /\ job[p].pc = "idle"
    /\ backup # NoBackup
    /\ force \/ file.state = "absent"
    /\ Rewrite(p, backup.file, [op |-> "restore", map |-> backup.stored])

--------------------------------------------------------------------------------
(* Properties *)

\* Unless two rewrites overlapped, a vault that can be read holds exactly the secrets
\* the commands that ended put there: a write that died half way leaves a file that
\* refuses every command, and none of them takes it for an empty vault and starts over.
SecretsKept ==
    ~overlap /\ file.state # "torn" => file.map = stored
================================================================================
