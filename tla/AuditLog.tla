-------------------------------- MODULE AuditLog --------------------------------
(***************************************************************************)
(* The hash-chained audit_log table of crates/store/src/lib.rs:            *)
(* append_audit run by several processes on one SQLite file (sherwood run, *)
(* serve and reconcile each open it with a pool of one connection), and    *)
(* verify_audit_chain over what the table then holds.                      *)
(*                                                                         *)
(* append_audit is a transaction that reads the last row and inserts the   *)
(* next.  SQLite's locks are modelled as the rollback journal takes them:  *)
(* a SELECT takes SHARED, an INSERT needs the one RESERVED lock, a COMMIT  *)
(* needs every other SHARED lock gone; what cannot be had in time is       *)
(* SQLITE_BUSY, an error of the call, and the transaction rolls back.      *)
(*                                                                         *)
(* SHA-256 is taken to be injective: a hash is the tuple of its inputs.    *)
(* The timestamp, kind and JSON of a row are one value, its data.          *)
(***************************************************************************)
EXTENDS Naturals, Sequences, SequencesExt, FiniteSetsExt

CONSTANTS
    Process,   \* processes that have the database open
    Data,      \* what a row can say
    MaxRows    \* bound: rows ever written

ASSUME AuditAssumption == MaxRows \in Nat

VARIABLES
    log,       \* audit_log, in seq order
    txn,       \* per process, its transaction
    written    \* history: the rows append_audit committed

vars == <<log, txn, written>>

Genesis == <<>>
NoTxn == [pc |-> "idle", seq |-> 0, prev |-> Genesis]

--------------------------------------------------------------------------------
(* Helpers *)

\* audit_hash.
Hash(prev, seq, data) == <<prev, seq, data>>

Row(seq, prev, data) ==
    [seq |-> seq, data |-> data, prev_hash |-> prev, hash |-> Hash(prev, seq, data)]

\* The hash the row at position i has to link to.
ExpectedPrev(rows, i) == IF i = 1 THEN Genesis ELSE rows[i - 1].hash

\* Mutant: the links are checked and the hashes not recomputed.
MutRowBroken(rows, i) ==
    \/ rows[i].seq # i
    \/ rows[i].prev_hash # ExpectedPrev(rows, i)

\* Mutant: the hashes are recomputed and the links not compared.
MutRowUnlinked(rows, i) ==
    rows[i].hash # Hash(rows[i].prev_hash, rows[i].seq, rows[i].data)

\* What the loop of verify_audit_chain tests of one row.
RowBroken(rows, i) ==
    \/ rows[i].seq # i
    \/ rows[i].prev_hash # ExpectedPrev(rows, i)
    \/ rows[i].hash # Hash(rows[i].prev_hash, rows[i].seq, rows[i].data)

Broken(rows) == {i \in 1..Len(rows) : RowBroken(rows, i)}

\* AuditVerification::Ok.
VerifyOk(rows) == Broken(rows) = {}

\* AuditVerification::Broken.at_seq, when there is one: the loop stops at the first.
BrokenAt(rows) ==
    rows[CHOOSE i \in Broken(rows) : \A j \in Broken(rows) : i <= j].seq

\* The rows at the positions in keep, in their order.
Place(keep, k) == Cardinality({j \in keep : j <= k})
Kept(rows, keep) ==
    [i \in 1..Cardinality(keep) |-> rows[CHOOSE k \in keep : Place(keep, k) = i]]

--------------------------------------------------------------------------------
(* append_audit *)

Init ==
    /\ log = <<>>
    /\ txn = [p \in Process |-> NoTxn]
    /\ written = <<>>

\* begin, then SELECT ... ORDER BY seq DESC LIMIT 1 under a SHARED lock.
ReadLast(p) ==
    /\ txn[p].pc = "idle"
    /\ txn' = [txn EXCEPT ![p] =
                 [pc |-> "read",
                  seq |-> IF log = <<>> THEN 1 ELSE log[Len(log)].seq + 1,
                  prev |-> ExpectedPrev(log, Len(log) + 1)]]
    /\ UNCHANGED <<log, written>>

\* INSERT takes the RESERVED lock ...
Insert(p) ==
    /\ txn[p].pc = "read"
    /\ \A q \in Process : txn[q].pc # "inserted"
    /\ txn' = [txn EXCEPT ![p].pc = "inserted"]
    /\ UNCHANGED <<log, written>>

\* Mutant: a commit that does not wait for the readers.
MutCommit(p) ==
    /\ txn[p].pc = "inserted"
    /\ Len(written) < MaxRows
    /\ \E d \in Data : LET row == Row(txn[p].seq, txn[p].prev, d)
                       IN  log' = Append(log, row) /\ written' = Append(written, row)
    /\ txn' = [txn EXCEPT ![p] = NoTxn]

\* ... and COMMIT waits until nobody else reads.
Commit(p) ==
    /\ txn[p].pc = "inserted"
    /\ \A q \in Process \ {p} : txn[q].pc # "read"
    /\ Len(written) < MaxRows
    /\ \E d \in Data : LET row == Row(txn[p].seq, txn[p].prev, d)
                       IN  log' = Append(log, row) /\ written' = Append(written, row)
    /\ txn' = [txn EXCEPT ![p] = NoTxn]

\* SQLITE_BUSY, any other database error, or the process dying: rolled back.
Rollback(p) ==
    /\ txn[p].pc # "idle"
    /\ txn' = [txn EXCEPT ![p] = NoTxn]
    /\ UNCHANGED <<log, written>>

AppendAudit(p) == ReadLast(p) \/ Insert(p) \/ Commit(p) \/ Rollback(p)

Next == \E p \in Process : AppendAudit(p)

Spec == Init /\ [][Next]_vars

--------------------------------------------------------------------------------
(* Properties *)

\* However the transactions of several processes interleave, collide and fail, the
\* table verifies and holds exactly the rows that were committed.
ChainVerifies == VerifyOk(log) /\ log = written

\* The table with its rows' data overwritten behind the store's back.
Edited(rows, data) == [i \in 1..Len(rows) |-> [rows[i] EXCEPT !.data = data[i]]]

\* Whichever rows of a table the store wrote are edited, verify_audit_chain finds it,
\* and the row it reports is the first edited one.
EditsPinpointed ==
    \A data \in [1..Len(log) -> Data] :
      LET rows == Edited(log, data)
          edited == {i \in 1..Len(log) : rows[i] # log[i]}
      IN  /\ VerifyOk(rows) <=> edited = {}
          /\ edited # {} => /\ BrokenAt(rows) \in edited
                            /\ \A i \in edited : BrokenAt(rows) <= i

\* Whichever rows are deleted (all but those in keep), verification finds it and reports
\* the row after the first gap, unless all it deletes is the end of the table: a cut tail
\* verifies, although the crate's header promises that deleting any row breaks the chain.
GapsDetected ==
    \A keep \in SUBSET (1..Len(log)) :
      LET rows == Kept(log, keep)
          moved == {i \in keep : \E j \in 1..i : j \notin keep}
      IN  /\ VerifyOk(rows) <=> moved = {}
          /\ moved # {} => BrokenAt(rows) = Min(moved)
================================================================================
