---------------------------- MODULE AuditLogProofs ----------------------------
(***************************************************************************)
(* The audit chain verifies however many processes write it.  Hashes have  *)
(* no set of their own (they nest), so the typing facts say that there is  *)
(* some set the rows, and the hashes read, belong to.                      *)
(***************************************************************************)
EXTENDS EventStream, FiniteSetTheorems, SequenceTheorems, WellFoundedInduction, TLAPS

\* Types: rows and hashes belong to some set.
PC == {"idle", "read", "inserted"}

LogIsSeq == \E S : log \in Seq(S)
TxnTyped == \E T : txn \in [Process -> [pc : PC, seq : Nat, prev : T]]

\* A transaction that has read still has the last row in front of it: SQLite's locks
\* keep everybody else from committing.
ReadIsCurrent ==
    \A p \in Process : txn[p].pc # "idle" =>
        /\ txn[p].seq = Len(log) + 1
        /\ txn[p].prev = ExpectedPrev(log, Len(log) + 1)

\* At most one transaction has inserted.
OneWriter ==
    \A p, q \in Process : txn[p].pc = "inserted" /\ txn[q].pc = "inserted" => p = q

\* No committed row is broken.
RowsLinked == \A i \in 1..Len(log) : ~RowBroken(log, i)

\* VerifyOk(log) alone is not inductive: a transaction in progress must be about to
\* insert the row the chain needs next.
IInv ==
    /\ LogIsSeq
    /\ TxnTyped
    /\ ReadIsCurrent
    /\ OneWriter
    /\ RowsLinked
    /\ log = written

--------------------------------------------------------------------------------

\* append_audit's row extends a verifying chain to a verifying chain.
LEMMA AppendKeepsChain ==
    ASSUME NEW S, NEW rows \in Seq(S), NEW d,
           \A i \in 1..Len(rows) : ~RowBroken(rows, i),
           NEW row, row = Row(Len(rows) + 1, ExpectedPrev(rows, Len(rows) + 1), d)
    PROVE  \A i \in 1..Len(Append(rows, row)) : ~RowBroken(Append(rows, row), i)
<1> DEFINE new == Append(rows, row)
<1>1. /\ rows \in Seq(S \cup {row}) /\ row \in S \cup {row}
      /\ Len(new) = Len(rows) + 1
      /\ new[Len(rows) + 1] = row
      /\ \A i \in 1..Len(rows) : new[i] = rows[i]
  <2>1. rows \in Seq(S \cup {row})
    OBVIOUS
  <2> QED
    BY <2>1
<1> SUFFICES ASSUME NEW i \in 1..Len(new) PROVE ~RowBroken(new, i)
  OBVIOUS
<1>2. CASE i \in 1..Len(rows)
  <2>1. ~RowBroken(rows, i)
    BY <1>2
  <2>2. new[i] = rows[i] /\ (i # 1 => new[i - 1] = rows[i - 1])
    BY <1>1, <1>2
  <2> QED
    BY <2>1, <2>2 DEF RowBroken, ExpectedPrev
<1>3. CASE i = Len(rows) + 1
  <2>1. new[i] = row /\ ExpectedPrev(new, i) = ExpectedPrev(rows, i)
    BY <1>1, <1>3 DEF ExpectedPrev
  <2>2. /\ row.seq = i
        /\ row.prev_hash = ExpectedPrev(rows, i)
        /\ row.hash = Hash(row.prev_hash, row.seq, row.data)
    BY <1>3 DEF Row
  <2> HIDE DEF new
  <2> QED
    BY <2>1, <2>2 DEF RowBroken
<1> QED
  BY <1>1, <1>2, <1>3

\* The empty table satisfies the invariant.
LEMMA Initially == Init => IInv
<1> SUFFICES ASSUME Init PROVE IInv
  OBVIOUS
<1>1. log \in Seq({}) /\ Len(log) = 0
  BY DEF Init
<1>2. txn \in [Process -> [pc : PC, seq : Nat, prev : {Genesis}]]
  BY DEF Init, NoTxn, PC
<1>3. \A p \in Process : txn[p].pc = "idle"
  BY DEF Init, NoTxn
<1>4. LogIsSeq /\ TxnTyped
  BY <1>1, <1>2, Zenon DEF LogIsSeq, TxnTyped
<1>5. ReadIsCurrent /\ OneWriter /\ RowsLinked
  BY <1>1, <1>3 DEF ReadIsCurrent, OneWriter, RowsLinked
<1> QED
  BY <1>4, <1>5 DEF Init, IInv

\* Every step of every transaction preserves the invariant.
LEMMA Inductive == IInv /\ [Next]_vars => IInv'
<1> SUFFICES ASSUME IInv, [Next]_vars PROVE IInv'
  OBVIOUS
<1> PICK S : log \in Seq(S)
  BY DEF IInv, LogIsSeq
<1> PICK T : txn \in [Process -> [pc : PC, seq : Nat, prev : T]]
  BY DEF IInv, TxnTyped
<1>1. ASSUME NEW p \in Process, ReadLast(p) PROVE IInv'
  <2> DEFINE new == [pc |-> "read", seq |-> IF log = <<>> THEN 1 ELSE log[Len(log)].seq + 1,
                     prev |-> ExpectedPrev(log, Len(log) + 1)]
  <2>1. new.seq = Len(log) + 1
    <3>1. log # <<>> => Len(log) \in 1..Len(log)
      OBVIOUS
    <3>2. log # <<>> => log[Len(log)].seq = Len(log)
      BY <3>1 DEF IInv, RowsLinked, RowBroken
    <3> QED
      BY <3>2
  <2>2. new \in [pc : PC, seq : Nat, prev : T \cup {new.prev}]
    BY <2>1 DEF PC
  <2>3. txn' \in [Process -> [pc : PC, seq : Nat, prev : T \cup {new.prev}]]
    BY <1>1, <2>2 DEF ReadLast
  <2>4. txn'[p] = new /\ \A q \in Process \ {p} : txn'[q] = txn[q]
    BY <1>1 DEF ReadLast
  <2>5. ReadIsCurrent' /\ OneWriter'
    BY <1>1, <2>1, <2>4 DEF IInv, ReadIsCurrent, OneWriter, ReadLast
  <2> QED
    BY <1>1, <2>3, <2>5 DEF IInv, LogIsSeq, TxnTyped, RowsLinked, ReadLast
<1>2. ASSUME NEW p \in Process, Insert(p) PROVE IInv'
  <2>1. txn' \in [Process -> [pc : PC, seq : Nat, prev : T]]
    BY <1>2 DEF Insert, PC
  <2>2. /\ txn'[p] = [txn[p] EXCEPT !.pc = "inserted"]
        /\ \A q \in Process \ {p} : txn'[q] = txn[q]
    BY <1>2 DEF Insert
  <2>3. ReadIsCurrent' /\ OneWriter'
    BY <1>2, <2>2 DEF IInv, ReadIsCurrent, OneWriter, Insert
  <2> QED
    BY <1>2, <2>1, <2>3 DEF IInv, LogIsSeq, TxnTyped, RowsLinked, Insert
<1>3. ASSUME NEW p \in Process, Commit(p) PROVE IInv'
  <2> PICK d \in Data : LET row == Row(txn[p].seq, txn[p].prev, d)
                        IN  log' = Append(log, row) /\ written' = Append(written, row)
    BY <1>3 DEF Commit
  <2> DEFINE row == Row(Len(log) + 1, ExpectedPrev(log, Len(log) + 1), d)
  <2>1. log' = Append(log, row) /\ written' = Append(written, row)
    BY <1>3 DEF IInv, ReadIsCurrent, Commit
  <2>2. RowsLinked'
    BY <2>1, AppendKeepsChain DEF IInv, RowsLinked
  <2>3. log' \in Seq(S \cup {row})
    <3>1. log \in Seq(S \cup {row})
      OBVIOUS
    <3> HIDE DEF row
    <3> QED
      BY <2>1, <3>1
  <2>4. txn' \in [Process -> [pc : PC, seq : Nat, prev : T \cup {Genesis}]]
    BY <1>3 DEF Commit, NoTxn, PC
  <2>5. \A q \in Process : txn'[q].pc = "idle"
    BY <1>3 DEF IInv, OneWriter, Commit, NoTxn, PC
  <2> QED
    BY <2>1, <2>2, <2>3, <2>4, <2>5 DEF IInv, LogIsSeq, TxnTyped, ReadIsCurrent, OneWriter
<1>4. ASSUME NEW p \in Process, Rollback(p) PROVE IInv'
  <2>1. txn' \in [Process -> [pc : PC, seq : Nat, prev : T \cup {Genesis}]]
    BY <1>4 DEF Rollback, NoTxn, PC
  <2>2. txn'[p].pc = "idle" /\ \A q \in Process \ {p} : txn'[q] = txn[q]
    BY <1>4 DEF Rollback, NoTxn
  <2>3. ReadIsCurrent' /\ OneWriter'
    BY <1>4, <2>2 DEF IInv, ReadIsCurrent, OneWriter, Rollback
  <2> QED
    BY <1>4, <2>1, <2>3 DEF IInv, LogIsSeq, TxnTyped, RowsLinked, Rollback
<1>5. CASE UNCHANGED vars
  BY <1>5 DEF vars, IInv, LogIsSeq, TxnTyped, ReadIsCurrent, OneWriter, RowsLinked
<1> QED
  BY <1>1, <1>2, <1>3, <1>4, <1>5 DEF Next, AppendAudit

\* Whatever transactions interleave, collide and fail, and for any number of
\* processes and rows, verify_audit_chain answers Ok and the table holds exactly
\* the committed rows.
THEOREM ChainAlwaysVerifies == Spec => []ChainVerifies
<1>1. IInv => ChainVerifies
  BY DEF IInv, RowsLinked, ChainVerifies, VerifyOk, Broken
<1> QED
  BY <1>1, Initially, Inductive, PTL DEF Spec

--------------------------------------------------------------------------------
(* What verify_audit_chain makes of rows edited behind the store's back. *)

\* A row of the table is made of nothing but its place, the row before it and its data.
RowsMade == \A i \in 1..Len(log) : log[i] = Row(i, ExpectedPrev(log, i), log[i].data)

\* A set of positions has a first.
LEMMA FirstOf ==
    ASSUME NEW I \in SUBSET Nat, I # {}
    PROVE  \E i \in I : \A j \in I : i <= j
<1>1. PICK i \in I : \A j \in I : <<j, i>> \notin OpToRel(<, Nat)
  BY WFMin, NatLessThanWellFounded
<1>2. \A j \in I : ~(j < i)
  BY <1>1 DEF OpToRel
<1> QED
  BY <1>2

\* append_audit makes every row.
LEMMA MadeByAppend == IInv /\ RowsMade /\ [Next]_vars => RowsMade'
<1> SUFFICES ASSUME IInv, RowsMade, [Next]_vars PROVE RowsMade'
  OBVIOUS
<1> PICK S : log \in Seq(S)
  BY DEF IInv, LogIsSeq
<1>1. ASSUME NEW p \in Process, Commit(p) PROVE RowsMade'
  <2> PICK d \in Data : LET row == Row(txn[p].seq, txn[p].prev, d)
                        IN  log' = Append(log, row) /\ written' = Append(written, row)
    BY <1>1 DEF Commit
  <2> DEFINE row == Row(Len(log) + 1, ExpectedPrev(log, Len(log) + 1), d)
  <2>1. log' = Append(log, row)
    BY <1>1 DEF IInv, ReadIsCurrent, Commit
  <2>2. row.data = d
    BY DEF Row
  <2>3. row = Row(Len(log) + 1, ExpectedPrev(log, Len(log) + 1), row.data)
    BY <2>2
  <2> HIDE DEF row
  <2>4. log \in Seq(S \cup {row})
    OBVIOUS
  <2>5. /\ Len(log') = Len(log) + 1 /\ log'[Len(log) + 1] = row
        /\ \A i \in 1..Len(log) : log'[i] = log[i]
    BY <2>1, <2>4
  <2>6. \A i \in 1..(Len(log) + 1) : ExpectedPrev(log', i) = ExpectedPrev(log, i)
    BY <2>4, <2>5 DEF ExpectedPrev
  <2>7. ASSUME NEW i \in 1..Len(log') PROVE log'[i] = Row(i, ExpectedPrev(log', i), log'[i].data)
    <3>1. CASE i \in 1..Len(log)
      BY <2>4, <2>5, <2>6, <3>1 DEF RowsMade
    <3>2. CASE i = Len(log) + 1
      BY <2>3, <2>4, <2>5, <2>6, <3>2
    <3> QED
      BY <2>4, <2>5, <3>1, <3>2
  <2> QED
    BY <2>7 DEF RowsMade
<1>2. CASE log' = log
  BY <1>2 DEF RowsMade, ExpectedPrev
<1> QED
  BY <1>1, <1>2 DEF Next, AppendAudit, ReadLast, Insert, Rollback, vars

\* Of a row the store made, verification recomputes the hash: an edited row is broken,
\* and a row that was not edited is not, whatever was edited before it.
LEMMA EditedIsBroken ==
    ASSUME LogIsSeq, RowsMade, NEW data \in [1..Len(log) -> Data],
           NEW rows, rows = Edited(log, data), NEW i \in 1..Len(log)
    PROVE  /\ Len(rows) = Len(log) /\ rows[i].seq = i
           /\ RowBroken(rows, i) <=> rows[i] # log[i]
<1>0. PICK S : log \in Seq(S)
  BY DEF LogIsSeq
<1>1. rows = [k \in 1..Len(log) |-> [log[k] EXCEPT !.data = data[k]]] /\ Len(log) \in Nat
  BY <1>0 DEF Edited
<1>2. Len(rows) = Len(log)
  BY <1>1
<1>3. ASSUME NEW k \in 1..Len(log)
      PROVE  /\ rows[k].hash = log[k].hash /\ rows[k].seq = k
             /\ rows[k].prev_hash = ExpectedPrev(log, k)
             /\ log[k].hash = Hash(ExpectedPrev(log, k), k, log[k].data)
             /\ rows[k].data = data[k]
             /\ rows[k] = log[k] <=> data[k] = log[k].data
  <2> DEFINE prev == ExpectedPrev(log, k)
             old == log[k].data
             new == data[k]
  <2>1. log[k] = Row(k, prev, old)
    BY DEF RowsMade
  <2>2. rows[k] = [log[k] EXCEPT !.data = new]
    BY <1>1
  <2> HIDE DEF prev, old, new
  <2>3. log[k] = [seq |-> k, data |-> old, prev_hash |-> prev, hash |-> Hash(prev, k, old)]
    BY <2>1 DEF Row
  <2>4. rows[k] = [seq |-> k, data |-> new, prev_hash |-> prev, hash |-> Hash(prev, k, old)]
    BY <2>2, <2>3
  <2>5. rows[k] = log[k] <=> new = old
    BY <2>3, <2>4
  <2> QED
    BY <2>3, <2>4, <2>5 DEF prev, old, new
<1>4. ExpectedPrev(rows, i) = ExpectedPrev(log, i)
  BY <1>1, <1>3 DEF ExpectedPrev
<1>5. RowBroken(rows, i) <=>
        Hash(ExpectedPrev(log, i), i, log[i].data) # Hash(ExpectedPrev(log, i), i, data[i])
  BY <1>3, <1>4 DEF RowBroken
<1>6. Hash(ExpectedPrev(log, i), i, log[i].data) # Hash(ExpectedPrev(log, i), i, data[i])
        <=> data[i] # log[i].data
  BY DEF Hash
<1> QED
  BY <1>2, <1>3, <1>5, <1>6

\* verify_audit_chain reports exactly the first edited row, of every table the store can
\* have written and for every way of editing it.
THEOREM EditsAlwaysPinpointed == Spec => []EditsPinpointed
<1>1. LogIsSeq /\ RowsMade => EditsPinpointed
  <2> SUFFICES ASSUME LogIsSeq, RowsMade, NEW data \in [1..Len(log) -> Data]
               PROVE  LET rows == Edited(log, data)
                          edited == {i \in 1..Len(log) : rows[i] # log[i]}
                      IN  /\ VerifyOk(rows) <=> edited = {}
                          /\ edited # {} => /\ BrokenAt(rows) \in edited
                                            /\ \A i \in edited : BrokenAt(rows) <= i
    BY DEF EditsPinpointed
  <2> DEFINE rows == Edited(log, data)
             edited == {i \in 1..Len(log) : rows[i] # log[i]}
  <2>1. \A i \in 1..Len(log) : /\ Len(rows) = Len(log) /\ rows[i].seq = i
                               /\ RowBroken(rows, i) <=> rows[i] # log[i]
    BY EditedIsBroken
  <2>2. PICK S : log \in Seq(S)
    BY DEF LogIsSeq
  <2>3. Len(rows) = Len(log) /\ Len(log) \in Nat
    BY <2>2 DEF Edited
  <2>4. Broken(rows) = edited
    <3> HIDE DEF rows
    <3> QED
      BY <2>1, <2>3 DEF Broken
  <2>5. VerifyOk(rows) <=> edited = {}
    BY <2>4 DEF VerifyOk
  <2>6. ASSUME edited # {}
        PROVE  BrokenAt(rows) \in edited /\ \A i \in edited : BrokenAt(rows) <= i
    <3>1. edited \in SUBSET Nat
      BY <2>3
    <3>2. \E i \in edited : \A j \in edited : i <= j
      BY <2>6, <3>1, FirstOf
    <3> DEFINE first == CHOOSE i \in edited : \A j \in edited : i <= j
    <3>3. first \in edited /\ \A j \in edited : first <= j
      <4> HIDE DEF edited
      <4> QED
        BY <3>2
    <3>4. BrokenAt(rows) = rows[first].seq
      BY <2>4 DEF BrokenAt
    <3>5. first \in 1..Len(log)
      BY <3>3
    <3> HIDE DEF first, rows
    <3>6. BrokenAt(rows) = first
      BY <2>1, <3>4, <3>5
    <3> QED
      BY <3>3, <3>6
  <2> QED
    BY <2>5, <2>6
<1>2. Init => RowsMade
  BY DEF Init, RowsMade
<1>3. IInv => LogIsSeq
  BY DEF IInv
<1> QED
  BY <1>1, <1>2, <1>3, MadeByAppend, Initially, Inductive, PTL DEF Spec

--------------------------------------------------------------------------------
(* What verify_audit_chain makes of a table with rows deleted. *)

\* A set of positions in the table has a size, and so have its parts.
LEMMA PartsFinite ==
    ASSUME NEW n \in Nat, NEW keep \in SUBSET (1..n), NEW part \in SUBSET keep
    PROVE  IsFiniteSet(part) /\ Cardinality(part) \in Nat /\ Cardinality(part) <= Cardinality(keep)
           /\ Cardinality(keep) \in Nat /\ (Cardinality(part) = Cardinality(keep) => part = keep)
<1>1. IsFiniteSet(1..n)
  BY FS_Interval
<1>2. IsFiniteSet(keep)
  BY <1>1, FS_Subset
<1>3. /\ IsFiniteSet(part) /\ Cardinality(part) <= Cardinality(keep)
      /\ Cardinality(keep) = Cardinality(part) => keep = part
  BY <1>2, FS_Subset
<1> QED
  BY <1>2, <1>3, FS_CardinalityType

\* A bounded set of positions has a last.
LEMMA LastOf ==
    ASSUME NEW n \in Nat, NEW I \in SUBSET (1..n), I # {}
    PROVE  \E i \in I : \A j \in I : j <= i
<1> DEFINE J == {n - i : i \in I}
<1>0. \A i \in I : i \in Nat /\ i <= n
  OBVIOUS
<1>1. J \in SUBSET Nat /\ J # {}
  <2>1. \A i \in I : n - i \in Nat
    BY <1>0
  <2> QED
    BY <2>1
<1>2. PICK a \in J : \A b \in J : a <= b
  <2> HIDE DEF J
  <2> QED
    BY <1>1, FirstOf
<1>3. PICK i \in I : a = n - i
  OBVIOUS
<1>4. \A j \in I : n - i <= n - j
  BY <1>2, <1>3
<1>5. \A j \in I : j <= i
  BY <1>0, <1>4
<1> QED
  BY <1>5

\* Places are counted from 1 and grow with the position, and no place is past it.
LEMMA PlaceFacts ==
    ASSUME NEW n \in Nat, NEW keep \in SUBSET (1..n), NEW k \in keep
    PROVE  /\ k \in Nat /\ Place(keep, k) \in 1..Cardinality(keep) /\ Cardinality(keep) \in Nat
           /\ Place(keep, k) \in Nat
           /\ Place(keep, k) <= k
           /\ Place(keep, k) = k => 1..k \subseteq keep
           /\ \A m \in keep : k < m => Place(keep, k) < Place(keep, m)
           /\ 1..k \subseteq keep => Place(keep, k) = k
<1> DEFINE upto(m) == {j \in keep : j <= m}
<1>0. /\ \A m : Place(keep, m) = Cardinality(upto(m))
      /\ \A m : upto(m) \in SUBSET keep
      /\ \A m \in keep : m \in Nat /\ m >= 1 /\ m <= n
  BY DEF Place
<1>1. \A m : IsFiniteSet(upto(m)) /\ Cardinality(upto(m)) \in Nat /\ Cardinality(upto(m)) <= Cardinality(keep)
  BY <1>0, PartsFinite
<1>2. Cardinality(keep) \in Nat
  BY PartsFinite
<1>3. k \in upto(k) /\ upto(k) \in SUBSET (1..k)
  <2>1. k \in upto(k)
    BY <1>0
  <2>2. \A j \in upto(k) : j \in 1..k
    BY <1>0
  <2> QED
    BY <2>1, <2>2
<1>4. IsFiniteSet(1..k) /\ Cardinality(1..k) = k
  BY <1>0, FS_Interval
<1> HIDE DEF upto
<1>5. Cardinality(upto(k)) # 0
  BY <1>1, <1>3, FS_EmptySet
<1>6. Cardinality(upto(k)) <= k /\ (Cardinality(upto(k)) = k => upto(k) = 1..k)
  BY <1>3, <1>4, FS_Subset
<1>7. 1..k \subseteq keep => upto(k) = 1..k
  BY <1>0, <1>3 DEF upto
<1>8. ASSUME NEW m \in keep, k < m PROVE Place(keep, k) < Place(keep, m)
  <2>1. upto(k) \subseteq upto(m) /\ m \in upto(m) /\ m \notin upto(k)
    <3>1. \A j \in keep : j <= k => j <= m
      BY <1>0, <1>8
    <3>2. m \in Nat /\ k \in Nat /\ m <= m /\ ~(m <= k)
      BY <1>0, <1>8
    <3> QED
      BY <1>8, <3>1, <3>2 DEF upto
  <2>2. upto(k) \in SUBSET upto(m) /\ upto(k) # upto(m)
    BY <2>1
  <2>3. Cardinality(upto(k)) <= Cardinality(upto(m)) /\ Cardinality(upto(k)) # Cardinality(upto(m))
    BY <1>1, <2>2, FS_Subset
  <2> QED
    BY <1>0, <1>1, <2>3
<1>9. upto(k) \subseteq keep
  BY <1>0
<1> QED
  BY <1>0, <1>1, <1>2, <1>4, <1>5, <1>6, <1>7, <1>8, <1>9

\* Every place is taken, by one row.
LEMMA PlaceTaken ==
    ASSUME NEW n \in Nat, NEW keep \in SUBSET (1..n), NEW i \in 1..Cardinality(keep)
    PROVE  \E k \in keep : Place(keep, k) = i
<1>0. Cardinality(keep) \in Nat /\ i \in Nat /\ i >= 1 /\ i <= Cardinality(keep)
  <2>1. Cardinality(keep) \in Nat
    BY PartsFinite
  <2> QED
    BY <2>1
<1>1. \A k \in keep : k \in Nat /\ k \in 1..n
  OBVIOUS
<1>2. keep # {}
  BY <1>0, FS_EmptySet
<1> DEFINE far == {k \in keep : Place(keep, k) >= i}
<1>3. far # {}
  <2>1. PICK m \in keep : \A j \in keep : j <= m
    BY <1>2, LastOf
  <2>2. {j \in keep : j <= m} = keep
    BY <2>1
  <2>3. Place(keep, m) = Cardinality(keep)
    BY <2>2 DEF Place
  <2> QED
    BY <1>0, <2>3
<1>4. PICK k \in far : \A j \in far : k <= j
  <2>1. far \in SUBSET Nat
    BY <1>1
  <2> HIDE DEF far
  <2> QED
    BY <1>3, <2>1, FirstOf
<1>5. k \in keep /\ k \in Nat /\ Place(keep, k) >= i /\ Place(keep, k) \in Nat
  BY PlaceFacts
<1> DEFINE before == {j \in keep : j < k}
           upto == {j \in keep : j <= k}
<1>6. upto = before \cup {k} /\ k \notin before /\ before \in SUBSET keep /\ upto \in SUBSET keep
  <2>1. \A j \in keep : j <= k <=> j < k \/ j = k
    BY <1>1, <1>5
  <2>2. ~(k < k)
    BY <1>5
  <2> QED
    BY <1>5, <2>1, <2>2
<1>7. IsFiniteSet(before) /\ Cardinality(before) \in Nat
  <2> HIDE DEF before
  <2> QED
    BY <1>6, PartsFinite
<1>8. Place(keep, k) = Cardinality(before) + 1
  <2>1. Place(keep, k) = Cardinality(before \cup {k})
    BY <1>6 DEF Place
  <2> HIDE DEF before
  <2> QED
    BY <1>6, <1>7, <2>1, FS_AddElement
<1>9. CASE before = {}
  <2>1. Cardinality(before) = 0
    <3> HIDE DEF before
    <3> QED
      BY <1>9, FS_EmptySet
  <2>2. Place(keep, k) = 1
    BY <1>8, <2>1
  <2> QED
    BY <1>0, <1>5, <2>2
<1>10. CASE before # {}
  <2>1. before \in SUBSET (1..n)
    OBVIOUS
  <2>2. PICK m \in before : \A j \in before : j <= m
    <3> HIDE DEF before
    <3> QED
      BY <1>10, <2>1, LastOf
  <2>3. m \in keep /\ m < k /\ m \in Nat
    BY <2>2
  <2>4. {j \in keep : j <= m} = before
    <3>1. ASSUME NEW j \in keep, j <= m PROVE j < k
      BY <1>1, <1>5, <2>3, <3>1
    <3>2. ASSUME NEW j \in keep, j < k PROVE j <= m
      BY <2>2, <3>2
    <3> QED
      BY <3>1, <3>2
  <2>5. Place(keep, m) = Cardinality(before)
    BY <2>4 DEF Place
  <2>6. m \notin far
    BY <1>4, <1>5, <2>3
  <2>7. Cardinality(before) < i
    <3> HIDE DEF before
    <3> QED
      BY <1>0, <1>7, <2>3, <2>5, <2>6
  <2>8. Place(keep, k) = i
    <3> HIDE DEF before
    <3> QED
      BY <1>0, <1>5, <1>7, <1>8, <2>7
  <2> QED
    BY <1>5, <2>8
<1> QED
  BY <1>9, <1>10

\* The row kept at a place.
At(keep, i) == CHOOSE k \in keep : Place(keep, k) = i

\* Kept rows stand at their places, in order, and never after where they were.
LEMMA AtFacts ==
    ASSUME NEW n \in Nat, NEW keep \in SUBSET (1..n)
    PROVE  /\ \A i \in 1..Cardinality(keep) : At(keep, i) \in keep /\ Place(keep, At(keep, i)) = i
           /\ \A k \in keep : At(keep, Place(keep, k)) = k
<1>1. ASSUME NEW i \in 1..Cardinality(keep) PROVE At(keep, i) \in keep /\ Place(keep, At(keep, i)) = i
  <2>1. \E k \in keep : Place(keep, k) = i
    BY PlaceTaken
  <2> QED
    BY <2>1 DEF At
<1>2. ASSUME NEW k \in keep PROVE At(keep, Place(keep, k)) = k
  <2> DEFINE a == At(keep, Place(keep, k))
  <2>1. Place(keep, k) \in 1..Cardinality(keep)
    BY PlaceFacts
  <2>2. a \in keep /\ Place(keep, a) = Place(keep, k)
    BY <1>1, <2>1
  <2> HIDE DEF a
  <2>3. a \in Nat /\ k \in Nat /\ Place(keep, k) \in Nat
    BY <2>2, PlaceFacts
  <2>4. a < k => Place(keep, a) < Place(keep, k)
    BY <2>2, PlaceFacts
  <2>5. k < a => Place(keep, k) < Place(keep, a)
    BY <2>2, PlaceFacts
  <2>6. a = k
    BY <2>2, <2>3, <2>4, <2>5
  <2> QED
    BY <2>6 DEF a
<1> QED
  BY <1>1, <1>2

\* Verification finds broken exactly the rows that are not where they were.
LEMMA MovedIsBroken ==
    ASSUME LogIsSeq, RowsLinked, NEW keep \in SUBSET (1..Len(log)), NEW rows, rows = Kept(log, keep)
    PROVE  /\ Len(rows) = Cardinality(keep) /\ Cardinality(keep) \in Nat
           /\ \A i \in 1..Cardinality(keep) : /\ rows[i].seq = At(keep, i)
                                              /\ RowBroken(rows, i) <=> At(keep, i) # i
<1>0. PICK S : log \in Seq(S)
  BY DEF LogIsSeq
<1> DEFINE n == Len(log)
           c == Cardinality(keep)
<1>1. n \in Nat /\ keep \in SUBSET (1..n) /\ c \in Nat
  <2>1. n \in Nat /\ keep \in SUBSET (1..n)
    BY <1>0
  <2> HIDE DEF n
  <2> QED
    BY <2>1, PartsFinite
<1>2. rows = [i \in 1..c |-> log[At(keep, i)]]
  BY DEF Kept, At
<1> HIDE DEF c
<1>3. Len(rows) = c
  BY <1>1, <1>2
<1>4. \A i \in 1..c : At(keep, i) \in keep /\ Place(keep, At(keep, i)) = i /\ At(keep, i) \in 1..n
  <2> HIDE DEF n
  <2> QED
    BY <1>1, AtFacts DEF c
<1>5. \A k \in 1..n : log[k].seq = k
  BY DEF RowsLinked, RowBroken
<1>6. ASSUME NEW i \in 1..c PROVE rows[i].seq = At(keep, i)
  BY <1>2, <1>4, <1>5
<1>7. ASSUME NEW i \in 1..c, At(keep, i) # i PROVE RowBroken(rows, i)
  BY <1>6, <1>7 DEF RowBroken
<1>8. ASSUME NEW i \in 1..c, At(keep, i) = i PROVE ~RowBroken(rows, i)
  <2>1. i \in keep /\ Place(keep, i) = i /\ i \in 1..n
    BY <1>4, <1>8
  <2>2. 1..i \subseteq keep
    <3> HIDE DEF n
    <3> QED
      BY <1>1, <2>1, PlaceFacts
  <2>3. rows[i] = log[i] /\ i \in Nat
    BY <1>1, <1>2, <1>8
  <2>4. ExpectedPrev(rows, i) = ExpectedPrev(log, i)
    <3>1. CASE i = 1
      BY <3>1 DEF ExpectedPrev
    <3>2. CASE i # 1
      <4>1. i - 1 \in 1..i /\ i - 1 \in 1..c /\ 1..(i - 1) \subseteq 1..i
        BY <1>1, <3>2
      <4>2. i - 1 \in keep /\ 1..(i - 1) \subseteq keep
        BY <2>2, <4>1
      <4>3. Place(keep, i - 1) = i - 1
        <5> HIDE DEF n
        <5> QED
          BY <1>1, <4>2, PlaceFacts
      <4>4. At(keep, i - 1) = i - 1
        <5>1. At(keep, Place(keep, i - 1)) = i - 1
          <6> HIDE DEF n
          <6> QED
            BY <1>1, <4>2, AtFacts
        <5> QED
          BY <4>3, <5>1
      <4>5. rows[i - 1] = log[i - 1]
        BY <1>2, <4>1, <4>4
      <4> QED
        BY <3>2, <4>5 DEF ExpectedPrev
    <3> QED
      BY <3>1, <3>2
  <2>5. ~RowBroken(log, i)
    BY <2>1 DEF RowsLinked
  <2> QED
    BY <2>3, <2>4, <2>5 DEF RowBroken
<1> QED
  BY <1>1, <1>3, <1>6, <1>7, <1>8 DEF c

\* verify_audit_chain finds every deletion that leaves a row after it, and reports that
\* row; what it cannot find is a cut tail.
THEOREM GapsAlwaysDetected == Spec => []GapsDetected
<1>1. LogIsSeq /\ RowsLinked => GapsDetected
  <2> SUFFICES ASSUME LogIsSeq, RowsLinked, NEW keep \in SUBSET (1..Len(log))
               PROVE  LET rows == Kept(log, keep)
                          moved == {i \in keep : \E j \in 1..i : j \notin keep}
                      IN  /\ VerifyOk(rows) <=> moved = {}
                          /\ moved # {} => BrokenAt(rows) = Min(moved)
    BY DEF GapsDetected
  <2> DEFINE rows == Kept(log, keep)
             moved == {i \in keep : \E j \in 1..i : j \notin keep}
             n == Len(log)
             c == Cardinality(keep)
             off == {i \in 1..c : At(keep, i) # i}
  <2>0. PICK S : log \in Seq(S)
    BY DEF LogIsSeq
  <2>1. n \in Nat /\ keep \in SUBSET (1..n) /\ \A k \in keep : k \in Nat
    BY <2>0
  <2>2. /\ Len(rows) = c /\ c \in Nat
        /\ \A i \in 1..c : rows[i].seq = At(keep, i) /\ (RowBroken(rows, i) <=> At(keep, i) # i)
    BY MovedIsBroken
  <2> HIDE DEF n, c, rows
  <2>3. Broken(rows) = off
    BY <2>2 DEF Broken
  <2>4. /\ \A i \in 1..c : At(keep, i) \in keep /\ Place(keep, At(keep, i)) = i
        /\ \A k \in keep : At(keep, Place(keep, k)) = k /\ Place(keep, k) \in 1..c
    BY <2>1, AtFacts, PlaceFacts DEF c
  <2>5. \A k \in keep : k \in moved <=> Place(keep, k) # k
    <3> SUFFICES ASSUME NEW k \in keep PROVE k \in moved <=> Place(keep, k) # k
      OBVIOUS
    <3>1. Place(keep, k) = k <=> 1..k \subseteq keep
      BY <2>1, PlaceFacts
    <3> QED
      BY <3>1
  <2>6. \A i \in off : At(keep, i) \in moved
    BY <2>4, <2>5
  <2>7. \A k \in moved : Place(keep, k) \in off
    BY <2>4, <2>5
  <2> HIDE DEF off
  <2>8. VerifyOk(rows) <=> moved = {}
    <3>1. moved = {} <=> off = {}
      <4> HIDE DEF moved
      <4> QED
        BY <2>6, <2>7
    <3> QED
      BY <2>3, <3>1 DEF VerifyOk
  <2>9. moved \in SUBSET keep
    OBVIOUS
  <2> HIDE DEF moved
  <2>10. ASSUME moved # {} PROVE BrokenAt(rows) = Min(moved)
    <3>1. off # {} /\ off \in SUBSET Nat /\ off \subseteq 1..c
      BY <2>2, <2>7, <2>10 DEF off
    <3>2. \E i \in off : \A j \in off : i <= j
      BY <3>1, FirstOf
    <3> DEFINE b == CHOOSE i \in off : \A j \in off : i <= j
               a == At(keep, b)
    <3>3. b \in off /\ \A j \in off : b <= j
      BY <3>2
    <3>4. BrokenAt(rows) = rows[b].seq
      BY <2>3 DEF BrokenAt
    <3> HIDE DEF b
    <3>5. BrokenAt(rows) = a /\ b \in Nat
      BY <2>2, <3>1, <3>3, <3>4
    <3>6. a \in moved /\ Place(keep, a) = b /\ a \in keep /\ a \in Nat
      BY <2>1, <2>4, <2>6, <3>1, <3>3
    <3> HIDE DEF a
    <3>7. ASSUME NEW k \in moved PROVE a <= k
      <4>1. k \in keep /\ k \in Nat /\ Place(keep, k) \in Nat /\ b <= Place(keep, k)
        BY <2>1, <2>7, <2>9, <3>1, <3>3
      <4>2. k < a => Place(keep, k) < b
        BY <2>1, <3>6, <4>1, PlaceFacts
      <4> QED
        BY <3>5, <3>6, <4>1, <4>2
    <3>8. Min(moved) \in moved /\ \A k \in moved : Min(moved) <= k
      BY <3>6, <3>7 DEF Min
    <3>9. Min(moved) \in Nat /\ a <= Min(moved) /\ Min(moved) <= a
      BY <2>1, <2>9, <3>6, <3>7, <3>8
    <3> QED
      BY <3>5, <3>6, <3>9
  <2> QED
    BY <2>8, <2>10 DEF rows, moved
<1>2. IInv => LogIsSeq /\ RowsLinked
  BY DEF IInv
<1> QED
  BY <1>1, <1>2, Initially, Inductive, PTL DEF Spec

--------------------------------------------------------------------------------
(* The event stream over the table. *)

\* The numbers from a to b, as a sequence.
Run(a, b) == [i \in 1..(b - a + 1) |-> a + i - 1]

\* The first row a poll may send.
From == LET tail == IF Len(log) > PollRows THEN Len(log) - PollRows + 1 ELSE 1
        IN  IF tail > last_seq THEN tail ELSE last_seq + 1

\* What was sent is in order and not past the cursor, and the cursor not past the table.
StreamInv ==
    /\ last_seq \in 0..Len(log)
    /\ sent \in Seq(Nat)
    /\ burst \in BOOLEAN
    /\ \A i \in 1..Len(sent) : sent[i] <= last_seq
    /\ \A i, j \in 1..Len(sent) : i < j => sent[i] < sent[j]
    /\ ~burst => sent = Run(1, last_seq)

\* The places in a stretch of positions.
LEMMA StretchPlaces ==
    ASSUME NEW n \in Nat, NEW a \in Nat, a >= 1, a <= n + 1
    PROVE  /\ a..n \in SUBSET (1..n) /\ Cardinality(a..n) = n - a + 1
           /\ \A i \in 1..(n - a + 1) : At(a..n, i) = a + i - 1
<1> DEFINE keep == a..n
<1>1. keep \in SUBSET (1..n)
  OBVIOUS
<1>2. Cardinality(keep) = n - a + 1
  <2>1. Cardinality(a..n) = IF a > n THEN 0 ELSE n - a + 1
    <3>1. a \in Int /\ n \in Int
      OBVIOUS
    <3> QED
      BY ONLY <3>1, FS_Interval
  <2>2. a > n => n - a + 1 = 0
    OBVIOUS
  <2> QED
    BY <2>1, <2>2
<1>3. ASSUME NEW i \in 1..(n - a + 1) PROVE At(keep, i) = a + i - 1
  <2> DEFINE k == a + i - 1
  <2>1. k \in keep /\ k \in Nat /\ a <= k /\ k - a + 1 = i
    OBVIOUS
  <2>2. {j \in keep : j <= k} = a..k
    <3>1. \A j : j \in keep /\ j <= k <=> j \in a..k
      BY <2>1
    <3> QED
      BY <3>1
  <2>3. Place(keep, k) = i
    <3>1. Place(keep, k) = Cardinality(a..k)
      BY <2>2 DEF Place
    <3> HIDE DEF k
    <3>2. Cardinality(a..k) = k - a + 1
      BY <2>1, FS_Interval
    <3> QED
      BY <2>1, <3>1, <3>2
  <2> HIDE DEF k, keep
  <2>4. At(keep, Place(keep, k)) = k
    BY <1>1, <2>1, AtFacts
  <2> QED
    BY <2>3, <2>4 DEF k
<1> QED
  BY <1>1, <1>2, <1>3

\* audit_tail and the filter of the stream: what a poll finds is the stretch of rows
\* from From to the end.
LEMMA FreshIsStretch ==
    ASSUME LogIsSeq, RowsLinked, StreamInv
    PROVE  /\ Seqs(Fresh(AuditTail(log, PollRows), last_seq)) = Run(From, Len(log))
           /\ From \in Nat /\ From >= last_seq + 1 /\ From <= Len(log) + 1
           /\ Len(log) - last_seq <= PollRows => From = last_seq + 1
           /\ Len(log) \in Nat /\ last_seq \in Nat /\ last_seq <= Len(log)
<1>0. PICK S : log \in Seq(S)
  BY DEF LogIsSeq
<1> DEFINE n == Len(log)
           f == IF n > PollRows THEN n - PollRows + 1 ELSE 1
           tail == AuditTail(log, PollRows)
           a == From
<1>1. n \in Nat /\ last_seq \in Nat /\ last_seq <= n /\ PollRows \in Nat /\ PollRows >= 1
  BY <1>0, PollAssumption DEF StreamInv
<1>2. f \in Nat /\ f >= 1 /\ f <= n + 1 /\ (n - last_seq <= PollRows => f <= last_seq + 1)
  <2> HIDE DEF n
  <2> QED
    BY <1>1
<1>3. a = IF f > last_seq THEN f ELSE last_seq + 1
  BY DEF From
<1>4. tail = SubSeq(log, f, n)
  BY DEF AuditTail
<1>5. \A k \in 1..n : log[k].seq = k /\ log[k] \in S
  BY <1>0 DEF RowsLinked, RowBroken
<1> HIDE DEF n, f, a, tail
<1>6. a \in Nat /\ a >= last_seq + 1 /\ a <= n + 1 /\ a >= f /\ (n - last_seq <= PollRows => a = last_seq + 1)
  BY <1>1, <1>2, <1>3
<1>7. Len(tail) = n - f + 1 /\ \A i \in 1..(n - f + 1) : tail[i] = log[f + i - 1]
  <2>1. \A k \in f..n : log[k] \in S
    BY <1>1, <1>2, <1>5
  <2>2. /\ Len(tail) = IF f <= n THEN n - f + 1 ELSE 0
        /\ \A i \in 1..(n - f + 1) : tail[i] = log[f + i - 1]
    BY <1>1, <1>2, <1>4, <2>1, SubSeqProperties
  <2> QED
    BY <1>1, <1>2, <2>2
<1> DEFINE t == n - f + 1
           b == a - f + 1
           sel == {i \in 1..Len(tail) : tail[i].seq > last_seq}
<1>8. t \in Nat /\ b \in Nat /\ b >= 1 /\ b <= t + 1 /\ t - b + 1 = n - a + 1
  BY <1>1, <1>2, <1>6
<1>9. \A i \in 1..t : tail[i].seq = f + i - 1
  <2>1. \A i \in 1..t : f + i - 1 \in 1..n
    BY <1>1, <1>2
  <2> QED
    BY <1>5, <1>7, <2>1
<1>10. sel = b..t
  <2>1. \A i \in 1..t : f + i - 1 > last_seq <=> i >= b
    BY <1>1, <1>2, <1>3
  <2>2. \A i : i \in sel <=> i \in 1..t /\ f + i - 1 > last_seq
    BY <1>7, <1>9
  <2>3. \A i : i \in b..t <=> i \in 1..t /\ i >= b
    BY <1>8
  <2> QED
    BY <2>1, <2>2, <2>3
<1> HIDE DEF t, b, sel
<1>11. Cardinality(sel) = t - b + 1 /\ \A i \in 1..(t - b + 1) : At(sel, i) = b + i - 1
  BY <1>8, <1>10, StretchPlaces
<1> DEFINE fresh == Fresh(tail, last_seq)
           m == t - b + 1
<1>12. fresh = [i \in 1..m |-> tail[At(sel, i)]]
  BY <1>11 DEF Fresh, Kept, At, sel
<1>13. m \in Nat /\ Len(fresh) = m
  <2>1. m \in Nat
    BY <1>8
  <2> HIDE DEF m
  <2> QED
    BY <1>12, <2>1
<1>14. \A i \in 1..m : fresh[i].seq = a + i - 1
  <2> SUFFICES ASSUME NEW i \in 1..m PROVE fresh[i].seq = a + i - 1
    OBVIOUS
  <2>1. fresh[i] = tail[b + i - 1]
    BY <1>11, <1>12
  <2>2. b + i - 1 \in 1..t
    BY <1>8
  <2>3. tail[b + i - 1].seq = f + (b + i - 1) - 1
    BY <1>9, <2>2
  <2>4. f + (b + i - 1) - 1 = a + i - 1
    BY <1>1, <1>2, <1>6, <1>8 DEF b
  <2> QED
    BY <2>1, <2>3, <2>4
<1>15. Seqs(fresh) = Run(a, n)
  <2>1. Seqs(fresh) = [i \in 1..m |-> fresh[i].seq]
    BY <1>13 DEF Seqs
  <2> HIDE DEF fresh
  <2> QED
    BY <1>8, <1>13, <1>14, <2>1 DEF Run
<1> QED
  BY <1>1, <1>6, <1>15 DEF a, n, tail

\* The largest member of a run, or of what is there without it.
LEMMA CursorAfter ==
    ASSUME NEW l \in Nat, NEW a \in Nat, NEW n \in Nat, a >= l + 1, a <= n + 1, l <= n
    PROVE  Max({l} \cup ToSet(Run(a, n))) = IF a <= n THEN n ELSE l
<1> DEFINE T == {l} \cup ToSet(Run(a, n))
           top == IF a <= n THEN n ELSE l
<1>1. DOMAIN Run(a, n) = 1..(n - a + 1) /\ \A i \in 1..(n - a + 1) : Run(a, n)[i] = a + i - 1
  BY DEF Run
<1>2. \A x : x \in T <=> x = l \/ \E i \in 1..(n - a + 1) : x = a + i - 1
  BY <1>1 DEF ToSet
<1>3. \A x \in T : x \in Nat /\ top >= x
  BY <1>2
<1>4. top \in T /\ top \in Nat
  <2>1. CASE a <= n
    <3>1. n - a + 1 \in 1..(n - a + 1) /\ n = a + (n - a + 1) - 1
      BY <2>1
    <3> QED
      BY <1>2, <2>1, <3>1
  <2>2. CASE ~(a <= n)
    BY <1>2, <2>2
  <2> QED
    BY <2>1, <2>2
<1> HIDE DEF T, top
<1>5. Max(T) \in T /\ \A x \in T : Max(T) >= x
  BY <1>3, <1>4 DEF Max
<1>6. Max(T) = top
  <2>1. Max(T) \in Nat /\ top >= Max(T)
    BY <1>3, <1>5
  <2>2. Max(T) >= top
    BY <1>4, <1>5
  <2> QED
    BY <1>4, <2>1, <2>2
<1> QED
  BY <1>6 DEF T, top

\* A poll sends the run that follows what was sent, or skips when it fell behind.
LEMMA PollInOrder ==
    ASSUME LogIsSeq, RowsLinked, StreamInv, Poll
    PROVE  StreamInv'
<1> DEFINE n == Len(log)
           a == From
           r == Run(a, n)
           l == last_seq
<1>1. /\ Seqs(Fresh(AuditTail(log, PollRows), last_seq)) = r
      /\ a \in Nat /\ a >= l + 1 /\ a <= n + 1 /\ (n - l <= PollRows => a = l + 1)
      /\ n \in Nat /\ l \in Nat /\ l <= n
  BY FreshIsStretch
<1>2. /\ last_seq' = Max({l} \cup ToSet(r)) /\ sent' = sent \o r
      /\ burst' = (burst \/ n - l > PollRows) /\ log' = log
  BY <1>1, Zenon DEF Poll, vars
<1> HIDE DEF n, a
<1>3. last_seq' = IF a <= n THEN n ELSE l
  BY <1>1, <1>2, CursorAfter
<1>4. r \in Seq(Nat) /\ Len(r) = n - a + 1 /\ \A i \in 1..Len(r) : r[i] = a + i - 1
  BY <1>1 DEF Run
<1> HIDE DEF r
<1>5. /\ sent' \in Seq(Nat) /\ Len(sent') = Len(sent) + Len(r)
      /\ \A i \in 1..(Len(sent) + Len(r)) :
           sent'[i] = IF i <= Len(sent) THEN sent[i] ELSE r[i - Len(sent)]
  BY <1>2, <1>4, ConcatProperties DEF StreamInv
<1>6. Len(sent) \in Nat /\ Len(r) \in Nat /\ \A i \in 1..Len(sent) : sent[i] \in Nat
  BY <1>4 DEF StreamInv
<1>7. \A i \in 1..Len(sent') : IF i <= Len(sent) THEN sent'[i] = sent[i] /\ i \in 1..Len(sent)
                               ELSE sent'[i] = a + (i - Len(sent)) - 1 /\ i - Len(sent) \in 1..Len(r)
  <2> SUFFICES ASSUME NEW i \in 1..Len(sent')
               PROVE  IF i <= Len(sent) THEN sent'[i] = sent[i] /\ i \in 1..Len(sent)
                      ELSE sent'[i] = a + (i - Len(sent)) - 1 /\ i - Len(sent) \in 1..Len(r)
    OBVIOUS
  <2>1. i \in 1..(Len(sent) + Len(r))
    BY <1>5
  <2>2. CASE i <= Len(sent)
    BY <1>5, <1>6, <2>1, <2>2
  <2>3. CASE ~(i <= Len(sent))
    <3>1. i - Len(sent) \in 1..Len(r)
      BY <1>6, <2>1, <2>3
    <3> QED
      BY <1>4, <1>5, <2>1, <2>3, <3>1
  <2> QED
    BY <2>2, <2>3
<1>8. \A i \in 1..Len(sent') : sent'[i] <= last_seq'
  <2> SUFFICES ASSUME NEW i \in 1..Len(sent') PROVE sent'[i] <= last_seq'
    OBVIOUS
  <2>1. CASE i <= Len(sent)
    <3>1. sent'[i] = sent[i] /\ sent[i] <= l /\ sent[i] \in Nat
      BY <1>6, <1>7, <2>1 DEF StreamInv
    <3> QED
      BY <1>1, <1>3, <3>1
  <2>2. CASE ~(i <= Len(sent))
    <3>1. sent'[i] = a + (i - Len(sent)) - 1 /\ i - Len(sent) \in 1..Len(r)
      BY <1>7, <2>2
    <3> QED
      BY <1>1, <1>3, <1>4, <3>1
  <2> QED
    BY <2>1, <2>2
<1>9. \A i, j \in 1..Len(sent') : i < j => sent'[i] < sent'[j]
  <2> SUFFICES ASSUME NEW i \in 1..Len(sent'), NEW j \in 1..Len(sent'), i < j
               PROVE  sent'[i] < sent'[j]
    OBVIOUS
  <2>1. CASE j <= Len(sent)
    <3>1. i <= Len(sent)
      BY <1>6, <2>1
    <3> QED
      BY <1>7, <2>1, <3>1 DEF StreamInv
  <2>2. CASE ~(j <= Len(sent)) /\ i <= Len(sent)
    <3>1. sent'[i] = sent[i] /\ sent[i] <= l /\ sent[i] \in Nat
      BY <1>6, <1>7, <2>2 DEF StreamInv
    <3>2. sent'[j] = a + (j - Len(sent)) - 1 /\ j - Len(sent) \in 1..Len(r)
      BY <1>7, <2>2
    <3> QED
      BY <1>1, <1>6, <3>1, <3>2
  <2>3. CASE ~(i <= Len(sent)) /\ ~(j <= Len(sent))
    <3>1. sent'[i] = a + (i - Len(sent)) - 1 /\ sent'[j] = a + (j - Len(sent)) - 1
      BY <1>7, <2>3
    <3> QED
      BY <1>1, <1>5, <1>6, <3>1
  <2> QED
    BY <1>5, <1>6, <2>1, <2>2, <2>3
<1>10. last_seq' \in 0..Len(log')
  BY <1>1, <1>2, <1>3 DEF n
<1>11. burst' \in BOOLEAN
  BY <1>2, Zenon
<1>12. ASSUME ~burst' PROVE sent' = Run(1, last_seq')
  <2>1. ~burst /\ ~(n - l > PollRows)
    BY <1>2, <1>12, Zenon
  <2>2. a = l + 1
    BY <1>1, <2>1, PollAssumption
  <2>3. sent = Run(1, l)
    BY <2>1 DEF StreamInv
  <2>4. Len(sent) = l /\ \A i \in 1..l : sent[i] = i
    BY <1>1, <2>3 DEF Run
  <2>5. last_seq' = n /\ Len(sent') = n
    BY <1>1, <1>3, <1>4, <1>5, <2>2, <2>4
  <2>6. \A i \in 1..n : sent'[i] = i
    <3> SUFFICES ASSUME NEW i \in 1..n PROVE sent'[i] = i
      OBVIOUS
    <3>1. CASE i <= l
      BY <1>7, <2>4, <2>5, <3>1
    <3>2. CASE ~(i <= l)
      BY <1>1, <1>7, <2>2, <2>4, <2>5, <3>2
    <3> QED
      BY <3>1, <3>2
  <2>7. Run(1, n) \in Seq(Nat) /\ Len(Run(1, n)) = n /\ \A i \in 1..n : Run(1, n)[i] = i
    BY <1>1 DEF Run
  <2> QED
    BY <1>5, <2>5, <2>6, <2>7, SeqEqual
<1> QED
  BY <1>5, <1>8, <1>9, <1>10, <1>11, <1>12 DEF StreamInv

\* Appends only lengthen the table.
LEMMA TableGrows == IInv /\ [Next]_vars => Len(log) \in Nat /\ Len(log') \in Nat /\ Len(log') >= Len(log)
<1> SUFFICES ASSUME IInv, [Next]_vars PROVE Len(log) \in Nat /\ Len(log') \in Nat /\ Len(log') >= Len(log)
  OBVIOUS
<1> PICK S : log \in Seq(S)
  BY DEF IInv, LogIsSeq
<1>1. ASSUME NEW row, log' = Append(log, row) PROVE Len(log') = Len(log) + 1
  <2>1. log \in Seq(S \cup {row})
    OBVIOUS
  <2> QED
    BY <1>1, <2>1
<1>2. log' = log \/ \E row : log' = Append(log, row)
  BY DEF Next, AppendAudit, ReadLast, Insert, Commit, Rollback, vars
<1> QED
  BY <1>1, <1>2

\* The cursor of GET /v1/events against concurrent appends: a connection sends each row
\* once, in order, and misses none unless it fell more than PollRows rows behind.
THEOREM StreamNeverSkips == StreamSpec => []StreamHasNoGaps
<1>1. StreamInit => IInv /\ StreamInv
  <2> SUFFICES ASSUME StreamInit PROVE IInv /\ StreamInv
    OBVIOUS
  <2>1. IInv
    BY Initially DEF StreamInit
  <2>2. last_seq = 0 /\ sent = <<>> /\ burst = FALSE /\ Len(log) = 0
    BY Zenon DEF StreamInit, Init
  <2>3. sent = Run(1, last_seq)
    BY <2>2 DEF Run
  <2>4. last_seq \in 0..Len(log) /\ sent \in Seq(Nat) /\ Len(sent) = 0
    BY <2>2
  <2>5. burst \in BOOLEAN
    BY <2>2, Zenon
  <2>6. \A i \in 1..Len(sent) : FALSE
    BY <2>4
  <2> QED
    BY <2>1, <2>3, <2>4, <2>5, <2>6, Zenon DEF StreamInv
<1>2. IInv /\ StreamInv /\ [StreamNext]_<<vars, streamVars>> => IInv' /\ StreamInv'
  <2> SUFFICES ASSUME IInv, StreamInv, [StreamNext]_<<vars, streamVars>> PROVE IInv' /\ StreamInv'
    OBVIOUS
  <2>1. [Next]_vars
    BY DEF StreamNext, Poll, Reconnect
  <2>2. IInv'
    BY <2>1, Inductive
  <2>3. CASE UNCHANGED streamVars
    <3>1. Len(log) \in Nat /\ Len(log') \in Nat /\ Len(log') >= Len(log)
      BY <2>1, TableGrows
    <3>2. last_seq' \in 0..Len(log')
      BY <2>3, <3>1 DEF StreamInv, streamVars
    <3> QED
      BY <2>2, <2>3, <3>2 DEF StreamInv, streamVars
  <2>4. CASE Poll
    BY <2>2, <2>4, PollInOrder DEF IInv
  <2>5. CASE Reconnect
    <3>1. last_seq' = 0 /\ sent' = <<>> /\ burst' = FALSE /\ log' = log /\ Len(log) \in Nat
      <4>1. last_seq' = 0 /\ sent' = <<>> /\ burst' = FALSE /\ log' = log
        BY <2>5, Zenon DEF Reconnect, vars
      <4> QED
        BY <2>1, <4>1, TableGrows
    <3>2. sent' = Run(1, last_seq')
      BY <3>1 DEF Run
    <3>3. last_seq' \in 0..Len(log') /\ sent' \in Seq(Nat) /\ Len(sent') = 0
      BY <3>1
    <3>4. burst' \in BOOLEAN
      BY <3>1, Zenon
    <3>5. \A i \in 1..Len(sent') : FALSE
      BY <3>3
    <3> QED
      BY <2>2, <3>2, <3>3, <3>4, <3>5, Zenon DEF StreamInv
  <2> QED
    BY <2>3, <2>4, <2>5 DEF StreamNext
<1>3. StreamInv => StreamHasNoGaps
  <2> SUFFICES ASSUME StreamInv PROVE StreamHasNoGaps
    OBVIOUS
  <2>1. DOMAIN sent = 1..Len(sent) /\ last_seq \in Nat
    <3>1. DOMAIN sent = 1..Len(sent)
      BY LenProperties DEF StreamInv
    <3>2. last_seq \in Nat
      BY DEF StreamInv
    <3> QED
      BY <3>1, <3>2
  <2>2. Run(1, last_seq) = [i \in 1..last_seq |-> i]
    BY <2>1 DEF Run
  <2> QED
    BY <2>1, <2>2 DEF StreamInv, StreamHasNoGaps
<1> QED
  BY <1>1, <1>2, <1>3, PTL DEF StreamSpec
================================================================================
