------------------------------- MODULE EventStream -------------------------------
(***************************************************************************)
(* GET /v1/events of crates/server/src/routes.rs: a stream that polls the  *)
(* end of the audit log and sends the rows past its cursor, while the      *)
(* processes of module AuditLog append.  A browser that reconnects opens a *)
(* new stream, whose cursor is zero again.                                 *)
(***************************************************************************)
EXTENDS AuditLog

CONSTANT PollRows   \* rows one poll reads (200 in the source)

ASSUME PollAssumption == PollRows \in Nat \ {0}

VARIABLES
    last_seq,   \* the stream's cursor
    sent,       \* history: the seq of every row sent on this connection, in order
    burst       \* history: some poll found more than PollRows rows past the cursor

streamVars == <<last_seq, sent, burst>>

\* audit_tail: ORDER BY seq DESC LIMIT n, reversed.
AuditTail(rows, n) == SubSeq(rows, IF Len(rows) > n THEN Len(rows) - n + 1 ELSE 1, Len(rows))

\* Mutant: the row at the cursor counts as new.
MutFresh(rows, since) == Kept(rows, {i \in 1..Len(rows) : rows[i].seq >= since})

Fresh(rows, since) == Kept(rows, {i \in 1..Len(rows) : rows[i].seq > since})

Seqs(rows) == [i \in 1..Len(rows) |-> rows[i].seq]

StreamInit ==
    /\ Init
    /\ last_seq = 0
    /\ sent = <<>>
    /\ burst = FALSE

\* One tick of the interval: fresh rows are sent and the cursor moves to the last of
\* them.  A tick whose read fails, or that has no store, sends an empty array and
\* leaves the cursor alone: it is a stuttering step.
Poll ==
    LET fresh == Fresh(AuditTail(log, PollRows), last_seq)
    IN  /\ last_seq' = Max({last_seq} \cup ToSet(Seqs(fresh)))
        /\ sent' = sent \o Seqs(fresh)
        /\ burst' = (burst \/ Len(log) - last_seq > PollRows)
        /\ UNCHANGED vars

\* The client connects again.
Reconnect ==
    /\ last_seq' = 0
    /\ sent' = <<>>
    /\ burst' = FALSE
    /\ UNCHANGED vars

StreamNext ==
    \/ Next /\ UNCHANGED streamVars
    \/ Poll
    \/ Reconnect

StreamSpec == StreamInit /\ [][StreamNext]_<<vars, streamVars>>

--------------------------------------------------------------------------------
(* Properties *)

\* However appends, rollbacks and polls interleave, a connection sends no row twice
\* and none out of order, and it misses a row only when more than PollRows rows were
\* committed between two of its polls: no transaction commits behind the cursor.
StreamHasNoGaps ==
    /\ \A i, j \in DOMAIN sent : i < j => sent[i] < sent[j]
    /\ ~burst => sent = [i \in 1..last_seq |-> i]
================================================================================
