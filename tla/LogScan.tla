-------------------------------- MODULE LogScan --------------------------------
(***************************************************************************)
(* One JSON-RPC request of HttpClient (crates/chain/src/rpc.rs) and        *)
(* get_logs on top of it, which halves a range the node refuses.           *)
(*                                                                         *)
(* The recursion of get_logs_bisecting is a stack of ranges still to be    *)
(* asked for, leftmost on top, and what was merged so far, where a block   *)
(* stands for its logs.  A response is the kind of response it is; "too    *)
(* wide" is an error whose message is_range_too_wide recognises.           *)
(***************************************************************************)
EXTENDS Integers, Sequences

CONSTANTS
    MaxSplitDepth,   \* how often a range may be halved
    Max429           \* how often a 429 is retried

ASSUME ScanAssumption == MaxSplitDepth \in Nat /\ Max429 \in Nat

\* What a node answers, apart from 429.
Response == {"result", "reverted", "too wide", "rpc error", "http error", "bad body"}

\* HttpClient::request: a result, or the error the response is classified as.  An error
\* that mentions a revert is Reverted even if it also mentions a limit.
Classify(response) ==
    CASE response = "result" -> "ok"
      [] response = "reverted" -> "Reverted"
      [] response \in {"too wide", "rpc error"} -> "Rpc"
      [] response = "http error" -> "Transport"
      [] response = "bad body" -> "Decode"

\* A 429 is slept on and retried; the last one is an HTTP error like any other.
Retried(tries) == tries < Max429

FullRange(from, to) == <<[from |-> from, to |-> to, depth |-> 0]>>

\* Mutant: the right half starts at the middle.
MutHalves(r) ==
    LET mid == r.from + (r.to - r.from) \div 2
    IN  <<[from |-> r.from, to |-> mid, depth |-> r.depth + 1],
          [from |-> mid, to |-> r.to, depth |-> r.depth + 1]>>

Halves(r) ==
    LET mid == r.from + (r.to - r.from) \div 2
    IN  <<[from |-> r.from, to |-> mid, depth |-> r.depth + 1],
          [from |-> mid + 1, to |-> r.to, depth |-> r.depth + 1]>>

\* The match arm that splits.
Splits(r, response) ==
    /\ response = "too wide"
    /\ r.depth < MaxSplitDepth
    /\ r.to > r.from

\* What a node returns for a range: the logs of its blocks, in order.
Blocks(from, to) == [i \in 1..(to - from + 1) |-> from + i - 1]
================================================================================
