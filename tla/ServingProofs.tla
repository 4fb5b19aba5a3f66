----------------------------- MODULE ServingProofs -----------------------------
(***************************************************************************)
(* The vault and the server that takes its tokens from it, for any number  *)
(* of processes, names, secrets and passphrases, and the request to that   *)
(* server to arm live mode, for any tokens, blocks and bounds of the probe.*)
(***************************************************************************)
EXTENDS Serving, LivePreflight, SequenceTheorems, WellFoundedInduction, TLAPS

\* Jobs and the server are records of one shape.
Shapes ==
    /\ job = [p \in Process |-> [pc |-> job[p].pc, file |-> job[p].file, change |-> job[p].change]]
    /\ server = [pc |-> server.pc, key |-> server.key, tokens |-> server.tokens,
                 fresh |-> server.fresh]

\* A file that can be read holds these secrets.
Meant(f, map) == f.state # "torn" => f.map = map

\* At most one process rewrites the vault.
OneRewrite == \A p, q \in Process : job[p].pc # "idle" /\ job[q].pc # "idle" => p = q

\* The file, its copy and what is about to replace the file each hold what they should.
\* With one rewrite at a time, nothing is reported between a rewrite's load and its end.
VaultMeans ==
    /\ Meant(file, stored)
    /\ Meant(backup.file, backup.stored)
    /\ \A p \in Process :
         job[p].pc # "idle" => Meant(job[p].file, Reported(job[p].change, stored))

\* Nothing is claimed of the file once two rewrites overlapped.
VaultInv == ~overlap => OneRewrite /\ VaultMeans

\* What the server is doing agrees with the job it has at the vault.
ServerInv ==
    /\ server.pc = "down" => server.tokens = Empty
    /\ server.pc \in {"generated", "storing"} => Pending # {}
    /\ server.pc = "storing" =>
         job[Server].change = [op |-> "set", name |-> Ref[NextRole], value |-> server.fresh]
    /\ server.pc # "up" => granted = NoGrant

\* Every token the server holds was in the vault, for its role, since the start.
TokensKnown ==
    \A r \in DOMAIN server.tokens : r \in DOMAIN Ref /\ <<Ref[r], server.tokens[r]>> \in known

\* The vault, the server and what was granted.
IInv ==
    /\ Shapes
    /\ VaultInv
    /\ ServerInv
    /\ Pairs(stored) \subseteq known
    /\ ~overlap => TokensKnown
    /\ RevokedStaysOut

allVars == <<vaultVars, limiterVars, servingVars>>

\* A vault operation of one process.
VaultStep(p) ==
    \/ \E n, v, key : Set(p, n, v, key)
    \/ \E n, key : Delete(p, n, key)
    \/ \E force : Restore(p, force)
    \/ Truncate(p)
    \/ Write(p)
    \/ Abort(p)

--------------------------------------------------------------------------------

\* A new process finds an empty vault and nobody at it.
LEMMA Initially == ServingInit => IInv
<1> SUFFICES ASSUME ServingInit PROVE IInv
  OBVIOUS
<1>1. Shapes
  BY DEF ServingInit, VaultInit, Shapes, NoJob, Down
<1>2. \A p \in Process : job[p].pc = "idle"
  BY DEF ServingInit, VaultInit, NoJob
<1>3. VaultInv
  BY <1>2 DEF ServingInit, VaultInit, VaultInv, OneRewrite, VaultMeans, Meant, NoBackup, Absent
<1>4. ServerInv
  BY DEF ServingInit, ServerInv, Down
<1>5. Pairs(stored) \subseteq known
  BY DEF ServingInit, VaultInit, Pairs, Empty
<1>6. TokensKnown
  BY DEF ServingInit, Down, TokensKnown, Empty
<1>7. RevokedStaysOut
  BY DEF ServingInit, RevokedStaysOut
<1> QED
  BY <1>1, <1>3, <1>4, <1>5, <1>6, <1>7 DEF IInv

\* What a step of the server or of a command does to the vault.
LEMMA VaultSteps ==
    ASSUME ServingStep
    PROVE  UNCHANGED vaultVars \/ Backup \/ \E p \in Process : VaultStep(p)
<1>1. CASE StoreToken
  BY <1>1, ServingAssumption DEF StoreToken, VaultStep
<1>2. CASE TruncateForToken
  BY <1>2, ServingAssumption DEF TruncateForToken, VaultStep
<1>3. CASE TokenStored
  BY <1>3, ServingAssumption DEF TokenStored, VaultStep
<1>4. CASE Exit
  BY <1>4, ServingAssumption DEF Exit, VaultStep
<1>5. ASSUME NEW p \in Process \ {Server}, Cli(p) PROVE VaultStep(p)
  BY <1>5 DEF Cli, VaultStep
<1>6. CASE Start \/ Loaded \/ Generate \/ VaultUnreadable \/ Bind \/ Request \/ Limited \/ Environment
  BY <1>6 DEF Start, Loaded, Generate, VaultUnreadable, Bind, Request, Limited, Environment
<1> QED
  BY <1>1, <1>2, <1>3, <1>4, <1>5, <1>6 DEF ServingStep

\* The jobs keep their shape.
LEMMA JobShape ==
    ASSUME Shapes, NEW p \in Process, VaultStep(p)
    PROVE  /\ job' = [q \in Process |-> [pc |-> job'[q].pc, file |-> job'[q].file, change |-> job'[q].change]]
           /\ \A q \in Process : q # p => job'[q] = job[q]
<1>0. /\ job = [q \in Process |-> job[q]]
      /\ \A q \in Process : job[q] = [pc |-> job[q].pc, file |-> job[q].file, change |-> job[q].change]
  BY DEF Shapes
<1>1. ASSUME NEW pc, NEW f, NEW ch, job' = [job EXCEPT ![p] = [pc |-> pc, file |-> f, change |-> ch]]
      PROVE  /\ job' = [q \in Process |-> [pc |-> job'[q].pc, file |-> job'[q].file, change |-> job'[q].change]]
             /\ \A q \in Process : q # p => job'[q] = job[q]
  BY <1>0, <1>1
<1>2. CASE Truncate(p)
  <2> DEFINE j == job[p]
  <2>0. [j EXCEPT !.pc = "write"] = [pc |-> "write", file |-> j.file, change |-> j.change]
    <3>1. j = [pc |-> j.pc, file |-> j.file, change |-> j.change]
      BY <1>0
    <3> HIDE DEF j
    <3> QED
      BY <3>1
  <2>1. job' = [job EXCEPT ![p] = [pc |-> "write", file |-> job[p].file, change |-> job[p].change]]
    <3>1. job' = [job EXCEPT ![p] = [j EXCEPT !.pc = "write"]]
      BY <1>2 DEF Truncate
    <3> QED
      BY <2>0, <3>1
  <2> QED
    BY <1>1, <2>1
<1>3. CASE Write(p) \/ Abort(p)
  BY <1>1, <1>3 DEF Write, Abort, NoJob
<1>4. CASE (\E n, v, key : Set(p, n, v, key)) \/ (\E n, key : Delete(p, n, key)) \/ \E force : Restore(p, force)
  <2>1. PICK f, ch : Rewrite(p, f, ch)
    BY <1>4 DEF Set, Delete, Restore
  <2> QED
    BY <1>1, <2>1 DEF Rewrite
<1> QED
  BY <1>2, <1>3, <1>4 DEF VaultStep

\* A rewrite that begins alone, from what it loaded.
LEMMA BeginMeans ==
    ASSUME Shapes, VaultInv, NEW p \in Process, VaultStep(p), NEW f, NEW ch,
           Rewrite(p, f, ch), ~overlap => Meant(f, Reported(ch, stored))
    PROVE  VaultInv'
<1> SUFFICES ASSUME ~overlap' PROVE OneRewrite' /\ VaultMeans'
  BY DEF VaultInv
<1>1. ~overlap /\ \A q \in Process : job[q].pc = "idle"
  BY Zenon DEF Rewrite
<1>2. \A q \in Process : q # p => job'[q].pc = "idle"
  BY <1>1, JobShape
<1>3. OneRewrite'
  BY <1>2 DEF OneRewrite
<1>4. job'[p].file = f /\ job'[p].change = ch /\ UNCHANGED <<file, backup, stored>>
  BY DEF Rewrite, Shapes
<1>5. VaultMeans
  BY <1>1 DEF VaultInv
<1>6. Meant(file, stored)' /\ Meant(backup.file, backup.stored)'
  BY <1>4, <1>5 DEF VaultMeans, Meant
<1>7. \A q \in Process : job'[q].pc # "idle" => Meant(job'[q].file, Reported(job'[q].change, stored'))
  BY <1>1, <1>2, <1>4
<1> QED
  BY <1>3, <1>6, <1>7 DEF VaultMeans, Meant

\* Every operation on the vault keeps what it means.
LEMMA VaultInductive ==
    ASSUME Shapes, VaultInv, ServingStep
    PROVE  VaultInv' /\ (~overlap' => ~overlap)
<1>1. CASE UNCHANGED vaultVars
  BY <1>1 DEF vaultVars, VaultInv, OneRewrite, VaultMeans, Meant, Reported, Inserted, Removed
<1>2. CASE Backup
  <2>1. UNCHANGED <<file, job, stored, overlap>> /\ backup' = [file |-> file, stored |-> stored]
    BY <1>2 DEF Backup
  <2>2. ASSUME ~overlap PROVE OneRewrite' /\ VaultMeans'
    <3>1. OneRewrite /\ VaultMeans
      BY <2>2 DEF VaultInv
    <3>2. Meant(backup.file, backup.stored)' /\ Meant(file, stored)'
      BY <2>1, <3>1 DEF VaultMeans, Meant
    <3>3. \A p \in Process :
             job'[p].pc # "idle" => Meant(job'[p].file, Reported(job'[p].change, stored'))
      BY <2>1, <3>1 DEF VaultMeans
    <3> QED
      BY <2>1, <3>1, <3>2, <3>3 DEF OneRewrite, VaultMeans, Meant
  <2> QED
    BY <2>1, <2>2 DEF VaultInv
<1>3. ASSUME NEW p \in Process, VaultStep(p) PROVE VaultInv' /\ (~overlap' => ~overlap)
  <2>1. ASSUME NEW n, NEW v, NEW key, Set(p, n, v, key) PROVE VaultInv' /\ (~overlap' => ~overlap)
    <3> DEFINE ch == [op |-> "set", name |-> n, value |-> v]
               f == Sealed(key, Inserted(file.map, n, v))
    <3>1. Rewrite(p, f, ch) /\ file.state # "torn"
      BY <2>1 DEF Set, LoadFails
    <3>2. Reported(ch, stored) = Inserted(stored, n, v)
      BY DEF Reported
    <3>3. f.map = Inserted(file.map, n, v)
      BY DEF Sealed
    <3>4. ~overlap => Meant(f, Reported(ch, stored))
      <4> HIDE DEF f, ch
      <4> QED
        BY <3>1, <3>2, <3>3 DEF VaultInv, VaultMeans, Meant
    <3>5. ~overlap' => ~overlap
      BY <3>1, Zenon DEF Rewrite
    <3> HIDE DEF f, ch
    <3> QED
      BY <1>3, <3>1, <3>4, <3>5, BeginMeans
  <2>2. ASSUME NEW n, NEW key, Delete(p, n, key) PROVE VaultInv' /\ (~overlap' => ~overlap)
    <3> DEFINE ch == [op |-> "rm", name |-> n]
               f == Sealed(key, Removed(file.map, n))
    <3>1. Rewrite(p, f, ch) /\ file.state # "torn"
      BY <2>2 DEF Delete, LoadFails
    <3>2. Reported(ch, stored) = Removed(stored, n)
      BY DEF Reported
    <3>3. f.map = Removed(file.map, n)
      BY DEF Sealed
    <3>4. ~overlap => Meant(f, Reported(ch, stored))
      <4> HIDE DEF f, ch
      <4> QED
        BY <3>1, <3>2, <3>3 DEF VaultInv, VaultMeans, Meant
    <3>5. ~overlap' => ~overlap
      BY <3>1, Zenon DEF Rewrite
    <3> HIDE DEF f, ch
    <3> QED
      BY <1>3, <3>1, <3>4, <3>5, BeginMeans
  <2>3. ASSUME NEW force, Restore(p, force) PROVE VaultInv' /\ (~overlap' => ~overlap)
    <3> DEFINE ch == [op |-> "restore", map |-> backup.stored]
    <3>1. Rewrite(p, backup.file, ch)
      BY <2>3 DEF Restore
    <3>2. Reported(ch, stored) = backup.stored
      BY DEF Reported
    <3>3. ~overlap => Meant(backup.file, Reported(ch, stored))
      BY <3>2 DEF VaultInv, VaultMeans, Meant
    <3>4. ~overlap' => ~overlap
      BY <3>1, Zenon DEF Rewrite
    <3> HIDE DEF ch
    <3> QED
      BY <1>3, <3>1, <3>3, <3>4, BeginMeans
  <2>4. CASE Truncate(p) \/ Abort(p)
    <3>1. /\ UNCHANGED <<backup, stored, overlap>>
          /\ file' = Torn \/ file' = file
      BY <2>4 DEF Truncate, Abort
    <3>2. \A q \in Process : job'[q].pc # "idle" =>
             job[q].pc # "idle" /\ job'[q].file = job[q].file /\ job'[q].change = job[q].change
      <4>1. \A q \in Process : q # p => job'[q] = job[q]
        BY <1>3, JobShape
      <4>2. job'[p].pc # "idle" =>
               job[p].pc # "idle" /\ job'[p].file = job[p].file /\ job'[p].change = job[p].change
        <5>1. job = [q \in Process |-> job[q]] /\ job[p] = [pc |-> job[p].pc, file |-> job[p].file, change |-> job[p].change]
          BY DEF Shapes
        <5> QED
          BY <2>4, <5>1 DEF Truncate, Abort, NoJob
      <4> QED
        BY <4>1, <4>2
    <3>3. ASSUME ~overlap PROVE OneRewrite' /\ VaultMeans'
      <4>1. OneRewrite /\ VaultMeans
        BY <3>3 DEF VaultInv
      <4>2. OneRewrite'
        BY <3>2, <4>1 DEF OneRewrite
      <4>3. Meant(file, stored)' /\ Meant(backup.file, backup.stored)'
        <5>1. Torn.state = "torn"
          BY DEF Torn
        <5>2. file'.state # "torn" => file' = file
          BY <3>1, <5>1
        <5> QED
          BY <3>1, <4>1, <5>2 DEF VaultMeans, Meant
      <4>4. \A q \in Process :
               job'[q].pc # "idle" => Meant(job'[q].file, Reported(job'[q].change, stored'))
        BY <3>1, <3>2, <4>1 DEF VaultMeans
      <4> QED
        BY <4>2, <4>3, <4>4 DEF VaultMeans, Meant
    <3> QED
      BY <3>1, <3>3 DEF VaultInv
  <2>5. CASE Write(p)
    <3>1. /\ UNCHANGED <<backup, overlap>> /\ job[p].pc = "write"
          /\ file' = job[p].file /\ stored' = Reported(job[p].change, stored)
      BY <2>5 DEF Write
    <3>2. job'[p].pc = "idle"
      BY <2>5 DEF Write, NoJob, Shapes
    <3>3. ASSUME ~overlap PROVE OneRewrite' /\ VaultMeans'
      <4>1. OneRewrite /\ VaultMeans
        BY <3>3 DEF VaultInv
      <4>2. \A q \in Process : job'[q].pc = "idle"
        BY <1>3, <3>1, <3>2, <4>1, JobShape DEF OneRewrite
      <4>3. Meant(file, stored)'
        BY <3>1, <4>1 DEF VaultMeans, Meant
      <4>4. Meant(backup.file, backup.stored)'
        BY <3>1, <4>1 DEF VaultMeans, Meant
      <4> QED
        BY <4>2, <4>3, <4>4 DEF OneRewrite, VaultMeans
    <3> QED
      BY <3>1, <3>3 DEF VaultInv
  <2> QED
    BY <1>3, <2>1, <2>2, <2>3, <2>4, <2>5 DEF VaultStep
<1> QED
  BY <1>1, <1>2, <1>3, VaultSteps

--------------------------------------------------------------------------------

\* resolve_token is asked for the highest role without a token.
LEMMA RolePending == ASSUME Pending # {} PROVE NextRole \in Pending /\ NextRole \in DOMAIN Ref
<1>1. Pending \subseteq Role
  BY ServingAssumption DEF Pending
<1>2. \E r \in Pending : \A q \in Pending : Rank(q) <= Rank(r)
  <2>1. CASE "admin" \in Pending
    BY <1>1, <2>1 DEF Rank, Role
  <2>2. CASE "admin" \notin Pending /\ "operator" \in Pending
    BY <1>1, <2>2 DEF Rank, Role
  <2>3. CASE "admin" \notin Pending /\ "operator" \notin Pending
    BY <1>1, <2>3 DEF Rank, Role
  <2> QED
    BY <2>1, <2>2, <2>3
<1>3. NextRole \in Pending
  BY <1>2 DEF NextRole
<1> QED
  BY <1>3 DEF Pending

\* A token taken over with its role was, or is now, in the vault for that role.
LEMMA TokenTaken ==
    ASSUME TokensKnown, NEW r \in DOMAIN Ref, NEW v,
           server'.tokens = Inserted(server.tokens, r, v),
           known \subseteq known', <<Ref[r], v>> \in known'
    PROVE  TokensKnown'
  BY DEF TokensKnown, Inserted

\* Pairs of an extended map.
LEMMA PairsOf == ASSUME NEW map, NEW n \in DOMAIN map PROVE <<n, map[n]>> \in Pairs(map)
  BY DEF Pairs

\* The server's tokens and the last grant outlive a step that touches neither.
LEMMA GrantsKept ==
    ASSUME IInv, ServingNext, server'.tokens = server.tokens, granted' = granted,
           ~overlap' => ~overlap
    PROVE  (~overlap' => TokensKnown') /\ RevokedStaysOut'
<1>1. CASE server.pc = "down"
  <2>1. server.tokens = Empty /\ granted = NoGrant
    BY <1>1 DEF IInv, ServerInv
  <2> QED
    BY <2>1 DEF TokensKnown, RevokedStaysOut, Empty, NoGrant
<1>2. CASE server.pc # "down"
  <2>1. known \subseteq known'
    BY <1>2 DEF ServingNext
  <2>2. ~overlap' => TokensKnown'
    BY <2>1 DEF IInv, TokensKnown
  <2>3. RevokedStaysOut'
    BY <2>1 DEF IInv, RevokedStaysOut
  <2> QED
    BY <2>2, <2>3
<1> QED
  BY <1>1, <1>2

\* The server keeps its shape.
LEMMA ServerShape ==
    ASSUME Shapes, ServingStep
    PROVE  server' = [pc |-> server'.pc, key |-> server'.key, tokens |-> server'.tokens,
                      fresh |-> server'.fresh]
<1>0. server = [pc |-> server.pc, key |-> server.key, tokens |-> server.tokens, fresh |-> server.fresh]
  BY DEF Shapes
<1>1. ASSUME NEW pc, NEW key, NEW tokens, NEW fresh,
             server' = [pc |-> pc, key |-> key, tokens |-> tokens, fresh |-> fresh]
      PROVE  server' = [pc |-> server'.pc, key |-> server'.key, tokens |-> server'.tokens,
                        fresh |-> server'.fresh]
  BY <1>1
<1>2. CASE Start
  <2>1. PICK key \in Passphrase : server' = [Down EXCEPT !.pc = "resolve", !.key = key]
    BY <1>2 DEF Start
  <2>2. server' = [pc |-> "resolve", key |-> key, tokens |-> Empty, fresh |-> ""]
    BY <2>1 DEF Down
  <2> QED
    BY <1>1, <2>2
<1>3. CASE Loaded
  <2> DEFINE tokens == Inserted(server.tokens, NextRole, file.map[Ref[NextRole]])
  <2>1. server' = [server EXCEPT !.tokens = tokens]
    BY <1>3 DEF Loaded
  <2> HIDE DEF tokens
  <2>2. server' = [pc |-> server.pc, key |-> server.key, tokens |-> tokens, fresh |-> server.fresh]
    BY <1>0, <2>1
  <2> QED
    BY <1>1, <2>2
<1>4. CASE Generate
  <2>1. PICK v \in Value : server' = [server EXCEPT !.pc = "generated", !.fresh = v]
    BY <1>4 DEF Generate
  <2>2. server' = [pc |-> "generated", key |-> server.key, tokens |-> server.tokens, fresh |-> v]
    BY <1>0, <2>1
  <2> QED
    BY <1>1, <2>2
<1>5. CASE StoreToken
  <2>1. server' = [server EXCEPT !.pc = "storing"]
    BY <1>5 DEF StoreToken
  <2>2. server' = [pc |-> "storing", key |-> server.key, tokens |-> server.tokens, fresh |-> server.fresh]
    BY <1>0, <2>1
  <2> QED
    BY <1>1, <2>2
<1>6. CASE TokenStored
  <2> DEFINE tokens == Inserted(server.tokens, NextRole, server.fresh)
  <2>1. server' = [server EXCEPT !.pc = "resolve", !.tokens = tokens]
    BY <1>6 DEF TokenStored
  <2> HIDE DEF tokens
  <2>2. server' = [pc |-> "resolve", key |-> server.key, tokens |-> tokens, fresh |-> server.fresh]
    BY <1>0, <2>1
  <2> QED
    BY <1>1, <2>2
<1>7. CASE Bind
  <2>1. server' = [server EXCEPT !.pc = "up"]
    BY <1>7 DEF Bind
  <2>2. server' = [pc |-> "up", key |-> server.key, tokens |-> server.tokens, fresh |-> server.fresh]
    BY <1>0, <2>1
  <2> QED
    BY <1>1, <2>2
<1>8. CASE server' = Down
  BY <1>1, <1>8 DEF Down
<1>9. CASE server' = server
  BY <1>0, <1>9
<1>10. CASE \E p \in Process \ {Server} : Cli(p)
  BY <1>9, <1>10 DEF Cli
<1> QED
  BY <1>2, <1>3, <1>4, <1>5, <1>6, <1>7, <1>8, <1>9, <1>10
     DEF ServingStep, TruncateForToken, VaultUnreadable, Exit, Request, Limited, Environment

\* Shapes are kept.
LEMMA ShapesInductive == ASSUME Shapes, ServingStep PROVE Shapes'
<1>1. job' = [q \in Process |-> [pc |-> job'[q].pc, file |-> job'[q].file, change |-> job'[q].change]]
  <2>1. CASE job' = job
    BY <2>1 DEF Shapes
  <2>2. CASE \E p \in Process : VaultStep(p)
    BY <2>2, JobShape
  <2> QED
    BY <2>1, <2>2, VaultSteps DEF vaultVars, Backup
<1> QED
  BY <1>1, ServerShape DEF Shapes

--------------------------------------------------------------------------------

\* What is left to show of a step, beside the vault and the shapes.
Served == ServerInv' /\ (~overlap' => TokensKnown') /\ RevokedStaysOut'

\* A step that leaves the server, and its job at the vault, alone.
LEMMA LeftAlone ==
    ASSUME IInv, ServingNext, ~overlap' => ~overlap, UNCHANGED <<server, granted>>,
           job'[Server].change = job[Server].change
    PROVE  Served
<1>1. (~overlap' => TokensKnown') /\ RevokedStaysOut'
  BY GrantsKept
<1>2. Pending' = Pending /\ NextRole' = NextRole
  BY DEF Pending, NextRole
<1>3. ServerInv'
  BY <1>2 DEF IInv, ServerInv
<1> QED
  BY <1>1, <1>3 DEF Served

\* Starting, binding and going down.
LEMMA StartStop ==
    ASSUME IInv, ServingNext, ~overlap' => ~overlap, Start \/ Bind \/ VaultUnreadable \/ Exit
    PROVE  Served
<1>0. server = [pc |-> server.pc, key |-> server.key, tokens |-> server.tokens, fresh |-> server.fresh]
  BY DEF IInv, Shapes
<1>1. CASE Start
  <2>1. server'.pc = "resolve" /\ server'.tokens = Empty /\ server.pc = "down" /\ granted' = granted
    BY <1>1 DEF Start, Down
  <2>2. server'.tokens = server.tokens /\ granted = NoGrant
    BY <2>1 DEF IInv, ServerInv
  <2>3. ServerInv'
    BY <2>1, <2>2 DEF ServerInv
  <2> QED
    BY <2>1, <2>2, <2>3, GrantsKept DEF Served
<1>2. CASE Bind
  <2>1. server'.pc = "up" /\ server'.tokens = server.tokens /\ granted' = granted
    BY <1>0, <1>2 DEF Bind
  <2>2. ServerInv'
    BY <2>1 DEF ServerInv
  <2> QED
    BY <2>1, <2>2, GrantsKept DEF Served
<1>3. CASE VaultUnreadable \/ Exit
  <2>1. server'.pc = "down" /\ server'.tokens = Empty
    <3>1. server' = Down
      BY <1>3 DEF VaultUnreadable, Exit
    <3> QED
      BY <3>1 DEF Down
  <2>2. granted' = NoGrant
    BY <1>3 DEF VaultUnreadable, Exit, IInv, ServerInv
  <2>3. ServerInv'
    BY <2>1, <2>2 DEF ServerInv
  <2>4. TokensKnown'
    BY <2>1 DEF TokensKnown, Empty
  <2>5. RevokedStaysOut'
    BY <2>2 DEF RevokedStaysOut, NoGrant
  <2> QED
    BY <2>3, <2>4, <2>5 DEF Served
<1> QED
  BY <1>1, <1>2, <1>3

\* load_or_create finds a token: the file it read holds what the vault holds.
LEMMA LoadedServed ==
    ASSUME IInv, ServingNext, ~overlap' => ~overlap, Loaded
    PROVE  Served
<1> DEFINE v == file.map[Ref[NextRole]]
<1>0. server = [pc |-> server.pc, key |-> server.key, tokens |-> server.tokens, fresh |-> server.fresh]
  BY DEF IInv, Shapes
<1>1. /\ server.pc = "resolve" /\ Pending # {} /\ file.state # "torn" /\ Ref[NextRole] \in DOMAIN file.map
      /\ server' = [server EXCEPT !.tokens = Inserted(@, NextRole, v)]
      /\ UNCHANGED <<stored, granted>>
  BY DEF Loaded, LoadFails, vaultVars
<1>2. server'.pc = "resolve" /\ server'.tokens = Inserted(server.tokens, NextRole, v)
  BY <1>0, <1>1
<1>3. granted = NoGrant
  BY <1>1 DEF IInv, ServerInv
<1>4. ServerInv'
  BY <1>1, <1>2, <1>3 DEF ServerInv
<1>5. RevokedStaysOut'
  BY <1>1, <1>3 DEF RevokedStaysOut, NoGrant
<1>6. ASSUME ~overlap' PROVE TokensKnown'
  <2>1. file.map = stored /\ TokensKnown
    BY <1>1, <1>6 DEF IInv, VaultInv, VaultMeans, Meant
  <2>2. <<Ref[NextRole], v>> \in Pairs(stored')
    <3>1. Ref[NextRole] \in DOMAIN stored' /\ v = stored'[Ref[NextRole]]
      BY <1>1, <2>1
    <3> HIDE DEF v
    <3> QED
      BY <3>1, PairsOf
  <2>3. known \subseteq known' /\ Pairs(stored') \subseteq known'
    BY <1>1 DEF ServingNext
  <2>4. NextRole \in DOMAIN Ref
    BY <1>1, RolePending
  <2> HIDE DEF v
  <2> QED
    BY <1>2, <2>1, <2>2, <2>3, <2>4, TokenTaken
<1> QED
  BY <1>4, <1>5, <1>6 DEF Served

\* A token is generated, and its set begins.
LEMMA GeneratedServed ==
    ASSUME IInv, ServingNext, ~overlap' => ~overlap, Generate \/ StoreToken
    PROVE  Served
<1>0. server = [pc |-> server.pc, key |-> server.key, tokens |-> server.tokens, fresh |-> server.fresh]
  BY DEF IInv, Shapes
<1>1. server'.tokens = server.tokens /\ UNCHANGED granted /\ server.pc # "up" /\ server'.pc \in {"generated", "storing"}
  BY <1>0 DEF Generate, StoreToken
<1>2. Pending # {} /\ granted = NoGrant
  BY <1>1 DEF IInv, ServerInv, Generate, StoreToken
<1>3. Pending' = Pending /\ NextRole' = NextRole
  BY <1>1 DEF Pending, NextRole
<1>4. server'.pc = "storing" =>
        job'[Server].change = [op |-> "set", name |-> Ref[NextRole], value |-> server'.fresh]
  <2>1. CASE Generate
    BY <1>0, <2>1 DEF Generate
  <2>2. CASE StoreToken
    <3>1. server'.fresh = server.fresh
      BY <1>0, <2>2 DEF StoreToken
    <3>2. job' = [job EXCEPT ![Server] = [pc |-> "store",
                      file |-> Sealed(server.key, Inserted(file.map, Ref[NextRole], server.fresh)),
                      change |-> [op |-> "set", name |-> Ref[NextRole], value |-> server.fresh]]]
      BY <2>2 DEF StoreToken, Set, Rewrite
    <3>3. job = [p \in Process |-> job[p]]
      BY DEF IInv, Shapes
    <3> QED
      BY <3>1, <3>2, <3>3, ServingAssumption
  <2> QED
    BY <2>1, <2>2
<1>5. ServerInv'
  BY <1>1, <1>2, <1>3, <1>4 DEF ServerInv
<1> QED
  BY <1>1, <1>5, GrantsKept DEF Served

\* The set is done: the vault holds the token the server goes on with.
LEMMA StoredServed ==
    ASSUME IInv, ServingNext, ~overlap' => ~overlap, TokenStored
    PROVE  Served
<1> DEFINE n == Ref[NextRole]
           v == server.fresh
<1>0. server = [pc |-> server.pc, key |-> server.key, tokens |-> server.tokens, fresh |-> server.fresh]
  BY DEF IInv, Shapes
<1>1. /\ server.pc = "storing" /\ stored' = Reported(job[Server].change, stored)
      /\ server' = [server EXCEPT !.pc = "resolve", !.tokens = Inserted(@, NextRole, v)]
      /\ UNCHANGED granted
  BY DEF TokenStored, Write
<1>2. server'.pc = "resolve" /\ server'.tokens = Inserted(server.tokens, NextRole, v)
  BY <1>0, <1>1
<1>3. granted = NoGrant /\ Pending # {} /\ job[Server].change = [op |-> "set", name |-> n, value |-> v]
  BY <1>1 DEF IInv, ServerInv
<1>4. ServerInv'
  BY <1>1, <1>2, <1>3 DEF ServerInv
<1>5. RevokedStaysOut'
  BY <1>1, <1>3 DEF RevokedStaysOut, NoGrant
<1>6. ASSUME ~overlap' PROVE TokensKnown'
  <2>1. stored' = Inserted(stored, n, v)
    BY <1>1, <1>3 DEF Reported
  <2>2. <<n, v>> \in Pairs(stored')
    <3>1. n \in DOMAIN stored' /\ v = stored'[n]
      BY <2>1 DEF Inserted
    <3> HIDE DEF n, v
    <3> QED
      BY <3>1, PairsOf
  <2>3. known \subseteq known' /\ Pairs(stored') \subseteq known'
    BY <1>1 DEF ServingNext
  <2>4. NextRole \in DOMAIN Ref
    BY <1>3, RolePending
  <2>5. TokensKnown
    BY <1>6 DEF IInv
  <2> HIDE DEF v
  <2> QED
    BY <1>2, <2>2, <2>3, <2>4, <2>5, TokenTaken
<1> QED
  BY <1>4, <1>5, <1>6 DEF Served

\* require_auth: who is let in holds a token of the server's, for that role or above.
LEMMA RequestServed ==
    ASSUME IInv, ServingNext, ~overlap' => ~overlap, Request
    PROVE  Served
<1>1. server.pc = "up" /\ UNCHANGED server
  BY DEF Request
<1>2. ServerInv'
  BY <1>1 DEF ServerInv
<1>3. known \subseteq known'
  BY <1>1 DEF ServingNext
<1>4. ~overlap' => TokensKnown'
  BY <1>1, <1>3 DEF IInv, TokensKnown
<1>5. RevokedStaysOut'
  <2>1. PICK presented \in used, needed \in Role :
            granted' = IF Grants(presented, needed) THEN [role |-> needed, token |-> presented] ELSE granted
    BY DEF Request
  <2>2. CASE ~Grants(presented, needed)
    BY <1>3, <2>1, <2>2 DEF IInv, RevokedStaysOut
  <2>3. CASE Grants(presented, needed)
    <3>1. granted'.role = needed /\ granted'.token = presented
      BY <2>1, <2>3
    <3>2. PICK r \in DOMAIN server.tokens : server.tokens[r] = presented /\ Rank(r) >= Rank(needed)
      BY <2>3 DEF Grants, RoleFor
    <3>3. ~overlap' => r \in DOMAIN Ref /\ <<Ref[r], presented>> \in known'
      BY <1>3, <3>2 DEF IInv, TokensKnown
    <3> QED
      BY <3>1, <3>2, <3>3 DEF RevokedStaysOut
  <2> QED
    BY <2>2, <2>3
<1> QED
  BY <1>2, <1>4, <1>5 DEF Served

\* IInv is inductive.
LEMMA Inductive == IInv /\ [ServingNext]_allVars => IInv'
<1> SUFFICES ASSUME IInv, [ServingNext]_allVars PROVE IInv'
  OBVIOUS
<1>1. CASE UNCHANGED allVars
  <2>1. UNCHANGED <<file, job, backup, stored, overlap, server, known, granted>>
    BY <1>1 DEF allVars, vaultVars, servingVars
  <2>2. Shapes' /\ (Pairs(stored) \subseteq known)'
    BY <2>1 DEF IInv, Shapes, Pairs
  <2>3. VaultInv'
    BY <2>1 DEF IInv, VaultInv, OneRewrite, VaultMeans, Meant, Reported, Inserted, Removed
  <2>4. ServerInv'
    BY <2>1 DEF IInv, ServerInv, Pending, NextRole
  <2>5. (~overlap' => TokensKnown') /\ RevokedStaysOut'
    BY <2>1 DEF IInv, TokensKnown, RevokedStaysOut
  <2> QED
    BY <2>2, <2>3, <2>4, <2>5 DEF IInv
<1>2. CASE ServingNext
  <2>0. ServingStep /\ Shapes /\ VaultInv
    BY <1>2 DEF ServingNext, IInv
  <2>1. Shapes' /\ VaultInv' /\ (~overlap' => ~overlap)
    BY <2>0, ShapesInductive, VaultInductive
  <2>2. Pairs(stored') \subseteq known'
    BY <1>2 DEF ServingNext
  <2>3. Served
    <3>1. CASE Start \/ Bind \/ VaultUnreadable \/ Exit
      BY <1>2, <2>1, <3>1, StartStop
    <3>2. CASE Loaded
      BY <1>2, <2>1, <3>2, LoadedServed
    <3>3. CASE Generate \/ StoreToken
      BY <1>2, <2>1, <3>3, GeneratedServed
    <3>4. CASE TokenStored
      BY <1>2, <2>1, <3>4, StoredServed
    <3>5. CASE Request
      BY <1>2, <2>1, <3>5, RequestServed
    <3>6. CASE TruncateForToken
      <4>1. job[Server] = [pc |-> job[Server].pc, file |-> job[Server].file, change |-> job[Server].change]
            /\ job = [p \in Process |-> job[p]]
        BY <2>0, ServingAssumption DEF Shapes
      <4>2. job'[Server].change = job[Server].change
        BY <3>6, <4>1, ServingAssumption DEF TruncateForToken, Truncate
      <4> QED
        BY <1>2, <2>1, <3>6, <4>2, LeftAlone DEF TruncateForToken
    <3>7. CASE Limited \/ Environment
      BY <1>2, <2>1, <3>7, LeftAlone DEF Limited, Environment, vaultVars, Backup
    <3>8. ASSUME NEW p \in Process \ {Server}, Cli(p) PROVE Served
      <4>1. VaultStep(p)
        BY <3>8 DEF Cli, VaultStep
      <4>2. job'[Server] = job[Server]
        BY <2>0, <4>1, JobShape, ServingAssumption
      <4>3. UNCHANGED <<server, granted>>
        BY <3>8 DEF Cli
      <4> QED
        BY <1>2, <2>1, <4>2, <4>3, LeftAlone
    <3> QED
      BY <2>0, <3>1, <3>2, <3>3, <3>4, <3>5, <3>6, <3>7, <3>8 DEF ServingStep
  <2> QED
    BY <2>1, <2>2, <2>3 DEF IInv, Served
<1> QED
  BY <1>1, <1>2

\* Vault::store_map rewrites the file in place; through crashes at every step, failed
\* writes, wrong passphrases and restores of any copy, a file that can be read holds
\* exactly what the finished commands put there, unless two rewrites overlapped.
THEOREM VaultKeepsSecrets == ServingSpec => []SecretsKept
<1>1. IInv => SecretsKept
  BY DEF IInv, VaultInv, VaultMeans, Meant, SecretsKept
<1> QED
  BY <1>1, Initially, Inductive, PTL DEF ServingSpec, allVars

\* TokenSet and require_auth let in only what the vault held, for that role or a higher
\* one, at some moment since the server started.
THEOREM RevokedTokensStayOut == ServingSpec => []RevokedStaysOut
<1>1. IInv => RevokedStaysOut
  BY DEF IInv
<1> QED
  BY <1>1, Initially, Inductive, PTL DEF ServingSpec, allVars

--------------------------------------------------------------------------------
(* The limiter *)

\* What holds of the requests admitted, when w is the window the next one is counted
\* in: w has counted no more than max of them, those before w came before it began, and
\* all but the last max of those came a whole window before it began.
Windowed(w) ==
    /\ w \in [start : Nat, count : Nat]
    /\ w.start <= now
    /\ max > 0 =>
         /\ w.count <= max /\ w.count <= Len(admitted)
         /\ \A i \in 1..Len(admitted) :
              /\ admitted[i] < w.start + Window
              /\ i <= Len(admitted) - w.count => admitted[i] < w.start
              /\ i + max <= Len(admitted) - w.count => admitted[i] + Window <= w.start

\* SlidingBound needs to know where the admitted requests lie about the last window.
LimiterInv ==
    /\ max \in Nat /\ now \in Nat /\ admitted \in Seq(Nat)
    /\ Windowed(window)
    /\ SlidingBound

\* A window that is over is replaced by an empty one that begins now.
LEMMA WindowRolls == LimiterInv => Windowed(Current)
<1> SUFFICES ASSUME LimiterInv PROVE Windowed(Current)
  OBVIOUS
<1> DEFINE n == Len(admitted)
<1>0. n \in Nat /\ Window \in Nat /\ max \in Nat /\ now \in Nat /\ window.start \in Nat /\ window.count \in Nat
  BY LimiterAssumption DEF LimiterInv, Windowed
<1>1. \A i \in 1..n : admitted[i] \in Nat
  BY DEF LimiterInv
<1> HIDE DEF n
<1>2. CASE now - window.start >= Window
  <2> DEFINE w == [start |-> now, count |-> 0]
  <2>1. Current = w
    BY <1>2 DEF Current
  <2>2. w \in [start : Nat, count : Nat] /\ w.start = now /\ w.count = 0
    BY <1>0
  <2> HIDE DEF w
  <2>3. ASSUME max > 0, NEW i \in 1..n
        PROVE  /\ admitted[i] < w.start + Window
               /\ i <= n - w.count => admitted[i] < w.start
               /\ i + max <= n - w.count => admitted[i] + Window <= w.start
    <3>1. /\ window.count <= max
          /\ admitted[i] < window.start + Window
          /\ i <= n - window.count => admitted[i] < window.start
      BY <2>3 DEF LimiterInv, Windowed, n
    <3>2. admitted[i] \in Nat /\ i \in Nat
      BY <1>1
    <3>3. admitted[i] < now
      BY <1>0, <1>2, <3>1, <3>2
    <3>4. ASSUME i + max <= n PROVE admitted[i] + Window <= now
      <4>1. i <= n - window.count
        BY <1>0, <3>1, <3>2, <3>4
      <4> QED
        BY <1>0, <1>2, <3>1, <3>2, <4>1
    <3> QED
      BY <1>0, <2>2, <3>2, <3>3, <3>4
  <2> QED
    BY <1>0, <2>1, <2>2, <2>3 DEF Windowed, n
<1>3. CASE ~(now - window.start >= Window)
  BY <1>3 DEF Current, LimiterInv
<1> QED
  BY <1>2, <1>3

\* A request that is let through.  If 2 * max requests were let through after another
\* one, at least max of them were before this window, and that one before the window
\* before it.
LEMMA Admitted ==
    ASSUME LimiterInv, max > 0, ~Full,
           window' = [Current EXCEPT !.count = @ + 1], admitted' = Append(admitted, now),
           UNCHANGED <<max, now>>
    PROVE  LimiterInv'
<1> DEFINE n == Len(admitted)
           w == Current
<1>0. /\ n \in Nat /\ Window \in Nat /\ max \in Nat /\ now \in Nat /\ admitted \in Seq(Nat)
      /\ \A i \in 1..n : admitted[i] \in Nat
  BY LimiterAssumption DEF LimiterInv
<1>1. Windowed(w)
  BY WindowRolls
<1>2. w \in [start : Nat, count : Nat] /\ w.count < max
  <2>1. w \in [start : Nat, count : Nat]
    BY <1>1 DEF Windowed
  <2>2. ~(w.count >= max)
    BY DEF Full
  <2> HIDE DEF w
  <2> QED
    BY <1>0, <2>1, <2>2
<1>3. now < w.start + Window
  <2>1. window.start \in Nat
    BY DEF LimiterInv, Windowed
  <2>2. CASE now - window.start >= Window
    BY <1>0, <2>2, LimiterAssumption DEF Current
  <2>3. CASE ~(now - window.start >= Window)
    BY <1>0, <2>1, <2>3 DEF Current
  <2> QED
    BY <2>2, <2>3
<1>4. window' = [w EXCEPT !.count = @ + 1]
  OBVIOUS
<1> HIDE DEF w
<1>5. window' \in [start : Nat, count : Nat] /\ window'.start = w.start /\ window'.count = w.count + 1
  <2>1. w = [start |-> w.start, count |-> w.count] /\ w.start \in Nat /\ w.count \in Nat
    BY <1>2
  <2>2. window' = [start |-> w.start, count |-> w.count + 1]
    BY <1>4, <2>1
  <2>3. w.count + 1 \in Nat
    BY <2>1
  <2>4. window'.start = w.start /\ window'.count = w.count + 1
    <3>1. \A a, b : [start |-> a, count |-> b].start = a /\ [start |-> a, count |-> b].count = b
      OBVIOUS
    <3> QED
      BY ONLY <2>2, <3>1
  <2>5. \A a, b \in Nat : [start |-> a, count |-> b] \in [start : Nat, count : Nat]
    OBVIOUS
  <2>6. window' \in [start : Nat, count : Nat]
    BY <2>1, <2>2, <2>3, <2>5, Zenon
  <2> QED
    BY <2>4, <2>6
<1>6. /\ admitted' \in Seq(Nat) /\ Len(admitted') = n + 1 /\ admitted'[n + 1] = now
      /\ \A i \in 1..n : admitted'[i] = admitted[i]
  BY <1>0
<1>7. /\ w.start <= now /\ w.count <= n
      /\ \A i \in 1..n :
           /\ admitted[i] < w.start + Window
           /\ i <= n - w.count => admitted[i] < w.start
           /\ i + max <= n - w.count => admitted[i] + Window <= w.start
  BY <1>1 DEF Windowed
<1>8. \A i, j \in 1..n : j = i + 2 * max => admitted[j] >= admitted[i] + Window
  <2>1. DOMAIN admitted = 1..n
    BY <1>0
  <2> QED
    BY <2>1 DEF LimiterInv, SlidingBound
<1> HIDE DEF n
<1>9. ASSUME NEW i \in 1..(n + 1)
      PROVE  /\ admitted'[i] < w.start + Window
             /\ i <= (n + 1) - (w.count + 1) => admitted'[i] < w.start
             /\ i + max <= (n + 1) - (w.count + 1) => admitted'[i] + Window <= w.start
  <2>0. w.start \in Nat /\ w.count \in Nat /\ i \in Nat
    BY <1>2
  <2>1. (n + 1) - (w.count + 1) = n - w.count /\ (i \in 1..n \/ i = n + 1)
    <3>1. n \in Nat /\ w.count \in Nat
      BY <1>0, <2>0
    <3>2. \A a, b \in Nat : (a + 1) - (b + 1) = a - b
      OBVIOUS
    <3>3. i \in 1..n \/ i = n + 1
      BY <3>1
    <3> QED
      BY <3>1, <3>2, <3>3
  <2>2. CASE i \in 1..n
    <3>1. admitted'[i] = admitted[i]
      BY <1>6, <2>2
    <3>2. /\ admitted[i] < w.start + Window
          /\ i <= n - w.count => admitted[i] < w.start
          /\ i + max <= n - w.count => admitted[i] + Window <= w.start
      BY <1>7, <2>2
    <3> QED
      BY <2>1, <3>1, <3>2
  <2>3. CASE i = n + 1
    BY <1>0, <1>3, <1>6, <2>0, <2>3
  <2> QED
    BY <2>1, <2>2, <2>3
<1>10. ASSUME NEW i \in 1..(n + 1), NEW j \in 1..(n + 1), j = i + 2 * max
       PROVE  admitted'[j] >= admitted'[i] + Window
  <2>0. w.start \in Nat /\ w.count \in Nat /\ i \in Nat /\ j \in Nat
    BY <1>2
  <2>1. i \in 1..n
    BY <1>0, <1>10, <2>0
  <2>2. CASE j \in 1..n
    BY <1>6, <1>8, <1>10, <2>1, <2>2
  <2>3. CASE j = n + 1
    <3>1. i + max <= n - w.count
      BY <1>0, <1>2, <1>10, <2>0, <2>3
    <3>2. admitted[i] + Window <= w.start /\ admitted[i] \in Nat /\ w.start <= now
      BY <1>0, <1>7, <2>1, <3>1
    <3>3. admitted[i] + Window <= now
      BY <1>0, <2>0, <3>2
    <3> QED
      BY <1>0, <1>6, <2>1, <2>3, <3>2, <3>3
  <2>4. j \in 1..n \/ j = n + 1
    BY <1>0, <2>0
  <2> QED
    BY <2>2, <2>3, <2>4
<1>11. max' = max /\ now' = now /\ max > 0
  OBVIOUS
<1>12. Windowed(window)'
  <2>1. w.count + 1 <= max /\ w.count + 1 <= n + 1
    BY <1>0, <1>2, <1>7
  <2> QED
    BY <1>0, <1>5, <1>6, <1>7, <1>9, <1>11, <2>1 DEF Windowed
<1>13. SlidingBound'
  <2>1. DOMAIN admitted' = 1..(n + 1)
    BY <1>6
  <2> QED
    BY <1>10, <1>11, <2>1 DEF SlidingBound
<1> QED
  BY <1>0, <1>6, <1>11, <1>12, <1>13 DEF LimiterInv

\* A new limiter has admitted nothing.
LEMMA LimiterStarts ==
    ASSUME NEW m \in Limit, NEW w, w = [start |-> 0, count |-> 0]
    PROVE  /\ m \in Nat /\ w \in [start : Nat, count : Nat] /\ w.start <= 0 /\ w.count = 0
           /\ <<>> \in Seq(Nat) /\ Len(<<>>) = 0
  BY LimiterAssumption

\* The limiter's invariant holds at the start, and every step preserves it.
LEMMA LimiterInductive ==
    /\ ServingInit => LimiterInv
    /\ LimiterInv /\ [ServingNext]_allVars => LimiterInv'
<1>1. ASSUME ServingInit PROVE LimiterInv
  <2>1. max \in Limit /\ now = 0 /\ window = [start |-> 0, count |-> 0] /\ admitted = <<>>
    BY <1>1 DEF ServingInit, LimiterInit
  <2>2. Windowed(window)
    BY <2>1, LimiterStarts DEF Windowed
  <2> QED
    BY <2>1, <2>2, LimiterStarts DEF LimiterInv, SlidingBound
<1>2. ASSUME LimiterInv, [ServingNext]_allVars PROVE LimiterInv'
  <2>1. CASE UNCHANGED limiterVars
    BY <1>2, <2>1 DEF limiterVars, LimiterInv, Windowed, SlidingBound
  <2>2. CASE LimiterReset
    <3>1. max' \in Limit /\ now' = 0 /\ window' = [start |-> 0, count |-> 0] /\ admitted' = <<>>
      BY <2>2 DEF LimiterReset
    <3>2. Windowed(window)'
      BY <3>1, LimiterStarts DEF Windowed
    <3> QED
      BY <3>1, <3>2, LimiterStarts DEF LimiterInv, SlidingBound
  <2>3. CASE Admit
    <3>1. CASE max = 0
      BY <1>2, <2>3, <3>1 DEF Admit, LimiterInv, Windowed, SlidingBound
    <3>2. CASE max # 0
      <4>1. max > 0
        BY <1>2, <3>2 DEF LimiterInv
      <4> QED
        BY <1>2, <2>3, <3>2, <4>1, Admitted DEF Admit
    <3> QED
      BY <3>1, <3>2
  <2>4. CASE TooManyRequests
    <3>1. Windowed(Current)
      BY <1>2, WindowRolls
    <3>2. window' = Current /\ UNCHANGED <<max, now, admitted>>
      BY <2>4 DEF TooManyRequests
    <3> HIDE DEF Current
    <3> QED
      BY <1>2, <3>1, <3>2 DEF LimiterInv, Windowed, SlidingBound
  <2>5. CASE Tick
    <3>1. now' = now + 1 /\ UNCHANGED <<max, window, admitted>>
      BY <2>5 DEF Tick
    <3>2. window.start <= now'
      BY <1>2, <3>1 DEF LimiterInv, Windowed
    <3> QED
      BY <1>2, <3>1, <3>2 DEF LimiterInv, Windowed, SlidingBound
  <2>6. UNCHANGED limiterVars \/ LimiterReset \/ Admit \/ TooManyRequests \/ Tick
    BY <1>2 DEF ServingNext, ServingStep, Start, Loaded, Generate, StoreToken, TruncateForToken,
                TokenStored, VaultUnreadable, Bind, Exit, Request, Limited, Cli, Environment, allVars
  <2> QED
    BY <2>1, <2>2, <2>3, <2>4, <2>5, <2>6
<1> QED
  BY <1>1, <1>2

\* RateLimiter::check counts in windows that begin with a request; for every limit and
\* length of a window, no stretch of time that long sees more than twice the limit.
THEOREM SlidingWindowBounded == ServingSpec => []SlidingBound
<1>1. LimiterInv => SlidingBound
  BY DEF LimiterInv
<1> QED
  BY <1>1, LimiterInductive, PTL DEF ServingSpec, allVars

--------------------------------------------------------------------------------
(* The request to arm live mode *)

\* The request is a record of one shape.
RequestShape ==
    req = [pc |-> req.pc, i |-> req.i, stack |-> req.stack, out |-> req.out,
           tries |-> req.tries, todo |-> req.todo, best |-> req.best]

\* The contracts are tokens, each a record of one shape.
TokenShape ==
    token = [t \in Token |-> [gate |-> token[t].gate, balance |-> token[t].balance,
                              fresh |-> token[t].fresh]]

Probing == req.pc \in {"meta", "scan", "holders", "to_fresh", "from_fresh"}
Underway == Probing \/ req.pc = "arm"

\* The tokens the probe has passed.
Passed == {k \in PreflightTokens : req.pc = "arm" \/ (Probing /\ k < req.i)}

\* Each of them could be received and could be sent at some moment of the request, and the
\* one that is being probed could be received once the first transfer went through.
SeenInv ==
    /\ req.pc = "idle" \/ Underway
    /\ Underway => CanNow.receive \subseteq could.receive /\ CanNow.send \subseteq could.send
    /\ Probing => req.i \in PreflightTokens
    /\ \A k \in Passed : Listed[k] \in could.receive \cap could.send
    /\ req.pc = "from_fresh" => Listed[req.i] \in could.receive

\* A range that get_logs asks for.
BlockRange == [from : Int, to : Int, depth : Int]

\* The ranges still to be asked for follow each other from a block up to the head.
Contiguous(stack, next) ==
    /\ stack \in Seq(BlockRange)
    /\ \A k \in 1..Len(stack) :
         /\ stack[k].from <= stack[k].to
         /\ stack[k].from = IF k = 1 THEN next ELSE stack[k - 1].to + 1
    /\ Len(stack) = 0 => HeadBlock = next - 1
    /\ Len(stack) # 0 => HeadBlock = stack[Len(stack)].to

\* What was read is every block before that one.
ReadUpTo(next) ==
    /\ next \in Int /\ FromBlock <= next
    /\ req.out = Blocks(FromBlock, next - 1)
    /\ Contiguous(req.stack, next)

ScanInv ==
    /\ req.pc = "scan" => \E next \in Int : ReadUpTo(next)
    /\ ScanComplete

PreflightInv == RequestShape /\ TokenShape /\ SeenInv /\ ScanInv

\* A non-empty set of positions has a first one.
LEMMA FirstPosition ==
  ASSUME NEW I \in SUBSET Nat, I # {}
  PROVE  Min(I) \in I /\ \A k \in I : Min(I) <= k
<1>1. PICK i \in I : \A j \in I : <<j, i>> \notin OpToRel(<, Nat)
  BY WFMin, NatLessThanWellFounded
<1>2. \A j \in I : ~(j < i)
  BY <1>1 DEF OpToRel
<1>3. \A j \in I : i <= j
  BY <1>2
<1> QED
  BY <1>3 DEF Min

\* The denominator and each symbol is listed, and first listed somewhere.
LEMMA EachListedOnce ==
  ASSUME NEW t \in Range(Symbols) \cup {Denom}
  PROVE  \E k \in PreflightTokens : Listed[k] = t
<1> DEFINE I == {i \in 1..Len(Listed) : Listed[i] = t}
<1>1. Symbols \in Seq(Token) /\ Denom \in Token /\ Len(Listed) = Len(Symbols) + 1
  BY PreflightAssumption DEF Listed, Token
<1>4. ASSUME I # {} PROVE \E k \in PreflightTokens : Listed[k] = t
  <2>1. I \in SUBSET Nat
    BY <1>1
  <2>2. Min(I) \in I /\ \A k \in I : Min(I) <= k
    BY <2>1, <1>4, FirstPosition
  <2>3. \A j \in 1..(Min(I) - 1) : j \in 1..Len(Listed) /\ j \notin I
    BY <2>1, <2>2, <1>1
  <2> QED
    BY <2>2, <2>3 DEF PreflightTokens
<1>2. CASE t = Denom
  <2>1. Len(Symbols) + 1 \in I
    BY <1>1, <1>2 DEF Listed
  <2> QED
    BY <2>1, <1>4
<1>3. CASE t \in Range(Symbols)
  <2>1. PICK i \in DOMAIN Symbols : Symbols[i] = t
    BY <1>3 DEF Range
  <2>2. i \in I
    BY <2>1, <1>1 DEF Listed
  <2> QED
    BY <2>2, <1>4
<1> QED
  BY <1>2, <1>3

\* A scan starts at a block.
LEMMA FirstBlock == FromBlock \in Nat /\ FromBlock <= HeadBlock
<1>1. HeadBlock - Sample \in Int /\ HeadBlock - Sample <= HeadBlock /\ HeadBlock \in Nat
  BY PreflightAssumption
<1> DEFINE d == HeadBlock - Sample
<1> HIDE DEF d
<1>2. d \in Int /\ d <= HeadBlock /\ HeadBlock \in Nat
  BY <1>1 DEF d
<1>3. Max({0, d}) \in {0, d} /\ Max({0, d}) >= 0
  BY <1>2 DEF Max
<1>4. FromBlock = Max({0, d})
  BY DEF FromBlock, d
<1> QED
  BY <1>2, <1>3, <1>4

\* Two runs of blocks that follow each other are one.
LEMMA BlocksFollow ==
  ASSUME NEW a \in Int, NEW b \in Int, NEW c \in Int, a <= b, b <= c + 1
  PROVE  Blocks(a, b - 1) \o Blocks(b, c) = Blocks(a, c)
<1> DEFINE p == Blocks(a, b - 1)
           q == Blocks(b, c)
           r == Blocks(a, c)
<1>1. p \in Seq(Int) /\ Len(p) = b - a /\ \A i \in 1..(b - a) : p[i] = a + i - 1
  BY DEF Blocks
<1>2. q \in Seq(Int) /\ Len(q) = c - b + 1 /\ \A i \in 1..(c - b + 1) : q[i] = b + i - 1
  BY DEF Blocks
<1>3. r \in Seq(Int) /\ Len(r) = c - a + 1 /\ \A i \in 1..(c - a + 1) : r[i] = a + i - 1
  BY DEF Blocks
<1> HIDE DEF p, q, r
<1>4. /\ p \o q \in Seq(Int) /\ Len(p \o q) = Len(p) + Len(q)
      /\ \A i \in 1..(Len(p) + Len(q)) : (p \o q)[i] = IF i <= Len(p) THEN p[i] ELSE q[i - Len(p)]
  BY <1>1, <1>2, ConcatProperties
<1>5. \A i \in 1..(c - a + 1) : (p \o q)[i] = a + i - 1
  <2> SUFFICES ASSUME NEW i \in 1..(c - a + 1) PROVE (p \o q)[i] = a + i - 1
    OBVIOUS
  <2>1. (p \o q)[i] = IF i <= b - a THEN p[i] ELSE q[i - (b - a)]
    BY <1>1, <1>2, <1>4
  <2>2. i > b - a => i - (b - a) \in 1..(c - b + 1) /\ b + (i - (b - a)) - 1 = a + i - 1
    OBVIOUS
  <2> QED
    BY <2>1, <2>2, <1>1, <1>2
<1>6. p \o q = r
  <2> DEFINE pq == p \o q
  <2>1. pq \in Seq(Int) /\ r \in Seq(Int) /\ Len(pq) = Len(r)
    BY <1>1, <1>2, <1>3, <1>4
  <2>2. \A i \in 1..Len(pq) : pq[i] = r[i]
    BY <1>3, <1>5, <2>1
  <2> HIDE DEF pq
  <2>3. pq = r
    BY <2>1, <2>2, SeqEqual
  <2> QED
    BY <2>3 DEF pq
<1> QED
  BY <1>6 DEF p, q, r

\* The two halves of a range are the range.
LEMMA HalvesOfRange ==
  ASSUME NEW r \in BlockRange, r.from < r.to
  PROVE  \E mid \in Int :
           /\ r.from <= mid /\ mid < r.to
           /\ Halves(r) = <<[from |-> r.from, to |-> mid, depth |-> r.depth + 1],
                            [from |-> mid + 1, to |-> r.to, depth |-> r.depth + 1]>>
<1> DEFINE mid == r.from + (r.to - r.from) \div 2
<1>1. mid \in Int /\ r.from <= mid /\ mid < r.to
  BY DEF BlockRange
<1> QED
  BY <1>1 DEF Halves

\* A range that was read leaves the ones after it.
LEMMA TailContiguous ==
  ASSUME NEW stack, NEW next \in Int, Contiguous(stack, next), stack # <<>>
  PROVE  /\ Head(stack) \in BlockRange
         /\ Head(stack).from = next /\ next <= Head(stack).to
         /\ Contiguous(Tail(stack), Head(stack).to + 1)
<1>1. stack \in Seq(BlockRange) /\ Len(stack) \in Nat /\ Len(stack) >= 1
  BY EmptySeq DEF Contiguous
<1>2. Head(stack) = stack[1] /\ Head(stack) \in BlockRange
  BY <1>1, HeadTailProperties
<1>3. stack[1].from = next /\ stack[1].from <= stack[1].to
  BY <1>1 DEF Contiguous
<1>4. /\ Tail(stack) \in Seq(BlockRange)
      /\ Len(Tail(stack)) = Len(stack) - 1
      /\ \A k \in 1..Len(Tail(stack)) : Tail(stack)[k] = stack[k + 1]
  BY <1>1, HeadTailProperties
<1>5. ASSUME NEW k \in 1..Len(Tail(stack))
      PROVE  /\ Tail(stack)[k].from <= Tail(stack)[k].to
             /\ Tail(stack)[k].from = IF k = 1 THEN stack[1].to + 1 ELSE Tail(stack)[k - 1].to + 1
  <2>1. k + 1 \in 1..Len(stack) /\ k + 1 # 1 /\ (k + 1) - 1 = k /\ k \in Nat
    BY <1>4, <1>1
  <2>2. stack[k + 1].from <= stack[k + 1].to /\ stack[k + 1].from = stack[k].to + 1
    BY <2>1 DEF Contiguous
  <2>3. k # 1 => k - 1 \in 1..Len(Tail(stack)) /\ Tail(stack)[k - 1] = stack[k]
    BY <2>1, <1>4, <1>1
  <2> QED
    BY <2>2, <2>3, <1>4
<1>6. (Len(Tail(stack)) = 0 => HeadBlock = stack[1].to) /\ (Len(Tail(stack)) # 0 => HeadBlock = Tail(stack)[Len(Tail(stack))].to)
  <2>1. HeadBlock = stack[Len(stack)].to
    BY <1>1 DEF Contiguous
  <2>2. CASE Len(stack) = 1
    BY <2>1, <2>2, <1>2, <1>4 DEF BlockRange
  <2>3. CASE Len(stack) # 1
    <3>1. Len(Tail(stack)) \in 1..Len(Tail(stack))
      BY <2>3, <1>1, <1>4
    <3>2. Tail(stack)[Len(Tail(stack))] = stack[Len(stack)]
      BY <3>1, <1>1, <1>4
    <3> QED
      BY <3>1, <3>2, <2>1
  <2> QED
    BY <2>2, <2>3
<1>7. Contiguous(Tail(stack), stack[1].to + 1)
  <2> DEFINE t == Tail(stack)
             n == stack[1].to + 1
  <2>0. (Len(t) = 0 => HeadBlock = n - 1) /\ (Len(t) # 0 => HeadBlock = t[Len(t)].to)
    <3>1. n - 1 = stack[1].to
      BY <1>2 DEF BlockRange
    <3> QED
      BY <1>6, <3>1
  <2>1. /\ t \in Seq(BlockRange)
        /\ \A k \in 1..Len(t) :
              t[k].from <= t[k].to /\ t[k].from = IF k = 1 THEN n ELSE t[k - 1].to + 1
        /\ (Len(t) = 0 => HeadBlock = n - 1) /\ (Len(t) # 0 => HeadBlock = t[Len(t)].to)
    <3>1. t \in Seq(BlockRange)
      BY <1>4
    <3>2. \A k \in 1..Len(t) :
              t[k].from <= t[k].to /\ t[k].from = IF k = 1 THEN n ELSE t[k - 1].to + 1
      BY <1>5
    <3> QED
      BY <3>1, <3>2, <2>0
  <2> HIDE DEF t, n
  <2>2. Contiguous(t, n)
    BY <2>1 DEF Contiguous
  <2> QED
    BY <2>2 DEF t, n
<1> QED
  BY <1>2, <1>3, <1>7

\* A range that was split is followed by the ones after it as before.
LEMMA SplitContiguous ==
  ASSUME NEW stack, NEW next \in Int, Contiguous(stack, next), stack # <<>>,
         Head(stack).from < Head(stack).to
  PROVE  Contiguous(Halves(Head(stack)) \o Tail(stack), next)
<1> DEFINE h == Head(stack)
           t == Tail(stack)
<1>1. h \in BlockRange /\ h.from = next /\ Contiguous(t, h.to + 1)
  BY TailContiguous
<1>2. PICK mid \in Int :
        /\ h.from <= mid /\ mid < h.to
        /\ Halves(h) = <<[from |-> h.from, to |-> mid, depth |-> h.depth + 1],
                         [from |-> mid + 1, to |-> h.to, depth |-> h.depth + 1]>>
  BY <1>1, HalvesOfRange
<1> DEFINE left == [from |-> h.from, to |-> mid, depth |-> h.depth + 1]
           right == [from |-> mid + 1, to |-> h.to, depth |-> h.depth + 1]
           s == Halves(h) \o t
<1>3. left \in BlockRange /\ right \in BlockRange /\ t \in Seq(BlockRange)
  BY <1>1 DEF Contiguous, BlockRange
<1>3a. h.to \in Int /\ h.from \in Int
  BY <1>1 DEF BlockRange
<1>3b. left.from = next /\ left.to = mid /\ right.from = mid + 1 /\ right.to = h.to
  BY <1>1
<1> HIDE DEF h, t, left, right
<1>4. Halves(h) = <<left, right>>
  BY <1>2 DEF left, right
<1>5. /\ s \in Seq(BlockRange) /\ Len(s) = Len(t) + 2 /\ Len(t) \in Nat
      /\ s[1] = left /\ s[2] = right
      /\ \A k \in 1..Len(t) : s[k + 2] = t[k]
  BY <1>3, <1>4
<1> HIDE DEF s
<1>6. ASSUME NEW k \in 1..Len(s)
      PROVE  /\ s[k].from <= s[k].to
             /\ s[k].from = IF k = 1 THEN next ELSE s[k - 1].to + 1
  <2>1. CASE k = 1
    BY <2>1, <1>5, <1>2, <1>3b, <1>1
  <2>2. CASE k = 2
    BY <2>2, <1>5, <1>2, <1>3a, <1>3b
  <2>3. CASE k > 2
    <3>1. k - 2 \in 1..Len(t) /\ s[k] = t[k - 2] /\ k - 2 + 2 = k
      BY <2>3, <1>5
    <3>2. /\ t[k - 2].from <= t[k - 2].to
          /\ t[k - 2].from = IF k - 2 = 1 THEN h.to + 1 ELSE t[k - 2 - 1].to + 1
      BY <3>1, <1>1 DEF Contiguous
    <3>3. CASE k = 3
      BY <3>3, <3>1, <3>2, <1>5, <1>3b
    <3>4. CASE k > 3
      <4>1. k - 3 \in 1..Len(t) /\ (k - 3) + 2 = k - 1 /\ k - 2 - 1 = k - 3
        BY <3>4, <3>1, <1>5
      <4>2. s[k - 1] = t[k - 3]
        BY <4>1, <1>5
      <4> QED
        BY <4>1, <4>2, <3>1, <3>2, <3>4
    <3> QED
      BY <3>3, <3>4, <2>3
  <2> QED
    BY <2>1, <2>2, <2>3, <1>5
<1>7. HeadBlock = s[Len(s)].to
  <2>1. CASE Len(t) = 0
    <3>1. HeadBlock = h.to
      <4>1. (Len(t) = 0 => HeadBlock = h.to) /\ (Len(t) # 0 => HeadBlock = t[Len(t)].to)
        BY <1>1, <1>3a DEF Contiguous
      <4> QED
        BY <4>1, <2>1
    <3> QED
      BY <2>1, <3>1, <1>3a, <1>3b, <1>5
  <2>2. CASE Len(t) # 0
    <3>1. Len(t) \in 1..Len(t) /\ HeadBlock = t[Len(t)].to
      BY <2>2, <1>1, <1>5 DEF Contiguous
    <3> QED
      BY <3>1, <1>5
  <2> QED
    BY <2>1, <2>2
<1>8. Contiguous(s, next)
  <2>1. s \in Seq(BlockRange)
    BY <1>5
  <2>2. \A k \in 1..Len(s) :
          s[k].from <= s[k].to /\ s[k].from = IF k = 1 THEN next ELSE s[k - 1].to + 1
    BY <1>6
  <2>3. (Len(s) = 0 => HeadBlock = next - 1) /\ (Len(s) # 0 => HeadBlock = s[Len(s)].to)
    BY <1>5, <1>7
  <2> QED
    BY <2>1, <2>2, <2>3 DEF Contiguous
<1> QED
  BY <1>8 DEF s, h, t

\* What a step of the request may do to it.
LEMMA Requests ==
  ASSUME ProbeStep
  PROVE  /\ token' = token /\ could' = could
         /\ \/ Throttled \/ ScanDone \/ HolderPicked
            \/ \E response \in Response : Meta(response)
            \/ \E response \in Response : Scan(response)
            \/ \E response \in Response : Balance(response)
            \/ \E response \in Response : ToFresh(response)
            \/ \E response \in Response : FromFresh(response)
  BY DEF ProbeStep, Throttled, ScanDone, HolderPicked, Meta, Scan, Balance, ToFresh, FromFresh

\* The three ways a log request can go.
LEMMA ScanCases ==
  ASSUME NEW response \in Response, Scan(response)
  PROVE  /\ req.pc = "scan" /\ req.stack # <<>>
         /\ \/ Answered([req EXCEPT !.stack = Tail(@),
                           !.out = @ \o Blocks(Head(req.stack).from, Head(req.stack).to)])
            \/ /\ Head(req.stack).to > Head(req.stack).from
               /\ Answered([req EXCEPT !.stack = Halves(Head(req.stack)) \o Tail(@)])
            \/ req' = Idle
<1> DEFINE r == Head(req.stack)
<1>1. CASE Classify(response) = "ok"
  <2>1. response = "result"
    BY <1>1 DEF Classify, Response
  <2>2. ~Splits(r, response)
    BY <2>1 DEF Splits
  <2> QED
    BY <1>1, <2>2 DEF Scan
<1>2. CASE Classify(response) # "ok" /\ Splits(r, response)
  BY <1>2 DEF Scan, Splits
<1>3. CASE Classify(response) # "ok" /\ ~Splits(r, response)
  BY <1>3 DEF Scan, Refuse
<1> QED
  BY <1>1, <1>2, <1>3

\* A token keeps its shape.
LEMMA StateShape ==
  ASSUME NEW x, x = [gate |-> x.gate, balance |-> x.balance, fresh |-> x.fresh], NEW v
  PROVE  /\ [x EXCEPT !.gate = v] = [gate |-> v, balance |-> x.balance, fresh |-> x.fresh]
         /\ [x EXCEPT !.balance = v] = [gate |-> x.gate, balance |-> v, fresh |-> x.fresh]
         /\ [x EXCEPT !.fresh = v] = [gate |-> x.gate, balance |-> x.balance, fresh |-> v]
  OBVIOUS

\* The contracts keep their shape.
LEMMA TokenShaped == ASSUME TokenShape, Next PROVE TokenShape'
<1>1. ASSUME NEW t \in Token, NEW state, Change(t, state),
             state = [gate |-> state.gate, balance |-> state.balance, fresh |-> state.fresh]
      PROVE  TokenShape'
  BY <1>1 DEF Change, TokenShape
<1>2. ASSUME NEW t \in Token
      PROVE  token[t] = [gate |-> token[t].gate, balance |-> token[t].balance, fresh |-> token[t].fresh]
  BY DEF TokenShape
<1>3. CASE ContractStep
  <2>1. ASSUME NEW t \in Token, NEW g, Change(t, [token[t] EXCEPT !.gate = g]) PROVE TokenShape'
    <3>1. [token[t] EXCEPT !.gate = g] =
            [gate |-> g, balance |-> token[t].balance, fresh |-> token[t].fresh]
      BY <1>2, StateShape
    <3>2. Change(t, [gate |-> g, balance |-> token[t].balance, fresh |-> token[t].fresh])
      BY <2>1, <3>1
    <3> QED
      BY <1>1, <3>2
  <2>2. ASSUME NEW t \in Token, NEW a, NEW b, Change(t, [token[t] EXCEPT !.balance[a] = b])
        PROVE  TokenShape'
    <3> DEFINE v == [token[t].balance EXCEPT ![a] = b]
    <3>1. [token[t] EXCEPT !.balance[a] = b] =
            [gate |-> token[t].gate, balance |-> v, fresh |-> token[t].fresh]
      BY <1>2, StateShape
    <3>2. Change(t, [gate |-> token[t].gate, balance |-> v, fresh |-> token[t].fresh])
      BY <2>2, <3>1
    <3> HIDE DEF v
    <3> QED
      BY <1>1, <3>2
  <2>3. ASSUME NEW t \in Token, Change(t, [token[t] EXCEPT !.fresh = TRUE]) PROVE TokenShape'
    <3>1. [token[t] EXCEPT !.fresh = TRUE] =
            [gate |-> token[t].gate, balance |-> token[t].balance, fresh |-> TRUE]
      BY <1>2, StateShape
    <3>2. Change(t, [gate |-> token[t].gate, balance |-> token[t].balance, fresh |-> TRUE])
      BY <2>3, <3>1
    <3> QED
      BY <1>1, <3>2
  <2> QED
    BY <1>3, <2>1, <2>2, <2>3 DEF ContractStep
<1>4. CASE token' = token
  BY <1>4 DEF TokenShape
<1>5. ContractStep \/ token' = token
  BY Requests DEF Next, PostPaper, PostLive, Arm
<1> QED
  BY <1>3, <1>4, <1>5

\* The request keeps its shape.
LEMMA RequestShaped == ASSUME RequestShape, Next PROVE RequestShape'
<1>0. ASSUME req' = Idle PROVE RequestShape'
  BY <1>0 DEF RequestShape, Idle
<1>1. CASE ContractStep \/ PostPaper
  BY <1>1 DEF ContractStep, Change, PostPaper, RequestShape
<1>2. CASE PostLive \/ Arm
  BY <1>2 DEF PostLive, Arm, RequestShape, Idle
<1>3. CASE ProbeStep
  <2>1. ASSUME NEW response \in Response, Scan(response) PROVE RequestShape'
    BY <1>0, <2>1, ScanCases DEF Answered, RequestShape
  <2>2. ASSUME NEW response \in Response, Balance(response) PROVE RequestShape'
    BY <2>2 DEF Balance, Answered, RequestShape
  <2>3. ASSUME Throttled \/ ScanDone PROVE RequestShape'
    BY <2>3 DEF Throttled, ScanDone, RequestShape
  <2>4. ASSUME HolderPicked PROVE RequestShape'
    BY <1>0, <2>4 DEF HolderPicked, Refuse, RequestShape
  <2>5. ASSUME NEW response \in Response, Meta(response) PROVE RequestShape'
    BY <1>0, <2>5 DEF Meta, Answered, StartScan, Refuse, RequestShape
  <2>6. ASSUME NEW response \in Response, ToFresh(response) PROVE RequestShape'
    BY <1>0, <2>6 DEF ToFresh, Answered, Refuse, RequestShape
  <2>7. ASSUME NEW response \in Response, FromFresh(response) PROVE RequestShape'
    <3>1. CASE req' = [Idle EXCEPT !.pc = "meta", !.i = Min(After(req.i))]
      BY <3>1 DEF RequestShape, Idle
    <3>2. CASE req' = [Idle EXCEPT !.pc = "arm"]
      BY <3>2 DEF RequestShape, Idle
    <3>3. CASE req' = Idle
      BY <3>3, <1>0
    <3> QED
      BY <2>7, <3>1, <3>2, <3>3 DEF FromFresh, Refuse
  <2> QED
    BY <1>3, <2>1, <2>2, <2>3, <2>4, <2>5, <2>6, <2>7, Requests
<1> QED
  BY <1>1, <1>2, <1>3 DEF Next

\* A position of the list holds a token.
LEMMA ListedTokens ==
  /\ PreflightTokens \in SUBSET Nat
  /\ \A k \in PreflightTokens : k \in Nat /\ Listed[k] \in Token
<1>1. Listed \in Seq(Token)
  BY PreflightAssumption DEF Listed, Token
<1> QED
  BY <1>1 DEF PreflightTokens

\* Positions are ordered.
LEMMA Ordered ==
  \A j, k \in Nat :
    (j <= k <=> j < k \/ j = k) /\ (j <= k <=> ~(j > k)) /\ (j < k <=> ~(k <= j))
  OBVIOUS

\* What the fresh address could do is remembered, and passing the probe needs both.
LEMMA SeenInductive == ASSUME RequestShape, TokenShape, SeenInv, Next PROVE SeenInv'
<1> USE DEF SeenInv
<1>1. CASE ContractStep
  <2>1. ASSUME NEW t \in Token, NEW state, Change(t, state) PROVE SeenInv'
    <3>1. req' = req /\ could.receive \subseteq could'.receive /\ could.send \subseteq could'.send
      BY <2>1 DEF Change
    <3>2. ASSUME Underway
          PROVE  CanNow'.receive \subseteq could'.receive /\ CanNow'.send \subseteq could'.send
      BY <2>1, <3>2 DEF Change, CanNow, Receivable, Sendable, TokenShape
    <3> QED
      BY <3>1, <3>2 DEF Passed, Probing, Underway
  <2> QED
    BY <1>1, <2>1 DEF ContractStep
<1>2. CASE PostPaper
  BY <1>2 DEF PostPaper, Passed, Probing, Underway, CanNow, Receivable, Sendable
<1>3. CASE PostLive
  <2>1. Min(PreflightTokens) \in PreflightTokens /\ \A k \in PreflightTokens : Min(PreflightTokens) <= k
    BY <1>3, ListedTokens, FirstPosition DEF PostLive
  <2>2. req'.pc = "meta" /\ req'.i = Min(PreflightTokens)
    BY <1>3 DEF PostLive, Idle
  <2>3. Passed' = {}
    <3>1. \A k \in PreflightTokens : ~(k < Min(PreflightTokens))
      BY <2>1, ListedTokens, Ordered
    <3> QED
      BY <2>2, <3>1 DEF Passed
  <2>4. CanNow' = could'
    BY <1>3 DEF PostLive, CanNow, Receivable, Sendable
  <2> QED
    BY <2>1, <2>2, <2>3, <2>4 DEF Probing, Underway
<1>4. CASE Arm
  BY <1>4 DEF Arm, Idle, Passed, Probing, Underway
<1>5. CASE ProbeStep
  <2>1. token' = token /\ could' = could /\ CanNow' = CanNow
    BY <1>5, Requests DEF CanNow, Receivable, Sendable
  <2>2. ASSUME req'.pc = "idle" PROVE SeenInv'
    BY <2>2 DEF Passed, Probing, Underway
  <2>3. ASSUME Probing, req'.pc \in {"meta", "scan", "holders", "to_fresh"} \/ req'.pc = req.pc,
               req'.i = req.i
        PROVE  SeenInv'
    BY <2>1, <2>3 DEF Passed, Probing, Underway
  <2>4. ASSUME NEW response \in Response, Scan(response) PROVE SeenInv'
    <3>1. req' = Idle \/ (req.pc = "scan" /\ req'.pc = "scan" /\ req'.i = req.i)
      BY <2>4, ScanCases DEF Answered, RequestShape
    <3> QED
      BY <3>1, <2>2, <2>3 DEF Idle, Probing
  <2>5. ASSUME NEW response \in Response, Balance(response) PROVE SeenInv'
    <3>1. req.pc = "holders" /\ req'.pc = "holders" /\ req'.i = req.i
      BY <2>5 DEF Balance, Answered, RequestShape
    <3> QED
      BY <3>1, <2>3 DEF Probing
  <2>6. ASSUME Throttled \/ ScanDone \/ HolderPicked PROVE SeenInv'
    <3>1. \/ req' = Idle
          \/ Probing /\ req'.i = req.i /\ (req'.pc = req.pc \/ req'.pc \in {"holders", "to_fresh"})
      BY <2>6 DEF Throttled, Asking, ScanDone, HolderPicked, Refuse, RequestShape, Probing
    <3> QED
      BY <3>1, <2>2, <2>3 DEF Idle
  <2>7. ASSUME NEW response \in Response, Meta(response) PROVE SeenInv'
    <3>1. req' = Idle \/ (req.pc = "meta" /\ req'.pc = "scan" /\ req'.i = req.i)
      BY <2>7 DEF Meta, Answered, StartScan, Refuse, RequestShape
    <3> QED
      BY <3>1, <2>2, <2>3 DEF Idle, Probing
  <2>8. ASSUME NEW response \in Response, ToFresh(response) PROVE SeenInv'
    <3>1. CASE req' = Idle
      BY <3>1, <2>2 DEF Idle
    <3>2. CASE req' # Idle
      <4>1. req.pc = "to_fresh" /\ req'.pc = "from_fresh" /\ req'.i = req.i /\ Receivable(Listed[req.i])
        BY <2>8, <3>2 DEF ToFresh, ToFreshOk, T, Answered, Refuse, RequestShape
      <4>2. Listed[req.i] \in could.receive
        BY <4>1, ListedTokens DEF CanNow, Underway, Probing
      <4> QED
        BY <2>1, <4>1, <4>2 DEF Passed, Probing, Underway
    <3> QED
      BY <3>1, <3>2
  <2>9. ASSUME NEW response \in Response, FromFresh(response) PROVE SeenInv'
    <3>1. CASE req' = Idle
      BY <3>1, <2>2 DEF Idle
    <3>2. CASE req' # Idle
      <4>1. /\ req.pc = "from_fresh" /\ Sendable(Listed[req.i])
            /\ IF After(req.i) # {} THEN req'.pc = "meta" /\ req'.i = Min(After(req.i))
               ELSE req'.pc = "arm"
        BY <2>9, <3>2 DEF FromFresh, BalanceGated, T, Refuse, Idle
      <4>2. req.i \in PreflightTokens /\ Listed[req.i] \in could.receive \cap could.send
        BY <4>1, ListedTokens DEF CanNow, Underway, Probing
      <4>3. \A k \in PreflightTokens : k <= req.i => Listed[k] \in could.receive \cap could.send
        <5>1. \A k \in PreflightTokens : k < req.i => Listed[k] \in could.receive \cap could.send
          BY <4>1 DEF Passed, Probing
        <5>2. \A k \in PreflightTokens : k <= req.i => k < req.i \/ k = req.i
          BY <4>2, ListedTokens, Ordered
        <5> QED
          BY <4>2, <5>1, <5>2
      <4>4. CASE After(req.i) # {}
        <5>1. Min(After(req.i)) \in After(req.i) /\ \A k \in After(req.i) : Min(After(req.i)) <= k
          BY <4>4, ListedTokens, FirstPosition DEF After
        <5>2. \A k \in PreflightTokens : k < Min(After(req.i)) => k <= req.i
          <6> SUFFICES ASSUME NEW k \in PreflightTokens, ~(k <= req.i) PROVE ~(k < Min(After(req.i)))
            OBVIOUS
          <6>1. k \in After(req.i)
            BY <4>2, ListedTokens, Ordered DEF After
          <6>2. Min(After(req.i)) <= k /\ Min(After(req.i)) \in Nat
            BY <5>1, <6>1, ListedTokens DEF After
          <6> QED
            BY <6>2, ListedTokens, Ordered
        <5> QED
          BY <2>1, <4>1, <4>3, <4>4, <5>1, <5>2 DEF Passed, Probing, Underway, After
      <4>5. CASE After(req.i) = {}
        <5>1. \A k \in PreflightTokens : k <= req.i
          <6>1. \A k \in PreflightTokens : ~(k > req.i)
            BY <4>5 DEF After
          <6> QED
            BY <6>1, <4>2, ListedTokens, Ordered
        <5> QED
          BY <2>1, <4>1, <4>3, <4>5, <5>1 DEF Passed, Probing, Underway
      <4> QED
        BY <4>4, <4>5
    <3> QED
      BY <3>1, <3>2
  <2> QED
    BY <1>5, <2>4, <2>5, <2>6, <2>7, <2>8, <2>9, Requests
<1> QED
  BY <1>1, <1>2, <1>3, <1>4, <1>5 DEF Next

\* A scan starts with nothing read and everything to be asked for.
LEMMA ScanStarts ==
  <<>> = Blocks(FromBlock, FromBlock - 1) /\ Contiguous(FullRange(FromBlock, HeadBlock), FromBlock)
<1>1. <<>> = Blocks(FromBlock, FromBlock - 1)
  <2>1. Blocks(FromBlock, FromBlock - 1) \in Seq(Int) /\ Len(Blocks(FromBlock, FromBlock - 1)) = 0
    BY FirstBlock DEF Blocks
  <2> QED
    BY <2>1, EmptySeq
<1> DEFINE s == FullRange(FromBlock, HeadBlock)
<1>2. /\ s \in Seq(BlockRange) /\ Len(s) = 1
      /\ s[1].from = FromBlock /\ s[1].to = HeadBlock /\ FromBlock <= HeadBlock
  BY FirstBlock, PreflightAssumption DEF FullRange, BlockRange
<1> HIDE DEF s
<1>3. Contiguous(s, FromBlock)
  BY <1>2 DEF Contiguous
<1> QED
  BY <1>1, <1>3 DEF s

\* What was read and what is still to be asked for are the whole range.
LEMMA ScanInductive == ASSUME RequestShape, ScanInv, Next PROVE ScanInv'
<1>1. ASSUME req'.pc \notin {"scan", "holders"} PROVE ScanInv'
  BY <1>1 DEF ScanInv, ScanComplete
<1>2. ASSUME req'.pc = req.pc, req'.stack = req.stack, req'.out = req.out PROVE ScanInv'
  BY <1>2 DEF ScanInv, ScanComplete, ReadUpTo
<1>3. CASE ContractStep \/ PostPaper
  BY <1>2, <1>3 DEF ContractStep, Change, PostPaper
<1>4. CASE PostLive \/ Arm
  <2>1. req'.pc \notin {"scan", "holders"}
    <3>1. CASE PostLive
      BY <3>1 DEF PostLive, Idle
    <3>2. CASE Arm
      BY <3>2 DEF Arm, Idle
    <3> QED
      BY <1>4, <3>1, <3>2
  <2> QED
    BY <1>1, <2>1
<1>5. CASE ProbeStep
  <2>1. ASSUME NEW response \in Response, Scan(response) PROVE ScanInv'
    <3>1. PICK next \in Int : ReadUpTo(next)
      BY <2>1 DEF Scan, ScanInv
    <3> DEFINE r == Head(req.stack)
               to == r.to
    <3>2. req.pc = "scan" /\ req.stack # <<>> /\ Contiguous(req.stack, next)
      BY <2>1, <3>1 DEF Scan, ReadUpTo
    <3>3. /\ r \in BlockRange /\ r.from = next /\ next <= to /\ to \in Int
          /\ Contiguous(Tail(req.stack), to + 1)
      BY <3>2, TailContiguous DEF BlockRange
    <3> HIDE DEF to
    <3>4. CASE Answered([req EXCEPT !.stack = Tail(@), !.out = @ \o Blocks(r.from, r.to)])
      <4>1. req'.pc = "scan" /\ req'.stack = Tail(req.stack) /\ req'.out = req.out \o Blocks(next, to)
        BY <3>2, <3>3, <3>4 DEF Answered, RequestShape, to
      <4>2. req.out = Blocks(FromBlock, next - 1) /\ FromBlock <= next /\ FromBlock \in Int
        BY <3>1, FirstBlock DEF ReadUpTo
      <4>3. req'.out = Blocks(FromBlock, to)
        <5>1. next <= to + 1
          BY <3>3
        <5>2. Blocks(FromBlock, next - 1) \o Blocks(next, to) = Blocks(FromBlock, to)
          BY <4>2, <3>3, <5>1, BlocksFollow
        <5> QED
          BY <4>1, <4>2, <5>2
      <4>4. to + 1 \in Int /\ FromBlock <= to + 1 /\ (to + 1) - 1 = to
        BY <4>2, <3>3
      <4>5. PICK n \in Int : n = to + 1
        BY <4>4
      <4>6. FromBlock <= n /\ n - 1 = to /\ Contiguous(req'.stack, n)
        BY <4>1, <4>4, <4>5, <3>3
      <4>7. req'.out = Blocks(FromBlock, n - 1)
        BY <4>3, <4>6
      <4>8. ReadUpTo(n)'
        BY <4>6, <4>7 DEF ReadUpTo
      <4> QED
        BY <4>1, <4>8 DEF ScanInv, ScanComplete
    <3>5. CASE r.to > r.from /\ Answered([req EXCEPT !.stack = Halves(r) \o Tail(@)])
      <4>1. req'.pc = "scan" /\ req'.stack = Halves(r) \o Tail(req.stack) /\ req'.out = req.out
        BY <3>2, <3>5 DEF Answered, RequestShape
      <4>2. r.from < r.to
        BY <3>3, <3>5 DEF to
      <4>3. Contiguous(Halves(r) \o Tail(req.stack), next)
        BY <4>2, <3>2, SplitContiguous
      <4>4. ReadUpTo(next)'
        BY <4>1, <4>3, <3>1 DEF ReadUpTo
      <4> QED
        BY <4>1, <4>4 DEF ScanInv, ScanComplete
    <3>6. CASE req' = Idle
      BY <3>6, <1>1 DEF Idle
    <3> QED
      BY <2>1, <3>4, <3>5, <3>6, ScanCases
  <2>2. ASSUME NEW response \in Response, Balance(response) PROVE ScanInv'
    <3>1. req'.pc = req.pc /\ req'.stack = req.stack /\ req'.out = req.out
      BY <2>2 DEF Balance, Answered, RequestShape
    <3> QED
      BY <3>1, <1>2
  <2>3. ASSUME Throttled PROVE ScanInv'
    <3>1. req'.pc = req.pc /\ req'.stack = req.stack /\ req'.out = req.out
      BY <2>3 DEF Throttled, RequestShape
    <3> QED
      BY <3>1, <1>2
  <2>4. ASSUME ScanDone PROVE ScanInv'
    <3>1. PICK next \in Int : ReadUpTo(next)
      BY <2>4 DEF ScanDone, ScanInv
    <3>2. req.stack = <<>> /\ req'.pc = "holders" /\ req'.out = req.out
      BY <2>4 DEF ScanDone, RequestShape
    <3>3. HeadBlock = next - 1
      BY <3>1, <3>2, EmptySeq DEF ReadUpTo, Contiguous
    <3> QED
      BY <3>1, <3>2, <3>3 DEF ReadUpTo, ScanInv, ScanComplete
  <2>5. ASSUME HolderPicked PROVE ScanInv'
    <3>1. req'.pc \in {"idle", "to_fresh"}
      <4>1. req' = Idle \/ req' = [req EXCEPT !.pc = "to_fresh", !.out = <<>>]
        BY <2>5 DEF HolderPicked, Refuse
      <4>2. CASE req' = Idle
        BY <4>2 DEF Idle
      <4>3. CASE req' = [req EXCEPT !.pc = "to_fresh", !.out = <<>>]
        BY <4>3 DEF RequestShape
      <4> QED
        BY <4>1, <4>2, <4>3
    <3> QED
      BY <3>1, <1>1
  <2>6. ASSUME NEW response \in Response, Meta(response) PROVE ScanInv'
    <3>1. CASE req' = Idle
      BY <3>1, <1>1 DEF Idle
    <3>2. CASE req' # Idle
      <4>1. req'.pc = "scan" /\ req'.stack = FullRange(FromBlock, HeadBlock) /\ req'.out = <<>>
        BY <2>6, <3>2 DEF Meta, Answered, StartScan, Refuse, RequestShape
      <4>2. ReadUpTo(FromBlock)'
        BY <4>1, ScanStarts, FirstBlock DEF ReadUpTo
      <4> QED
        BY <4>1, <4>2, FirstBlock DEF ScanInv, ScanComplete
    <3> QED
      BY <3>1, <3>2
  <2>7. ASSUME NEW response \in Response, ToFresh(response) \/ FromFresh(response) PROVE ScanInv'
    <3>1. req'.pc \notin {"scan", "holders"}
      <4>1. CASE ToFresh(response)
        <5>1. req' = Idle \/ Answered([req EXCEPT !.pc = "from_fresh"])
          BY <4>1 DEF ToFresh, Refuse
        <5>2. CASE req' = Idle
          BY <5>2 DEF Idle
        <5>3. CASE Answered([req EXCEPT !.pc = "from_fresh"])
          BY <5>3 DEF Answered, RequestShape
        <5> QED
          BY <5>1, <5>2, <5>3
      <4>2. CASE FromFresh(response)
        <5>1. \/ req' = [Idle EXCEPT !.pc = "meta", !.i = Min(After(req.i))]
              \/ req' = [Idle EXCEPT !.pc = "arm"]
              \/ req' = Idle
          BY <4>2 DEF FromFresh, Refuse
        <5>2. CASE req' = [Idle EXCEPT !.pc = "meta", !.i = Min(After(req.i))]
          BY <5>2 DEF Idle
        <5>3. CASE req' = [Idle EXCEPT !.pc = "arm"] \/ req' = Idle
          BY <5>3 DEF Idle
        <5> QED
          BY <5>1, <5>2, <5>3
      <4> QED
        BY <2>7, <4>1, <4>2
    <3> QED
      BY <3>1, <1>1
  <2> QED
    BY <1>5, <2>1, <2>2, <2>3, <2>4, <2>5, <2>6, <2>7, Requests
<1> QED
  BY <1>3, <1>4, <1>5 DEF Next

\* Every request keeps the three parts.
LEMMA PreflightAlways == Spec => []PreflightInv
<1>1. Init => PreflightInv
  BY DEF Init, PreflightInv, RequestShape, TokenShape, SeenInv, ScanInv, ScanComplete, Idle, Probing, Underway,
         Passed
<1>2. ASSUME PreflightInv, [Next]_vars PROVE PreflightInv'
  <2>1. CASE Next
    BY <1>2, <2>1, RequestShaped, TokenShaped, SeenInductive, ScanInductive DEF PreflightInv
  <2>2. CASE UNCHANGED vars
    BY <1>2, <2>2 DEF vars, PreflightInv, RequestShape, TokenShape, SeenInv, ScanInv, ScanComplete, ReadUpTo,
                      Probing, Underway, Passed, CanNow, Receivable, Sendable
  <2> QED
    BY <1>2, <2>1, <2>2
<1> QED
  BY <1>1, <1>2, PTL DEF Spec

\* However often the node refuses a range or is busy, a scan that ends has read every block
\* once, in order (get_logs_bisecting).
THEOREM ScanNeverSkips == Spec => []ScanComplete
<1>1. PreflightInv => ScanComplete
  BY DEF PreflightInv, ScanInv
<1> QED
  BY <1>1, PreflightAlways, PTL

\* Live mode is armed only after each symbol and the denominator could be received, and
\* could be sent, since the request came in (post_mode, check_transfer_open).
THEOREM ArmedOnlyAfterOpen == Spec => ArmedAfterOpen
<1> DEFINE Armed ==
      mode' = "live" /\ mode # "live" =>
          Range(Symbols) \cup {Denom} \subseteq could.receive \cap could.send
<1>1. ASSUME PreflightInv, [Next]_vars PROVE [Armed]_vars
  <2>1. CASE Arm
    <3>1. \A k \in PreflightTokens : Listed[k] \in could.receive \cap could.send
      BY <1>1, <2>1 DEF Arm, PreflightInv, SeenInv, Passed
    <3> QED
      BY <3>1, EachListedOnce
  <2>2. CASE mode' # "live" \/ mode' = mode
    BY <2>2
  <2>3. Arm \/ mode' # "live" \/ mode' = mode
    BY <1>1, Requests DEF Next, ContractStep, Change, PostPaper, PostLive, ProbeStep, vars,
                Throttled, ScanDone, HolderPicked, Meta, Scan, Balance, ToFresh, FromFresh
  <2> QED
    BY <2>1, <2>2, <2>3
<1> QED
  BY <1>1, PreflightAlways, PTL DEF Spec, ArmedAfterOpen
================================================================================
