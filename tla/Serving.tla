--------------------------------- MODULE Serving ---------------------------------
(***************************************************************************)
(* sherwood serve, from the vault to a request's answer: resolve_token and *)
(* run of crates/cli/src/serve_cmd.rs, ApiToken::load_or_create, TokenSet  *)
(* and require_auth of crates/server/src/auth.rs, behind the limiter of    *)
(* module RateLimiter.  The role tokens are read from the vault, or minted *)
(* into it, once, when the server starts; the secrets CLI may change the   *)
(* vault at any time, before, meanwhile and after.                         *)
(***************************************************************************)
EXTENDS Vault, RateLimiter

CONSTANTS
    Server,    \* the process that serves
    Ref        \* the vault name each configured role's token is kept under

Role == {"viewer", "operator", "admin"}
Rank(r) == CASE r = "viewer" -> 1 [] r = "operator" -> 2 [] r = "admin" -> 3

ASSUME ServingAssumption ==
    /\ Server \in Process
    /\ "admin" \in DOMAIN Ref
    /\ DOMAIN Ref \subseteq Role

VARIABLES
    server,    \* what the server is doing, its passphrase and the tokens it holds
    used,      \* history: every value some command has carried
    known,     \* history: <<name, value>> pairs the vault has held since the start
    granted    \* history: the last request let in, by token and role

servingVars == <<server, used, known, granted>>

Down == [pc |-> "down", key |-> "", tokens |-> Empty, fresh |-> ""]
NoGrant == [role |-> "", token |-> ""]

Pairs(map) == {<<n, map[n]>> : n \in DOMAIN map}

ServingInit ==
    /\ VaultInit
    /\ LimiterInit
    /\ server = Down
    /\ used = {}
    /\ known = {}
    /\ granted = NoGrant

--------------------------------------------------------------------------------
(* Starting: admin, then operator, then viewer *)

Pending == DOMAIN Ref \ DOMAIN server.tokens

\* The role whose token is resolved next.
NextRole == CHOOSE r \in Pending : \A q \in Pending : Rank(q) <= Rank(r)

Start ==
    /\ server.pc = "down" /\ job[Server].pc = "idle"
    /\ \E key \in Passphrase : server' = [Down EXCEPT !.pc = "resolve", !.key = key]
    /\ UNCHANGED <<vaultVars, limiterVars, used, granted>>

\* load_or_create finds the token ...
Loaded ==
    /\ server.pc = "resolve" /\ Pending # {}
    /\ ~LoadFails(server.key)
    /\ Ref[NextRole] \in DOMAIN file.map
    /\ server' = [server EXCEPT !.tokens = Inserted(@, NextRole, file.map[Ref[NextRole]])]
    /\ UNCHANGED <<vaultVars, limiterVars, used, granted>>

\* ... or generates one ...
Generate ==
    /\ server.pc = "resolve" /\ Pending # {}
    /\ ~LoadFails(server.key)
    /\ Ref[NextRole] \notin DOMAIN file.map
    /\ \E v \in Value \ used :
         /\ server' = [server EXCEPT !.pc = "generated", !.fresh = v]
         /\ used' = used \cup {v}
    /\ UNCHANGED <<vaultVars, limiterVars, granted>>

\* ... and sets it, reading the file once more.
StoreToken ==
    /\ server.pc = "generated"
    /\ Set(Server, Ref[NextRole], server.fresh, server.key)
    /\ server' = [server EXCEPT !.pc = "storing"]
    /\ UNCHANGED <<limiterVars, used, granted>>

TruncateForToken ==
    /\ server.pc = "storing"
    /\ Truncate(Server)
    /\ UNCHANGED <<limiterVars, server, used, granted>>

TokenStored ==
    /\ server.pc = "storing"
    /\ Write(Server)
    /\ server' = [server EXCEPT !.pc = "resolve",
                                 !.tokens = Inserted(@, NextRole, server.fresh)]
    /\ UNCHANGED <<limiterVars, used, granted>>

\* The vault cannot be read: the command ends.
VaultUnreadable ==
    /\ \/ server.pc = "resolve" /\ Pending # {}
       \/ server.pc = "generated"
    /\ LoadFails(server.key)
    /\ server' = Down
    /\ UNCHANGED <<vaultVars, limiterVars, used, granted>>

\* Every token is there: the server binds and answers.
Bind ==
    /\ server.pc = "resolve" /\ Pending = {}
    /\ server' = [server EXCEPT !.pc = "up"]
    /\ UNCHANGED <<vaultVars, limiterVars, used, granted>>

\* The server stops or dies, in the middle of a write or not.  The limiter's state
\* goes with it, so the clock may start anew.
Exit ==
    /\ server.pc # "down"
    /\ server' = Down
    /\ granted' = NoGrant
    /\ IF job[Server].pc = "idle" THEN UNCHANGED vaultVars ELSE Abort(Server)
    /\ LimiterReset
    /\ UNCHANGED used

--------------------------------------------------------------------------------
(* A request *)

\* Mutant: a viewer's token is tried against the operator slot.
MutRoleFor(token) ==
    {r \in Role : \E q \in DOMAIN server.tokens :
       server.tokens[q] = token /\ r = IF q = "viewer" THEN "operator" ELSE q}

\* role_for: the roles whose token this is; the highest counts.
RoleFor(token) == {r \in DOMAIN server.tokens : server.tokens[r] = token}

\* Caller::require.
Grants(token, needed) == \E r \in RoleFor(token) : Rank(r) >= Rank(needed)

\* A request past the limiter is let in, or answered 401 or 403.
Request ==
    /\ server.pc = "up"
    /\ Admit
    /\ \E token \in used, needed \in Role :
         granted' = IF Grants(token, needed) THEN [role |-> needed, token |-> token]
                                             ELSE granted
    /\ UNCHANGED <<vaultVars, server, used>>

Limited ==
    /\ server.pc = "up"
    /\ TooManyRequests
    /\ UNCHANGED <<vaultVars, server, used, granted>>

--------------------------------------------------------------------------------
(* The CLI and the clock *)

\* sherwood secrets set, rm; sherwood restore.
Cli(p) ==
    /\ \/ \E n \in Name, v \in Value, key \in Passphrase :
            Set(p, n, v, key) /\ used' = used \cup {v}
       \/ \E n \in Name, key \in Passphrase : Delete(p, n, key) /\ UNCHANGED used
       \/ \E force \in BOOLEAN : Restore(p, force) /\ UNCHANGED used
       \/ (Truncate(p) \/ Write(p) \/ Abort(p)) /\ UNCHANGED used
    /\ UNCHANGED <<limiterVars, server, granted>>

Environment ==
    \/ Backup /\ UNCHANGED <<limiterVars, server, used, granted>>
    \/ server.pc = "up" /\ Tick /\ UNCHANGED <<vaultVars, server, used, granted>>

ServingStep ==
    \/ Start \/ Loaded \/ Generate \/ StoreToken \/ TruncateForToken \/ TokenStored
    \/ VaultUnreadable \/ Bind \/ Exit
    \/ Request \/ Limited
    \/ \E p \in Process \ {Server} : Cli(p)
    \/ Environment

ServingNext ==
    /\ ServingStep
    /\ known' = Pairs(stored') \cup (IF server.pc = "down" THEN {} ELSE known)

ServingSpec ==
    ServingInit /\ [][ServingNext]_<<vaultVars, limiterVars, servingVars>>

--------------------------------------------------------------------------------
(* Properties *)

\* A token replaced or removed before the server started is never let in again, and
\* no token above the role it was kept for: whoever was granted a role presented what
\* the vault held for that role, or a higher one, at some moment since the start.
\* (A rotation does not reach a server that is running; and two rewrites of the vault
\* that overlap may bring a removed token back, so those runs are excepted.)
RevokedStaysOut ==
    ~overlap /\ granted # NoGrant =>
      \E r \in DOMAIN Ref :
        /\ Rank(r) >= Rank(granted.role)
        /\ <<Ref[r], granted.token>> \in known
================================================================================
