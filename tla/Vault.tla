-------------------------------- MODULE Vault --------------------------------
(***************************************************************************)
(* The Vault client (src/security/crypto/vault.py): coroutines read and    *)
(* write one secret through _request(), which retries, and read_secret()   *)
(* caches what it read for cache_ttl seconds.  A version of the secret is  *)
(* a number; every write that takes effect in Vault makes a new one.       *)
(***************************************************************************)
EXTENDS Naturals

CONSTANTS Callers,      \* coroutines that use the client
          VaultRetries, \* config.retries
          MaxVersions   \* bound on the writes that take effect

NoEntry == 0   \* nothing cached; versions start at 1

VARIABLES secret,    \* the version Vault holds
          cache,     \* the version cached under the path, or NoEntry
          token,     \* _token is set
          session,   \* _session: "none", "open" or "closed"
          call,      \* [op, at, tries, answer] of every caller
          window     \* an old version may be cached: see Execute and Answered

vaultVars == <<secret, cache, token, session, call, window>>

Idle == [op |-> "none", at |-> "idle", tries |-> 0, answer |-> NoEntry]

VaultInit ==
    /\ secret = 1 /\ cache = NoEntry
    /\ token = FALSE /\ session = "none"
    /\ call = [c \in Callers |-> Idle]
    /\ window = FALSE

Opens == session # "open" /\ session' = "open"        \* connect()
Closes == session = "open" /\ session' = "closed"     \* close()

Session == (Opens \/ Closes) /\ UNCHANGED <<secret, cache, token, call, window>>

\* authenticate() with a token; with an AppRole it is a request.
UseToken ==
    /\ token' = TRUE
    /\ UNCHANGED <<secret, cache, session, call, window>>

\* read_secret() answers from the cache without a request.  The others
\* (renew_token(), credentials and the transit calls) keep no state.
Ask(c, op) ==
    /\ call[c].at = "idle"
    /\ op = "read" => cache = NoEntry
    /\ call' = [call EXCEPT ![c] = [Idle EXCEPT !.op = op, !.at = "sent"]]
    /\ UNCHANGED <<secret, cache, token, session, window>>

\* Vault executes the request: external.
Execute(c) ==
    /\ call[c].at = "sent" /\ session = "open"
    /\ call[c].op = "write" => secret < MaxVersions
    /\ call' = [call EXCEPT ![c].at = "executed", 
                                 ![c].answer = IF call[c].op = "read" THEN secret ELSE NoEntry]
    /\ secret' = IF call[c].op = "write" THEN secret + 1 ELSE secret
    /\ window' = (window \/ call[c].op = "write")
    /\ UNCHANGED <<cache, token, session>>

\* A read that Vault answered before a later write.
OldAnswer(r) == call[r].op = "read" /\ call[r].at = "executed" /\ call[r].answer < secret

\* MUTANT of AfterWrite: a write keeps what is cached.
AfterWriteKeep == cache

\* _cache.clear() in write_secret().
AfterWrite == NoEntry

Return(c) == call' = [call EXCEPT ![c] = Idle]

\* A response with a good status, and what the operation does with it.
Answered(c) ==
    /\ call[c].at = "executed"
    /\ Return(c)
    /\ cache' = CASE call[c].op = "read"  -> call[c].answer
                  [] call[c].op = "write" -> AfterWrite
                  [] OTHER                -> cache
    /\ window' = IF call[c].op = "write" THEN \E r \in Callers : OldAnswer(r) ELSE window
    /\ token' = (token \/ call[c].op = "login")
    /\ UNCHANGED <<secret, session>>

\* An error status, before or after the request took effect: it is caught
\* as a ClientError, and the request is repeated after a pause.
ErrorStatus(c) ==
    /\ call[c].at \in {"sent", "executed"} /\ session = "open"
    /\ \/ /\ call[c].tries < VaultRetries
          /\ call' = [call EXCEPT ![c].at = "sent", ![c].tries = @ + 1, ![c].answer = NoEntry]
       \/ call[c].tries = VaultRetries /\ Return(c)   \* VaultConnectionError
    /\ UNCHANGED <<secret, cache, token, session, window>>

\* No response: the finally clause reads resp.status.  Before any response
\* resp is unbound and the call raises; afterwards the old one is there
\* and the request is repeated like after an error status.  A closed
\* session and a timeout are not ClientErrors: they raise as well.
NoResponse(c) ==
    /\ call[c].at \in {"sent", "executed"}
    /\ \/ Return(c)
       \/ /\ session = "open" /\ call[c].tries \in 1..(VaultRetries - 1)
          /\ call' = [call EXCEPT ![c].at = "sent", ![c].tries = @ + 1, ![c].answer = NoEntry]
    /\ UNCHANGED <<secret, cache, token, session, window>>

\* The entry's time to live has passed.
Expire ==
    /\ cache # NoEntry /\ cache' = NoEntry
    /\ UNCHANGED <<secret, token, session, call, window>>

VaultNext ==
    \/ Session \/ UseToken \/ Expire
    \/ \E c \in Callers :
          \/ \E op \in {"read", "write", "login", "other"} : Ask(c, op)
          \/ Execute(c) \/ Answered(c) \/ ErrorStatus(c) \/ NoResponse(c)

VaultSpec == VaultInit /\ [][VaultNext]_vaultVars
-----------------------------------------------------------------------------
(* read_secret() never serves an old version from the cache, outside the   *)
(* window that a write opens when it takes effect in Vault.  write_secret() *)
(* closes it by clearing the cache, unless a read answered earlier is still *)
(* in flight, and it stays open when the write raises although it took     *)
(* effect; nothing else lets an old version into the cache.                *)
CacheCoherent == ~window => cache \in {NoEntry, secret}
=============================================================================
