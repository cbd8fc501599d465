------------------------------- MODULE Access -------------------------------
(***************************************************************************)
(* Who owns an idea: anonymous sessions and their sliding expiry, magic    *)
(* links, accounts, and the transfer of a session's ideas to the account   *)
(* that claims it (routers/v1_auth.py, services/auth_tokens.py, the        *)
(* session, account and idea repositories, core/session.py).               *)
(*                                                                         *)
(* Each MongoDB call is one step: it finds MongoDB marked unavailable and  *)
(* does nothing, or returns, or raises and marks it unavailable, a write   *)
(* then applied or not.  Redis fails likewise, and auth_tokens then keeps  *)
(* to the memory of the process.  An account is named by the verify        *)
(* request that created it.  The limiter in front of a claim is left out:  *)
(* a claim it refuses does nothing.                                        *)
(***************************************************************************)
EXTENDS Integers

CONSTANTS
  Sessions,     \* session ids
  Emails,       \* addresses a founder may claim with
  Ideas,        \* ideas (one POST /v1/ideas each)
  Tokens,       \* magic-link tokens, never reused
  Verifies,     \* POST /auth/verify requests
  None,         \* no account, no address, no session
  MaxRestarts,  \* bound: how often the process dies
  BothMayFail   \* BOOLEAN, bound: MongoDB and Redis fail under one process

ASSUME AccessAssumption ==
  /\ None \notin Sessions \cup Emails \cup Verifies \cup Tokens
  /\ MaxRestarts \in Nat /\ BothMayFail \in BOOLEAN

VARIABLES
  redis,       \* tokens stored in Redis
  memory,      \* tokens in _memory_tokens
  redisAvailable, \* auth_tokens._redis_available
  link,        \* what a token was issued for
  expired,     \* tokens whose TTL has passed
  redeemed,    \* history: how often redeem_token returned the token's payload
  inBoth,      \* history: tokens Redis stored though SETEX raised: they went to
               \* the memory as well
  account,     \* accounts: the address of the account a request created
  sessionIds,  \* accounts.session_ids
  ttl,         \* sessions.expires_at: "gone" (no document), "sliding" or "far"
  bound,       \* sessions.account_id
  gaps,        \* history: sessions whose document expired, or was missing when a
               \* link was issued for them
  idea,        \* where the request for an idea is; "there" with its document
  ideaSession, \* ideas.session_id
  ideaAccount, \* ideas.account_id, first as the request read it
  pc,          \* where each verify request is
  presented,   \* the token whose payload a verify request was given
  found,       \* the account it goes on with
  mongoAvailable, \* services.mongo._mongo_available
  restarts     \* how often the process died

tokenVars == <<redis, memory, redisAvailable, link, expired, redeemed, inBoth>>
accountVars == <<account, sessionIds>>
sessionVars == <<ttl, bound, gaps>>
ideaVars == <<idea, ideaSession, ideaAccount>>
verifyVars == <<pc, presented, found>>
vars == <<tokenVars, accountVars, sessionVars, ideaVars, verifyVars,
          mongoAvailable, restarts>>

NotIssued == [email |-> None, session |-> None]
Links == [email : Emails, session : Sessions] \cup {NotIssued}

TokenTypes ==
  /\ redis \in SUBSET Tokens /\ memory \in SUBSET Tokens
  /\ expired \in SUBSET Tokens
  /\ link \in [Tokens -> Links]
  /\ redeemed \in [Tokens -> Nat] /\ inBoth \in SUBSET Tokens
  /\ redisAvailable \in BOOLEAN /\ mongoAvailable \in BOOLEAN
  /\ restarts \in Nat
DocumentTypes ==
  /\ account \in [Verifies -> Emails \cup {None}]
  /\ sessionIds \in [Verifies -> SUBSET Sessions]
  /\ ttl \in [Sessions -> {"gone", "sliding", "far"}]
  /\ bound \in [Sessions -> Verifies \cup {None}]
  /\ gaps \in SUBSET Sessions
IdeaTypes ==
  /\ idea \in [Ideas -> {"none", "owner", "create", "there", "lost"}]
  /\ ideaSession \in [Ideas -> Sessions \cup {None}]
  /\ ideaAccount \in [Ideas -> Verifies \cup {None}]
VerifyTypes ==
  /\ pc \in [Verifies -> {"idle", "find", "create", "reread", "add", "bind",
                          "transfer", "over"}]
  /\ presented \in [Verifies -> Tokens \cup {None}]
  /\ found \in [Verifies -> Verifies \cup {None}]
TypeOK == TokenTypes /\ DocumentTypes /\ IdeaTypes /\ VerifyTypes

Init ==
  /\ redis = {} /\ memory = {} /\ expired = {} /\ inBoth = {}
  /\ link = [t \in Tokens |-> NotIssued]
  /\ redeemed = [t \in Tokens |-> 0]
  /\ account = [v \in Verifies |-> None]
  /\ sessionIds = [v \in Verifies |-> {}]
  /\ ttl = [s \in Sessions |-> "gone"]
  /\ bound = [s \in Sessions |-> None]
  /\ gaps = {}
  /\ idea = [i \in Ideas |-> "none"]
  /\ ideaSession = [i \in Ideas |-> None]
  /\ ideaAccount = [i \in Ideas |-> None]
  /\ pc = [v \in Verifies |-> "idle"]
  /\ presented = [v \in Verifies |-> None]
  /\ found = [v \in Verifies |-> None]
  /\ redisAvailable = TRUE /\ mongoAvailable = TRUE
  /\ restarts = 0

-----------------------------------------------------------------------------
\* A MongoDB call returns; raises; finds MongoDB marked unavailable.
Returns == mongoAvailable /\ UNCHANGED mongoAvailable
Raises  == mongoAvailable /\ mongoAvailable' = FALSE
             /\ (redisAvailable \/ BothMayFail)
Skips   == ~mongoAvailable /\ UNCHANGED mongoAvailable

\* Redis answers; raises, and is not asked again; is not asked.
RedisAnswers == redisAvailable /\ UNCHANGED redisAvailable
RedisRaises  == redisAvailable /\ redisAvailable' = FALSE
                  /\ (mongoAvailable \/ BothMayFail)
RedisOff     == ~redisAvailable /\ UNCHANGED redisAvailable

Goto(v, label) == pc' = [pc EXCEPT ![v] = label]

\* Requests that end, with whatever status, keep nothing.
End(vs) ==
  /\ pc' = [v \in Verifies |-> IF v \in vs THEN "over" ELSE pc[v]]
  /\ presented' = [v \in Verifies |-> IF v \in vs THEN None ELSE presented[v]]
  /\ found' = [v \in Verifies |-> IF v \in vs THEN None ELSE found[v]]

\* idea_repository.owns, for a caller of session s.
Owns(s, i) ==
  /\ idea[i] = "there"
  /\ \/ ideaSession[i] = s /\ ideaAccount[i] = None
     \/ bound[s] # None /\ ideaAccount[i] = bound[s]

\* Accounts of an address.
AccountsOf(e) == {a \in Verifies : account[a] = e}

-----------------------------------------------------------------------------
\* Mutant: $set instead of $setOnInsert, so a request unbinds its session.
TouchedAfresh(s) ==
  /\ ttl' = [ttl EXCEPT ![s] = "sliding"]
  /\ bound' = [bound EXCEPT ![s] = None]
  /\ UNCHANGED gaps

\* get_or_create_session, at the start of every request of a session: the
\* expiry is 30 days ahead again, whatever it was; a new document has no
\* account.
Touched(s) ==
  /\ ttl' = [ttl EXCEPT ![s] = "sliding"]
  /\ bound' = [bound EXCEPT ![s] = IF ttl[s] = "gone" THEN None ELSE @]
  /\ UNCHANGED gaps

Touch(s) ==
  \/ (Returns \/ Raises) /\ Touched(s)
  \/ (Raises \/ Skips) /\ UNCHANGED sessionVars

\* A request that needs the session alone: GET /me, POST /session.
Visit(s) ==
  /\ Touch(s)
  /\ UNCHANGED <<tokenVars, accountVars, ideaVars, verifyVars, restarts>>

\* POST /auth/claim: the session, then issue_token; a token whose SETEX fails
\* goes to the memory, and may be in Redis all the same.
Claim(s, e, t) ==
  /\ link[t] = NotIssued
  /\ \/ (Returns \/ Raises) /\ Touched(s)
     \/ /\ Raises \/ Skips
        /\ gaps' = IF ttl[s] = "gone" THEN gaps \cup {s} ELSE gaps
        /\ UNCHANGED <<ttl, bound>>
  /\ link' = [link EXCEPT ![t] = [email |-> e, session |-> s]]
  /\ \/ RedisAnswers /\ redis' = redis \cup {t} /\ UNCHANGED memory
     \/ /\ RedisRaises
        /\ redis' \in {redis, redis \cup {t}}
        /\ memory' = memory \cup {t}
     \/ RedisOff /\ memory' = memory \cup {t} /\ UNCHANGED redis
  /\ inBoth' = inBoth \cup (redis' \cap memory' \cap {t})
  /\ UNCHANGED <<expired, redeemed, accountVars, ideaVars, verifyVars, restarts>>

\* The 15 minutes of a stored token pass: Redis drops it, the memory compares
\* its deadline.
ExpireToken(t) ==
  /\ t \in (redis \cup memory) \ expired
  /\ expired' = expired \cup {t}
  /\ redis' = redis \ {t}
  /\ UNCHANGED <<memory, redisAvailable, link, redeemed, inBoth, accountVars,
                 sessionVars, ideaVars, verifyVars, mongoAvailable, restarts>>

\* Thirty days without a request of s: none of its requests is in flight and
\* its links are redeemed or long expired.
Idle(s) ==
  /\ \A i \in Ideas : ideaSession[i] = s => idea[i] \notin {"owner", "create"}
  /\ \A t \in redis \cup memory : link[t].session = s => t \in expired
  /\ \A v \in Verifies :
       pc[v] \in {"find", "create", "reread", "add", "bind", "transfer"}
         => link[presented[v]].session # s

ExpireSession(s) ==
  /\ ttl[s] = "sliding" /\ Idle(s)
  /\ ttl' = [ttl EXCEPT ![s] = "gone"]
  /\ bound' = [bound EXCEPT ![s] = None]
  /\ gaps' = gaps \cup {s}
  /\ UNCHANGED <<tokenVars, accountVars, ideaVars, verifyVars, mongoAvailable,
                 restarts>>

-----------------------------------------------------------------------------
\* POST /v1/ideas by session s: the session is touched,
AskIdea(i, s) ==
  /\ idea[i] = "none"
  /\ Touch(s)
  /\ idea' = [idea EXCEPT ![i] = "owner"]
  /\ ideaSession' = [ideaSession EXCEPT ![i] = s]
  /\ UNCHANGED <<tokenVars, accountVars, ideaAccount, verifyVars, restarts>>

\* its account is read,
ReadOwner(i) ==
  /\ idea[i] = "owner"
  /\ idea' = [idea EXCEPT ![i] = "create"]
  /\ \/ Returns /\ ideaAccount' = [ideaAccount EXCEPT ![i] = bound[ideaSession[i]]]
     \/ (Raises \/ Skips) /\ UNCHANGED ideaAccount
  /\ UNCHANGED <<tokenVars, accountVars, sessionVars, ideaSession, verifyVars,
                 restarts>>

\* and the idea is inserted with both.  Its first snapshot is ScoreHistory's.
CreateIdea(i) ==
  /\ idea[i] = "create"
  /\ \/ (Returns \/ Raises) /\ idea' = [idea EXCEPT ![i] = "there"]
     \/ (Raises \/ Skips) /\ idea' = [idea EXCEPT ![i] = "lost"]
  /\ UNCHANGED <<tokenVars, accountVars, sessionVars, ideaSession, ideaAccount,
                 verifyVars, restarts>>

-----------------------------------------------------------------------------
\* Mutant: get where the code pops.
PeekInMemory(t) == UNCHANGED memory

\* redeem_token: GET and DELETE in one MULTI; whatever Redis did not give is
\* looked for in the memory, and taken out of it.
TakeFromMemory(t) == memory' = memory \ {t}
InMemory(t) == t \in memory \ expired

Redeem(v, t) ==
  /\ pc[v] = "idle" /\ link[t] # NotIssued
  /\ \E given \in BOOLEAN :
       /\ \/ /\ RedisAnswers /\ t \in redis /\ given
             /\ redis' = redis \ {t} /\ UNCHANGED memory
          \/ /\ RedisAnswers /\ t \notin redis
             /\ TakeFromMemory(t) /\ given = InMemory(t) /\ UNCHANGED redis
          \/ /\ RedisRaises /\ redis' \in {redis, redis \ {t}}
             /\ TakeFromMemory(t) /\ given = InMemory(t)
          \/ /\ RedisOff /\ UNCHANGED redis
             /\ TakeFromMemory(t) /\ given = InMemory(t)
       /\ redeemed' = [redeemed EXCEPT ![t] = IF given THEN @ + 1 ELSE @]
       /\ \/ /\ given /\ Goto(v, "find")
             /\ presented' = [presented EXCEPT ![v] = t] /\ UNCHANGED found
          \/ ~given /\ End({v})
  /\ UNCHANGED <<link, expired, inBoth, accountVars, sessionVars, ideaVars,
                 mongoAvailable, restarts>>

\* The link a verify request holds.
Link(v) == link[presented[v]]

\* get_by_email, asked before an account is made and again if that fails, when
\* the request is given up.
Known(v) ==
  /\ Returns /\ Goto(v, "add") /\ UNCHANGED presented
  /\ \E a \in AccountsOf(Link(v).email) : found' = [found EXCEPT ![v] = a]
Unknown(v) == Raises \/ Skips \/ (Returns /\ AccountsOf(Link(v).email) = {})

FindAccount(v) ==
  /\ pc[v] = "find"
  /\ \/ Known(v)
     \/ Unknown(v) /\ Goto(v, "create") /\ UNCHANGED <<presented, found>>
  /\ UNCHANGED <<tokenVars, accountVars, sessionVars, ideaVars, restarts>>

RereadAccount(v) ==
  /\ pc[v] = "reread"
  /\ Known(v) \/ (Unknown(v) /\ End({v}))
  /\ UNCHANGED <<tokenVars, accountVars, sessionVars, ideaVars, restarts>>

\* create_account: a second document of an address is refused, by the find or
\* by the unique index.
Registered(v) == account' = [account EXCEPT ![v] = Link(v).email]
AddressTaken(v) == AccountsOf(Link(v).email) # {}

CreateAccount(v) ==
  /\ pc[v] = "create"
  /\ \/ /\ Returns /\ ~AddressTaken(v) /\ Registered(v)
        /\ found' = [found EXCEPT ![v] = v] /\ Goto(v, "add")
     \/ /\ Raises /\ ~AddressTaken(v) /\ Registered(v)
        /\ Goto(v, "reread") /\ UNCHANGED found
     \/ /\ Returns /\ AddressTaken(v)
        /\ Goto(v, "reread") /\ UNCHANGED <<account, found>>
     \/ /\ Raises \/ Skips
        /\ Goto(v, "reread") /\ UNCHANGED <<account, found>>
  /\ UNCHANGED <<tokenVars, sessionIds, sessionVars, ideaVars, presented, restarts>>

\* account_repository.add_session_id
AddSession(v) ==
  /\ pc[v] = "add" /\ Goto(v, "bind")
  /\ \/ /\ Returns \/ Raises
        /\ sessionIds' = [sessionIds EXCEPT ![found[v]] = @ \cup {Link(v).session}]
     \/ (Raises \/ Skips) /\ UNCHANGED sessionIds
  /\ UNCHANGED <<tokenVars, account, sessionVars, ideaVars, presented, found,
                 restarts>>

\* session_repository.set_account_id: an update, which makes no document.
Bind(v) ==
  LET s == Link(v).session IN
  /\ pc[v] = "bind" /\ Goto(v, "transfer")
  /\ \/ /\ Returns \/ Raises
        /\ ttl[s] # "gone"
        /\ bound' = [bound EXCEPT ![s] = found[v]]
        /\ ttl' = [ttl EXCEPT ![s] = "far"]
     \/ /\ Returns /\ ttl[s] = "gone" /\ UNCHANGED <<bound, ttl>>
     \/ (Raises \/ Skips) /\ UNCHANGED <<bound, ttl>>
  /\ UNCHANGED <<tokenVars, accountVars, gaps, ideaVars, presented, found,
                 restarts>>

\* Mutants: a filter on the account alone; the address passed for the account.
ClaimableAnywhere(s) == {i \in Ideas : idea[i] = "there" /\ ideaAccount[i] = None}
TransferredToAddress(v, is) ==
  ideaAccount' = [i \in Ideas |-> IF i \in is THEN Link(v).email ELSE ideaAccount[i]]

\* idea_repository.transfer_to_account: the session's ideas nobody has claimed,
\* all of them unless it fails on the way.
Claimable(s) == {i \in Ideas : idea[i] = "there" /\ ideaSession[i] = s
                                 /\ ideaAccount[i] = None}
Transferred(v, is) ==
  ideaAccount' = [i \in Ideas |-> IF i \in is THEN found[v] ELSE ideaAccount[i]]

Transfer(v) ==
  /\ pc[v] = "transfer" /\ End({v})
  /\ \/ Returns /\ Transferred(v, Claimable(Link(v).session))
     \/ Raises /\ \E is \in SUBSET Claimable(Link(v).session) : Transferred(v, is)
     \/ Skips /\ UNCHANGED ideaAccount
  /\ UNCHANGED <<tokenVars, accountVars, sessionVars, idea, ideaSession, restarts>>

-----------------------------------------------------------------------------
\* The process dies and is started again: its memory is gone, and Redis and
\* MongoDB are tried again.
Restart ==
  /\ restarts < MaxRestarts
  /\ restarts' = restarts + 1
  /\ memory' = {}
  /\ redisAvailable' = TRUE /\ mongoAvailable' = TRUE
  /\ End({v \in Verifies : pc[v] # "idle"})
  /\ idea' = [i \in Ideas |->
               IF idea[i] \in {"owner", "create"} THEN "lost" ELSE idea[i]]
  /\ UNCHANGED <<redis, link, expired, redeemed, inBoth, accountVars, sessionVars,
                 ideaSession, ideaAccount>>

VerifyStep(v) == FindAccount(v) \/ CreateAccount(v) \/ RereadAccount(v)
                   \/ AddSession(v) \/ Bind(v) \/ Transfer(v)

Next ==
  \/ \E s \in Sessions : Visit(s) \/ ExpireSession(s)
  \/ \E s \in Sessions, e \in Emails, t \in Tokens : Claim(s, e, t)
  \/ \E t \in Tokens : ExpireToken(t)
  \/ \E i \in Ideas, s \in Sessions : AskIdea(i, s)
  \/ \E i \in Ideas : ReadOwner(i) \/ CreateIdea(i)
  \/ \E v \in Verifies, t \in Tokens : Redeem(v, t)
  \/ \E v \in Verifies : VerifyStep(v)
  \/ Restart

Spec == Init /\ [][Next]_vars

-----------------------------------------------------------------------------
\* A token is redeemed at most once per copy that was stored of it, however Redis
\* fails between a call and its answer and whenever the process dies: twice only
\* if SETEX raised after Redis had stored it, and never twice by one process.
RedeemedOncePerCopy ==
  \A t \in Tokens : /\ redeemed[t] <= IF t \in inBoth THEN 2 ELSE 1
                    /\ redeemed[t] <= 1 + restarts

\* "can never be redeemed twice" (redeem_token), without that exception.  It does
\* not hold: the memory's copy is redeemed, the process dies, and the next one is
\* given the copy that Redis kept.
RedeemedOnce == \A t \in Tokens : redeemed[t] <= 1

\* An account lists a session only if a link that was sent to the account's
\* address for that very session was redeemed; a session is bound, and an idea
\* belongs, only to an account that lists the session.  A claim that fails half
\* way, or overlaps another, thus leaves a prefix of its three writes.
Proven(a, s) ==
  \E t \in Tokens : redeemed[t] > 0
                      /\ link[t] = [email |-> account[a], session |-> s]
OwnershipIsProven ==
  /\ \A a \in Verifies : \A s \in sessionIds[a] : Proven(a, s)
  /\ \A s \in Sessions : bound[s] # None => s \in sessionIds[bound[s]]
  /\ \A i \in Ideas :
       ideaAccount[i] # None => ideaSession[i] \in sessionIds[ideaAccount[i]]

\* Two sessions open the same idea only after a link to one address was
\* redeemed for each of them: the answer of owns, for any caller.
SharedByProofOnly ==
  \A s \in Sessions, i \in Ideas :
    Owns(s, i) /\ s # ideaSession[i] =>
      \E a \in Verifies : Proven(a, s) /\ Proven(a, ideaSession[i])

\* An idea that belongs to an account never goes to another, whatever claims
\* overlap, fail half way or name the same session.
IdeaKeepsItsAccount ==
  [][\A i \in Ideas : idea[i] = "there" /\ ideaAccount[i] # None
       => ideaAccount'[i] = ideaAccount[i]]_vars

\* A session does not lose an idea it may open, not while it is being claimed
\* and not if the claim fails half way.  Excepted are sessions whose document
\* expired or was missing when the link was issued, and those for which links
\* for two addresses were redeemed.
TwoAddresses(s) ==
  \E t, u \in Tokens : /\ redeemed[t] > 0 /\ redeemed[u] > 0
                       /\ link[t].session = s /\ link[u].session = s
                       /\ link[t].email # link[u].email
FounderKeepsIdeas ==
  [][\A s \in Sessions, i \in Ideas :
       Owns(s, i) => Owns(s, i)' \/ s \in gaps' \/ TwoAddresses(s)']_vars

\* set_account_id: a session that is bound to an account stays bound.
SessionStaysBound == [][\A s \in Sessions : bound[s] # None => bound'[s] # None]_vars
=============================================================================
