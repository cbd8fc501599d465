---------------------------- MODULE AccessProofs ----------------------------
(***************************************************************************)
(* Proofs about Access, for any sessions, addresses, ideas, tokens and     *)
(* requests, and every fault: types, how often a token is redeemed, what   *)
(* an ownership rests on, and that claims take no idea from its founder.   *)
(***************************************************************************)
EXTENDS Access, TLAPS

Active(v) == pc[v] \in {"find", "create", "reread", "add", "bind", "transfer"}

\* A process writes to its memory only after it has given up Redis, and stores
\* only tokens it has issued; only those are redeemed.
Stores ==
  /\ redisAvailable => memory = {}
  /\ \A t \in redis \cup memory : link[t] # NotIssued
  /\ \A t \in Tokens : redeemed[t] > 0 => link[t] # NotIssued

\* A token this process has redeemed is out of its reach.
SpentIsGone ==
  \A t \in Tokens : redeemed[t] > restarts =>
    t \notin memory /\ (redisAvailable => t \notin redis)

\* Each redemption uses up a copy: those made and those still stored are together
\* no more than were stored once.
Left(t) == (IF t \in redis THEN 1 ELSE 0) + (IF t \in memory THEN 1 ELSE 0)
CopiesUsedUp ==
  \A t \in Tokens : redeemed[t] + Left(t) <= IF t \in inBoth THEN 2 ELSE 1

\* A request in progress holds a redeemed link, and the account of its address.
RequestsInOrder ==
  \A v \in Verifies :
    /\ Active(v) => /\ presented[v] \in Tokens
                    /\ redeemed[presented[v]] > 0
                    /\ Link(v) # NotIssued
    /\ pc[v] \in {"add", "bind", "transfer"} =>
         found[v] \in Verifies /\ account[found[v]] = Link(v).email
    /\ pc[v] \in {"idle", "find", "create"} => account[v] = None

\* A request for an idea has a session; until the session's account is read,
\* the idea has none.
IdeasInOrder ==
  \A i \in Ideas :
    /\ idea[i] # "none" => ideaSession[i] \in Sessions
    /\ idea[i] \in {"none", "owner"} => ideaAccount[i] = None

OneAccountPerAddress ==
  \A a, b \in Verifies : account[a] # None /\ account[a] = account[b] => a = b

\* A bound session has a document; one a link was issued for has one, or is
\* among the gaps.
SessionsInOrder ==
  /\ \A s \in Sessions : bound[s] # None => ttl[s] # "gone"
  /\ \A t \in Tokens : link[t] # NotIssued =>
       ttl[link[t].session] # "gone" \/ link[t].session \in gaps

\* A request about to bind its session has listed it in the account.
Linking(v) == pc[v] \in {"bind", "transfer"}
ListedBeforeBound ==
  \A v \in Verifies : Linking(v) =>
    ~mongoAvailable \/ Link(v).session \in sessionIds[found[v]]

\* When a session's ideas are about to go to an account, it is bound to it.
Excepted(s) == s \in gaps \/ TwoAddresses(s)
BoundBeforeTransfer ==
  \A v \in Verifies : pc[v] = "transfer" =>
    \/ ~mongoAvailable \/ Excepted(Link(v).session)
    \/ bound[Link(v).session] = found[v]

IInv ==
  /\ TypeOK
  /\ Stores
  /\ SpentIsGone
  /\ CopiesUsedUp
  /\ RequestsInOrder
  /\ IdeasInOrder
  /\ OneAccountPerAddress
  /\ SessionsInOrder
  /\ ListedBeforeBound
  /\ BoundBeforeTransfer
  /\ RedeemedOncePerCopy
  /\ OwnershipIsProven

USE AccessAssumption

LEMMA InvariantInit == Init => IInv
BY DEF Init, IInv, TypeOK, TokenTypes, DocumentTypes, IdeaTypes, VerifyTypes,
       Stores, SpentIsGone, CopiesUsedUp, Left, RequestsInOrder, Active,
       IdeasInOrder, OneAccountPerAddress, SessionsInOrder, BoundBeforeTransfer,
       ListedBeforeBound, Linking, RedeemedOncePerCopy, OwnershipIsProven, Links, NotIssued

\* A link names an address and a session.
LEMMA LinkNames ==
  ASSUME TypeOK, NEW t \in Tokens, link[t] # NotIssued
  PROVE  link[t].email \in Emails /\ link[t].session \in Sessions
BY DEF TypeOK, TokenTypes, Links

LEMMA TokenTypesStep ==
  ASSUME TypeOK, [Next]_vars
  PROVE  TokenTypes'
<1> USE DEF TypeOK, TokenTypes, tokenVars, Returns, Raises, Skips,
            RedisAnswers, RedisRaises, RedisOff
<1>1. ASSUME NEW s \in Sessions, Visit(s)
      PROVE  TokenTypes'
  BY <1>1 DEF Visit, Touch
<1>2. ASSUME NEW s \in Sessions, NEW e \in Emails, NEW t \in Tokens, Claim(s, e, t)
      PROVE  TokenTypes'
  <2>1. [email |-> e, session |-> s] \in Links
    BY DEF Links
  <2>2. link' \in [Tokens -> Links]
    BY <1>2, <2>1 DEF Claim
  <2>3. QED
    BY <1>2, <2>2 DEF Claim
<1>3. ASSUME NEW t \in Tokens, ExpireToken(t)
      PROVE  TokenTypes'
  BY <1>3 DEF ExpireToken
<1>4. ASSUME NEW i \in Ideas, NEW s \in Sessions, AskIdea(i, s)
      PROVE  TokenTypes'
  BY <1>4 DEF AskIdea, Touch
<1>5. ASSUME NEW i \in Ideas, ReadOwner(i) \/ CreateIdea(i)
      PROVE  TokenTypes'
  BY <1>5 DEF ReadOwner, CreateIdea
<1>6. ASSUME NEW v \in Verifies, NEW t \in Tokens, Redeem(v, t)
      PROVE  TokenTypes'
  <2>1. redis' \in SUBSET Tokens /\ memory' \in SUBSET Tokens
    BY <1>6 DEF Redeem, TakeFromMemory
  <2>2. redeemed' \in [Tokens -> Nat]
    BY <1>6 DEF Redeem
  <2>3. UNCHANGED <<expired, inBoth, link, mongoAvailable, restarts>>
    BY <1>6 DEF Redeem
  <2>4. redisAvailable' \in BOOLEAN
    BY <1>6 DEF Redeem
  <2>5. QED
    BY <2>1, <2>2, <2>3, <2>4
<1>7. ASSUME NEW v \in Verifies, VerifyStep(v)
      PROVE  TokenTypes'
  <2>1. CASE FindAccount(v) \/ RereadAccount(v)
    BY <2>1 DEF FindAccount, RereadAccount, Known, Unknown
  <2>2. CASE CreateAccount(v)
    BY <2>2 DEF CreateAccount
  <2>3. CASE AddSession(v) \/ Bind(v)
    BY <2>3 DEF AddSession, Bind
  <2>4. CASE Transfer(v)
    BY <2>4 DEF Transfer
  <2>5. QED
    BY <1>7, <2>1, <2>2, <2>3, <2>4 DEF VerifyStep
<1>8. CASE Restart
  BY <1>8 DEF Restart
<1>9. CASE UNCHANGED vars \/ \E s \in Sessions : ExpireSession(s)
  BY <1>9 DEF vars, ExpireSession
<1>10. QED
  BY <1>1, <1>2, <1>3, <1>4, <1>5, <1>6, <1>7, <1>8, <1>9 DEF Next

LEMMA DocumentTypesStep ==
  ASSUME TypeOK, RequestsInOrder, [Next]_vars
  PROVE  DocumentTypes'
<1> USE DEF TypeOK, TokenTypes, DocumentTypes, VerifyTypes, accountVars, sessionVars
<1>1. ASSUME NEW s \in Sessions, Visit(s)
      PROVE  DocumentTypes'
  BY <1>1 DEF Visit, Touch, Touched
<1>2. ASSUME NEW s \in Sessions, NEW e \in Emails, NEW t \in Tokens, Claim(s, e, t)
      PROVE  DocumentTypes'
  BY <1>2 DEF Claim, Touched
<1>3. ASSUME NEW s \in Sessions, ExpireSession(s)
      PROVE  DocumentTypes'
  BY <1>3 DEF ExpireSession
<1>4. ASSUME NEW i \in Ideas, NEW s \in Sessions, AskIdea(i, s)
      PROVE  DocumentTypes'
  BY <1>4 DEF AskIdea, Touch, Touched
<1>5. ASSUME NEW v \in Verifies, CreateAccount(v)
      PROVE  DocumentTypes'
  <2>1. Link(v).email \in Emails
    BY <1>5, LinkNames DEF CreateAccount, RequestsInOrder, Active, Link
  <2>2. QED
    BY <1>5, <2>1 DEF CreateAccount, Registered
<1>6. ASSUME NEW v \in Verifies, AddSession(v)
      PROVE  DocumentTypes'
  <2>1. Link(v).session \in Sessions /\ found[v] \in Verifies
    BY <1>6, LinkNames DEF AddSession, RequestsInOrder, Active, Link
  <2>2. QED
    BY <1>6, <2>1 DEF AddSession
<1>7. ASSUME NEW v \in Verifies, Bind(v)
      PROVE  DocumentTypes'
  <2>1. found[v] \in Verifies
    BY <1>7 DEF Bind, RequestsInOrder
  <2>2. QED
    BY <1>7, <2>1 DEF Bind
<1>8. ASSUME NEW v \in Verifies,
             FindAccount(v) \/ RereadAccount(v) \/ Transfer(v)
      PROVE  DocumentTypes'
  BY <1>8 DEF FindAccount, RereadAccount, Transfer
<1>9. ASSUME NEW v \in Verifies, NEW t \in Tokens, Redeem(v, t)
      PROVE  DocumentTypes'
  BY <1>9 DEF Redeem
<1>10. CASE \/ Restart \/ UNCHANGED vars
            \/ \E t \in Tokens : ExpireToken(t)
            \/ \E i \in Ideas : ReadOwner(i) \/ CreateIdea(i)
  BY <1>10 DEF Restart, vars, ExpireToken, ReadOwner, CreateIdea
<1>11. QED
  BY <1>1, <1>2, <1>3, <1>4, <1>5, <1>6, <1>7, <1>8, <1>9, <1>10
     DEF Next, VerifyStep

LEMMA IdeaTypesStep ==
  ASSUME TypeOK, RequestsInOrder, IdeasInOrder, [Next]_vars
  PROVE  IdeaTypes'
<1> USE DEF TypeOK, IdeaTypes, ideaVars
<1>1. ASSUME NEW i \in Ideas, NEW s \in Sessions, AskIdea(i, s)
      PROVE  IdeaTypes'
  BY <1>1 DEF AskIdea
<1>2. ASSUME NEW i \in Ideas, ReadOwner(i)
      PROVE  IdeaTypes'
  <2>1. bound[ideaSession[i]] \in Verifies \cup {None} \/ UNCHANGED ideaAccount
    BY <1>2 DEF ReadOwner, IdeasInOrder, DocumentTypes
  <2>2. QED
    BY <1>2, <2>1 DEF ReadOwner
<1>3. ASSUME NEW i \in Ideas, CreateIdea(i)
      PROVE  IdeaTypes'
  BY <1>3 DEF CreateIdea
<1>4. ASSUME NEW v \in Verifies, Transfer(v)
      PROVE  IdeaTypes'
  <2>1. found[v] \in Verifies
    BY <1>4 DEF Transfer, RequestsInOrder
  <2>2. QED
    BY <1>4, <2>1 DEF Transfer, Transferred
<1>5. CASE Restart
  BY <1>5 DEF Restart
<1>6. ASSUME NEW v \in Verifies, FindAccount(v) \/ RereadAccount(v)
               \/ CreateAccount(v) \/ AddSession(v) \/ Bind(v)
      PROVE  IdeaTypes'
  BY <1>6 DEF FindAccount, RereadAccount, CreateAccount, AddSession, Bind
<1>7. CASE \/ UNCHANGED vars
           \/ \E s \in Sessions : Visit(s) \/ ExpireSession(s)
           \/ \E s \in Sessions, e \in Emails, t \in Tokens : Claim(s, e, t)
           \/ \E t \in Tokens : ExpireToken(t)
           \/ \E v \in Verifies, t \in Tokens : Redeem(v, t)
  BY <1>7 DEF vars, Visit, ExpireSession, Claim, ExpireToken, Redeem
<1>8. QED
  BY <1>1, <1>2, <1>3, <1>4, <1>5, <1>6, <1>7 DEF Next, VerifyStep

LEMMA VerifyTypesStep ==
  ASSUME TypeOK, [Next]_vars
  PROVE  VerifyTypes'
<1> USE DEF TypeOK, VerifyTypes, verifyVars, Goto, End
<1>1. ASSUME NEW v \in Verifies, NEW t \in Tokens, Redeem(v, t)
      PROVE  VerifyTypes'
  BY <1>1 DEF Redeem
<1>2. ASSUME NEW v \in Verifies, FindAccount(v) \/ RereadAccount(v)
      PROVE  VerifyTypes'
  BY <1>2 DEF FindAccount, RereadAccount, Known, Unknown, AccountsOf
<1>3. ASSUME NEW v \in Verifies, CreateAccount(v)
      PROVE  VerifyTypes'
  BY <1>3 DEF CreateAccount
<1>4. ASSUME NEW v \in Verifies, AddSession(v) \/ Bind(v)
      PROVE  VerifyTypes'
  BY <1>4 DEF AddSession, Bind
<1>5. ASSUME NEW v \in Verifies, Transfer(v)
      PROVE  VerifyTypes'
  BY <1>5 DEF Transfer
<1>6. CASE Restart
  BY <1>6 DEF Restart
<1>7. CASE \/ UNCHANGED vars
           \/ \E s \in Sessions : Visit(s) \/ ExpireSession(s)
           \/ \E s \in Sessions, e \in Emails, t \in Tokens : Claim(s, e, t)
           \/ \E t \in Tokens : ExpireToken(t)
           \/ \E i \in Ideas, s \in Sessions : AskIdea(i, s)
           \/ \E i \in Ideas : ReadOwner(i) \/ CreateIdea(i)
  BY <1>7 DEF vars, Visit, ExpireSession, Claim, ExpireToken, AskIdea,
              ReadOwner, CreateIdea
<1>8. QED
  BY <1>1, <1>2, <1>3, <1>4, <1>5, <1>6, <1>7 DEF Next, VerifyStep

LEMMA TypeStep ==
  ASSUME TypeOK, RequestsInOrder, IdeasInOrder, [Next]_vars
  PROVE  TypeOK'
BY TokenTypesStep, DocumentTypesStep, IdeaTypesStep, VerifyTypesStep DEF TypeOK
-----------------------------------------------------------------------------
\* What the steps do to the tokens.

LEMMA StoresStep ==
  ASSUME TypeOK, Stores, [Next]_vars
  PROVE  Stores'
<1> USE DEF TypeOK, TokenTypes, Stores, tokenVars, RedisAnswers, RedisRaises, RedisOff
<1>1. ASSUME NEW s \in Sessions, NEW e \in Emails, NEW t \in Tokens, Claim(s, e, t)
      PROVE  Stores'
  <2>1. link'[t] # NotIssued
    BY <1>1 DEF Claim, NotIssued
  <2>2. \A u \in Tokens : link[u] # NotIssued => link'[u] # NotIssued
    BY <1>1, <2>1 DEF Claim
  <2>3. QED
    BY <1>1, <2>1, <2>2 DEF Claim
<1>2. ASSUME NEW v \in Verifies, NEW t \in Tokens, Redeem(v, t)
      PROVE  Stores'
  <2>1. redis' \subseteq redis /\ memory' \subseteq memory /\ link' = link
    BY <1>2 DEF Redeem, TakeFromMemory
  <2>2. redisAvailable' => redisAvailable
    BY <1>2 DEF Redeem
  <2>3. \A u \in Tokens : redeemed'[u] > 0 => link[u] # NotIssued
    BY <1>2 DEF Redeem
  <2>4. QED
    BY <2>1, <2>2, <2>3
<1>3. ASSUME NEW v \in Verifies, VerifyStep(v)
      PROVE  Stores'
  BY <1>3 DEF VerifyStep, FindAccount, RereadAccount, CreateAccount, AddSession,
              Bind, Transfer
<1>4. CASE \/ UNCHANGED vars \/ Restart
           \/ \E s \in Sessions : Visit(s) \/ ExpireSession(s)
           \/ \E t \in Tokens : ExpireToken(t)
           \/ \E i \in Ideas, s \in Sessions : AskIdea(i, s)
           \/ \E i \in Ideas : ReadOwner(i) \/ CreateIdea(i)
  BY <1>4 DEF vars, Restart, Visit, ExpireSession, ExpireToken, AskIdea,
              ReadOwner, CreateIdea
<1>5. QED
  BY <1>1, <1>2, <1>3, <1>4 DEF Next

OncePerProcess == \A t \in Tokens : redeemed[t] <= 1 + restarts

LEMMA OncePerProcessStep ==
  ASSUME TypeOK, Stores, SpentIsGone, OncePerProcess, [Next]_vars
  PROVE  SpentIsGone' /\ OncePerProcess'
<1> USE DEF TypeOK, TokenTypes, SpentIsGone, OncePerProcess, tokenVars,
            RedisAnswers, RedisRaises, RedisOff
<1>1. ASSUME NEW s \in Sessions, NEW e \in Emails, NEW t \in Tokens, Claim(s, e, t)
      PROVE  SpentIsGone' /\ OncePerProcess'
  <2>1. redeemed[t] = 0
    BY <1>1 DEF Claim, Stores
  <2>2. \A u \in Tokens : u # t => (u \in redis' => u \in redis) /\ (u \in memory' => u \in memory)
    BY <1>1 DEF Claim
  <2>3. redisAvailable' => redisAvailable
    BY <1>1 DEF Claim
  <2>4. QED
    BY <1>1, <2>1, <2>2, <2>3 DEF Claim
<1>2. ASSUME NEW v \in Verifies, NEW t \in Tokens, Redeem(v, t)
      PROVE  SpentIsGone' /\ OncePerProcess'
  <2>0. PICK given \in BOOLEAN :
          /\ redeemed' = [redeemed EXCEPT ![t] = IF given THEN @ + 1 ELSE @]
          /\ given => \/ RedisAnswers /\ t \in redis /\ redis' = redis \ {t}
                                    /\ UNCHANGED memory
                      \/ redisAvailable /\ t \in memory
                      \/ RedisOff /\ t \in memory /\ memory' = memory \ {t}
    BY <1>2 DEF Redeem, TakeFromMemory, InMemory
  <2>1. given => /\ redeemed[t] <= restarts
                 /\ t \notin memory' /\ (redisAvailable' => t \notin redis')
    BY <2>0 DEF Stores
  <2>2. redis' \subseteq redis /\ memory' \subseteq memory /\ restarts' = restarts
    BY <1>2 DEF Redeem, TakeFromMemory
  <2>3. redisAvailable' => redisAvailable
    BY <1>2 DEF Redeem
  <2>4. QED
    BY <2>0, <2>1, <2>2, <2>3
<1>3. ASSUME NEW v \in Verifies, VerifyStep(v)
      PROVE  SpentIsGone' /\ OncePerProcess'
  BY <1>3 DEF VerifyStep, FindAccount, RereadAccount, CreateAccount, AddSession,
              Bind, Transfer
<1>4. CASE Restart
  BY <1>4 DEF Restart
<1>5. CASE \/ UNCHANGED vars
           \/ \E s \in Sessions : Visit(s) \/ ExpireSession(s)
           \/ \E t \in Tokens : ExpireToken(t)
           \/ \E i \in Ideas, s \in Sessions : AskIdea(i, s)
           \/ \E i \in Ideas : ReadOwner(i) \/ CreateIdea(i)
  BY <1>5 DEF vars, Visit, ExpireSession, ExpireToken, AskIdea, ReadOwner, CreateIdea
<1>6. QED
  BY <1>1, <1>2, <1>3, <1>4, <1>5 DEF Next

\* A redemption takes a copy away, and no step but the issue of the token adds one.
LEMMA CopiesStep ==
  ASSUME TypeOK, Stores, CopiesUsedUp, [Next]_vars
  PROVE  CopiesUsedUp'
<1> USE DEF TypeOK, TokenTypes, CopiesUsedUp, Left, tokenVars,
            RedisAnswers, RedisRaises, RedisOff
<1>1. ASSUME NEW s \in Sessions, NEW e \in Emails, NEW t \in Tokens, Claim(s, e, t)
      PROVE  CopiesUsedUp'
  <2>1. redeemed[t] = 0 /\ t \notin redis /\ t \notin memory
    BY <1>1 DEF Claim, Stores
  <2>2. \A u \in Tokens : u # t => /\ u \in redis' <=> u \in redis
                                   /\ u \in memory' <=> u \in memory
                                   /\ u \in inBoth' <=> u \in inBoth
    BY <1>1 DEF Claim
  <2>3. t \in redis' /\ t \in memory' => t \in inBoth'
    BY <1>1 DEF Claim
  <2>4. redeemed' = redeemed
    BY <1>1 DEF Claim
  <2>5. QED
    BY <2>1, <2>2, <2>3, <2>4
<1>2. ASSUME NEW v \in Verifies, NEW t \in Tokens, Redeem(v, t)
      PROVE  CopiesUsedUp'
  <2>1. redis' \subseteq redis /\ memory' \subseteq memory /\ inBoth' = inBoth
    BY <1>2 DEF Redeem, TakeFromMemory
  <2>2. \A u \in Tokens \ {t} : redeemed'[u] = redeemed[u]
    BY <1>2 DEF Redeem
  <2>3. \/ redeemed'[t] = redeemed[t]
        \/ /\ redeemed'[t] = redeemed[t] + 1
           /\ (t \in redis /\ t \notin redis') \/ (t \in memory /\ t \notin memory')
    BY <1>2 DEF Redeem, TakeFromMemory, InMemory
  <2>4. Left(t)' <= Left(t) /\ \A u \in Tokens \ {t} : Left(u)' <= Left(u)
    BY <2>1
  <2>5. redeemed'[t] + Left(t)' <= redeemed[t] + Left(t)
    BY <2>1, <2>3
  <2>6. ASSUME NEW u \in Tokens
        PROVE  redeemed'[u] + Left(u)' <= redeemed[u] + Left(u)
    <3>1. CASE u = t
      BY <3>1, <2>5
    <3>2. CASE u # t
      BY <3>2, <2>2, <2>4
    <3>3. QED
      BY <3>1, <3>2
  <2>7. redeemed' \in [Tokens -> Nat]
    BY TokenTypesStep
  <2>8. ASSUME NEW u \in Tokens
        PROVE  redeemed'[u] + Left(u)' <= IF u \in inBoth' THEN 2 ELSE 1
    <3>1. redeemed[u] + Left(u) <= IF u \in inBoth' THEN 2 ELSE 1
      BY <2>1
    <3>2. QED
      BY <2>6, <2>7, <3>1
  <2>9. QED
    BY <2>8
<1>3. ASSUME NEW v \in Verifies, VerifyStep(v)
      PROVE  CopiesUsedUp'
  BY <1>3 DEF VerifyStep, FindAccount, RereadAccount, CreateAccount, AddSession,
              Bind, Transfer
<1>4. CASE Restart \/ \E t \in Tokens : ExpireToken(t)
  BY <1>4 DEF Restart, ExpireToken
<1>5. CASE \/ UNCHANGED vars
           \/ \E s \in Sessions : Visit(s) \/ ExpireSession(s)
           \/ \E i \in Ideas, s \in Sessions : AskIdea(i, s)
           \/ \E i \in Ideas : ReadOwner(i) \/ CreateIdea(i)
  BY <1>5 DEF vars, Visit, ExpireSession, AskIdea, ReadOwner, CreateIdea
<1>6. QED
  BY <1>1, <1>2, <1>3, <1>4, <1>5 DEF Next

LEMMA RedeemedStep ==
  ASSUME TypeOK, Stores, SpentIsGone, CopiesUsedUp, RedeemedOncePerCopy, [Next]_vars
  PROVE  SpentIsGone' /\ CopiesUsedUp' /\ RedeemedOncePerCopy'
<1>1. OncePerProcess
  BY DEF RedeemedOncePerCopy, OncePerProcess
<1>2. SpentIsGone' /\ OncePerProcess'
  BY <1>1, OncePerProcessStep
<1>3. CopiesUsedUp'
  BY CopiesStep
<1>4. TokenTypes'
  BY TokenTypesStep
<1>5. RedeemedOncePerCopy'
  BY <1>2, <1>3, <1>4 DEF TokenTypes, CopiesUsedUp, Left, OncePerProcess,
                          RedeemedOncePerCopy
<1>6. QED
  BY <1>2, <1>3, <1>5

-----------------------------------------------------------------------------
\* What no step undoes: a link once issued, a redemption, an account, a gap.
IssuedStays == \A t \in Tokens : link[t] # NotIssued => link'[t] = link[t]
RedeemedStays == \A t \in Tokens : redeemed[t] > 0 => redeemed'[t] > 0
AccountStays == \A a \in Verifies : account[a] # None => account'[a] = account[a]
GapsStay == gaps \subseteq gaps'

LEMMA HistoryStep ==
  ASSUME TypeOK, RequestsInOrder, [Next]_vars
  PROVE  IssuedStays /\ RedeemedStays /\ AccountStays /\ GapsStay
<1> USE DEF TypeOK, TokenTypes, DocumentTypes, IssuedStays, RedeemedStays,
            AccountStays, GapsStay, tokenVars, accountVars, sessionVars
<1>1. ASSUME NEW s \in Sessions, NEW e \in Emails, NEW t \in Tokens, Claim(s, e, t)
      PROVE  IssuedStays /\ RedeemedStays /\ AccountStays /\ GapsStay
  BY <1>1 DEF Claim, Touched
<1>2. ASSUME NEW v \in Verifies, NEW t \in Tokens, Redeem(v, t)
      PROVE  IssuedStays /\ RedeemedStays /\ AccountStays /\ GapsStay
  BY <1>2 DEF Redeem
<1>3. ASSUME NEW v \in Verifies, CreateAccount(v)
      PROVE  IssuedStays /\ RedeemedStays /\ AccountStays /\ GapsStay
  BY <1>3 DEF CreateAccount, Registered, RequestsInOrder
<1>4. ASSUME NEW v \in Verifies, FindAccount(v) \/ RereadAccount(v)
               \/ AddSession(v) \/ Bind(v) \/ Transfer(v)
      PROVE  IssuedStays /\ RedeemedStays /\ AccountStays /\ GapsStay
  BY <1>4 DEF FindAccount, RereadAccount, AddSession, Bind, Transfer
<1>5. CASE \/ UNCHANGED vars \/ Restart
           \/ \E t \in Tokens : ExpireToken(t)
           \/ \E i \in Ideas : ReadOwner(i) \/ CreateIdea(i)
  BY <1>5 DEF vars, Restart, ExpireToken, ReadOwner, CreateIdea
<1>6. CASE \/ \E s \in Sessions : Visit(s) \/ ExpireSession(s)
           \/ \E i \in Ideas, s \in Sessions : AskIdea(i, s)
  BY <1>6 DEF Visit, Touch, Touched, ExpireSession, AskIdea
<1>7. QED
  BY <1>1, <1>2, <1>3, <1>4, <1>5, <1>6 DEF Next, VerifyStep

LEMMA ProvenStays ==
  ASSUME TypeOK, Stores, IssuedStays, RedeemedStays, AccountStays,
         NEW a \in Verifies, NEW s \in Sessions, Proven(a, s)
  PROVE  Proven(a, s)'
<1>1. PICK t \in Tokens : redeemed[t] > 0
                             /\ link[t] = [email |-> account[a], session |-> s]
  BY DEF Proven
<1>2. link[t] # NotIssued
  BY <1>1 DEF Stores
<1>3. link[t].email \in Emails
  BY <1>2, LinkNames
<1>4. account[a] # None
  BY <1>1, <1>3 DEF AccessAssumption
<1>5. redeemed'[t] > 0 /\ link'[t] = [email |-> account'[a], session |-> s]
  BY <1>1, <1>2, <1>4 DEF IssuedStays, RedeemedStays, AccountStays
<1>6. QED
  BY <1>5 DEF Proven

LEMMA ExceptedStays ==
  ASSUME TypeOK, Stores, IssuedStays, RedeemedStays, GapsStay,
         NEW s \in Sessions, Excepted(s)
  PROVE  Excepted(s)'
<1>1. CASE s \in gaps
  BY <1>1 DEF Excepted, GapsStay
<1>2. CASE TwoAddresses(s)
  <2>1. PICK t \in Tokens, u \in Tokens :
          /\ redeemed[t] > 0 /\ redeemed[u] > 0
          /\ link[t].session = s /\ link[u].session = s
          /\ link[t].email # link[u].email
    BY <1>2 DEF TwoAddresses
  <2>2. link'[t] = link[t] /\ link'[u] = link[u]
    BY <2>1 DEF Stores, IssuedStays
  <2>3. redeemed'[t] > 0 /\ redeemed'[u] > 0
    BY <2>1 DEF RedeemedStays
  <2>4. QED
    BY <2>1, <2>2, <2>3 DEF TwoAddresses, Excepted
<1>3. QED
  BY <1>1, <1>2 DEF Excepted

\* What RequestsInOrder says of one request.
InOrder(v) ==
  /\ Active(v) => /\ presented[v] \in Tokens
                  /\ redeemed[presented[v]] > 0
                  /\ Link(v) # NotIssued
  /\ pc[v] \in {"add", "bind", "transfer"} =>
       found[v] \in Verifies /\ account[found[v]] = Link(v).email
  /\ pc[v] \in {"idle", "find", "create"} => account[v] = None

LEMMA OthersStayInOrder ==
  ASSUME TypeOK, IssuedStays, RedeemedStays, AccountStays, NEW v \in Verifies,
         InOrder(v), pc'[v] = pc[v], presented'[v] = presented[v],
         found'[v] = found[v], account'[v] = account[v]
  PROVE  InOrder(v)'
<1>1. Active(v) => Link(v)' = Link(v)
  BY DEF InOrder, Active, Link, IssuedStays
<1>2. Active(v) => redeemed'[presented[v]] > 0
  BY DEF InOrder, Active, RedeemedStays
<1>3. pc[v] \in {"add", "bind", "transfer"} =>
        account[found[v]] # None /\ found[v] \in Verifies
  BY LinkNames DEF InOrder, Active, Link
<1>4. QED
  BY <1>1, <1>2, <1>3 DEF InOrder, Active, AccountStays

LEMMA RequestsStep ==
  ASSUME TypeOK, Stores, RequestsInOrder, [Next]_vars
  PROVE  RequestsInOrder'
<1> SUFFICES ASSUME NEW w \in Verifies
             PROVE  InOrder(w)'
  BY DEF RequestsInOrder, InOrder, Active, Link
<1>1. InOrder(w) /\ IssuedStays /\ RedeemedStays /\ AccountStays
  BY HistoryStep DEF RequestsInOrder, InOrder, Active, Link
<1> DEFINE Same == /\ pc'[w] = pc[w] /\ presented'[w] = presented[w]
                   /\ found'[w] = found[w] /\ account'[w] = account[w]
<1>2. Same => InOrder(w)'
  BY <1>1, OthersStayInOrder
<1> USE DEF TypeOK, TokenTypes, DocumentTypes, VerifyTypes, accountVars, verifyVars, Goto, End
<1>3. ASSUME NEW t \in Tokens, Redeem(w, t)
      PROVE  InOrder(w)'
  <2>1. CASE pc'[w] = "over"
    BY <2>1 DEF InOrder, Active
  <2>2. CASE pc'[w] # "over"
    <3>1. /\ pc'[w] = "find" /\ presented'[w] = t /\ redeemed'[t] > 0
          /\ link'[t] # NotIssued /\ account'[w] = None
      BY <1>3, <1>1, <2>2 DEF Redeem, InOrder
    <3>2. QED
      BY <3>1 DEF InOrder, Active, Link
  <2>3. QED
    BY <2>1, <2>2
<1>4. ASSUME VerifyStep(w)
      PROVE  InOrder(w)'
  <2>1. /\ presented[w] \in Tokens /\ redeemed[presented[w]] > 0
        /\ Link(w) # NotIssued
    BY <1>4, <1>1 DEF VerifyStep, FindAccount, RereadAccount, CreateAccount,
                      AddSession, Bind, Transfer, InOrder, Active
  <2>2. pc'[w] # "over" => presented'[w] = presented[w]
    BY <1>4 DEF VerifyStep, FindAccount, RereadAccount, Known, Unknown,
                CreateAccount, AddSession, Bind, Transfer
  <2>3. pc'[w] # "over" =>
          /\ presented'[w] \in Tokens /\ redeemed'[presented'[w]] > 0
          /\ Link(w)' = Link(w)
    BY <1>1, <2>1, <2>2 DEF Link, IssuedStays, RedeemedStays
  <2>4. Link(w).email \in Emails
    BY <2>1, LinkNames DEF Link
  <2>5. ASSUME pc'[w] \in {"add", "bind", "transfer"}
        PROVE  found'[w] \in Verifies /\ account'[found'[w]] = Link(w).email
    <3>1. CASE FindAccount(w) \/ RereadAccount(w)
      BY <3>1, <2>5 DEF FindAccount, RereadAccount, Known, Unknown, AccountsOf
    <3>2. CASE CreateAccount(w)
      BY <3>2, <2>5 DEF CreateAccount, Registered
    <3>3. CASE AddSession(w) \/ Bind(w)
      BY <3>3, <1>1, <2>4 DEF AddSession, Bind, InOrder, AccountStays
    <3>4. CASE Transfer(w)
      BY <3>4, <2>5 DEF Transfer
    <3>5. QED
      BY <1>4, <3>1, <3>2, <3>3, <3>4 DEF VerifyStep
  <2>6. pc'[w] = "create" => account'[w] = None
    BY <1>4, <1>1 DEF VerifyStep, FindAccount, RereadAccount, Known, Unknown,
                CreateAccount, AddSession, Bind, Transfer, InOrder
  <2>7. pc'[w] \notin {"idle", "find"}
    BY <1>4 DEF VerifyStep, FindAccount, RereadAccount, Known, Unknown,
                CreateAccount, AddSession, Bind, Transfer
  <2>8. QED
    BY <2>1, <2>3, <2>5, <2>6, <2>7 DEF InOrder, Active
<1>5. ASSUME NEW v \in Verifies, v # w,
             VerifyStep(v) \/ \E t \in Tokens : Redeem(v, t)
      PROVE  InOrder(w)'
  <2>1. CASE VerifyStep(v)
    BY <2>1, <1>2, <1>5 DEF VerifyStep, FindAccount, RereadAccount, Known, Unknown,
                CreateAccount, Registered, AddSession, Bind, Transfer
  <2>2. CASE \E t \in Tokens : Redeem(v, t)
    BY <2>2, <1>2, <1>5 DEF Redeem
  <2>3. QED
    BY <1>5, <2>1, <2>2
<1>6. CASE Restart
  <2>1. pc'[w] = "over" \/ (pc[w] = "idle" /\ Same)
    BY <1>6 DEF Restart
  <2>2. QED
    BY <2>1, <1>2 DEF InOrder, Active
<1>7. CASE \/ UNCHANGED vars
           \/ \E s \in Sessions : Visit(s) \/ ExpireSession(s)
           \/ \E s \in Sessions, e \in Emails, t \in Tokens : Claim(s, e, t)
           \/ \E t \in Tokens : ExpireToken(t)
           \/ \E i \in Ideas, s \in Sessions : AskIdea(i, s)
           \/ \E i \in Ideas : ReadOwner(i) \/ CreateIdea(i)
  BY <1>7, <1>2 DEF vars, Visit, ExpireSession, Claim, ExpireToken, AskIdea,
                    ReadOwner, CreateIdea
<1>8. QED
  BY <1>3, <1>4, <1>5, <1>6, <1>7 DEF Next

-----------------------------------------------------------------------------
\* What the steps do to accounts, sessions and ideas.

LEMMA IdeasStep ==
  ASSUME TypeOK, IdeasInOrder, [Next]_vars
  PROVE  IdeasInOrder'
<1> USE DEF TypeOK, IdeaTypes, IdeasInOrder, ideaVars
<1>1. ASSUME NEW i \in Ideas, NEW s \in Sessions, AskIdea(i, s)
      PROVE  IdeasInOrder'
  BY <1>1 DEF AskIdea
<1>2. ASSUME NEW i \in Ideas, ReadOwner(i) \/ CreateIdea(i)
      PROVE  IdeasInOrder'
  BY <1>2 DEF ReadOwner, CreateIdea
<1>3. ASSUME NEW v \in Verifies, Transfer(v)
      PROVE  IdeasInOrder'
  BY <1>3 DEF Transfer, Transferred, Claimable
<1>4. ASSUME NEW v \in Verifies, FindAccount(v) \/ RereadAccount(v)
               \/ CreateAccount(v) \/ AddSession(v) \/ Bind(v)
      PROVE  IdeasInOrder'
  BY <1>4 DEF FindAccount, RereadAccount, CreateAccount, AddSession, Bind
<1>5. CASE Restart
  BY <1>5 DEF Restart
<1>6. CASE \/ UNCHANGED vars
           \/ \E s \in Sessions : Visit(s) \/ ExpireSession(s)
           \/ \E s \in Sessions, e \in Emails, t \in Tokens : Claim(s, e, t)
           \/ \E t \in Tokens : ExpireToken(t)
           \/ \E v \in Verifies, t \in Tokens : Redeem(v, t)
  BY <1>6 DEF vars, Visit, ExpireSession, Claim, ExpireToken, Redeem
<1>7. QED
  BY <1>1, <1>2, <1>3, <1>4, <1>5, <1>6 DEF Next, VerifyStep

LEMMA AccountsStep ==
  ASSUME TypeOK, OneAccountPerAddress, [Next]_vars
  PROVE  OneAccountPerAddress'
<1> USE DEF TypeOK, DocumentTypes, OneAccountPerAddress, accountVars
<1>1. ASSUME NEW v \in Verifies, CreateAccount(v)
      PROVE  OneAccountPerAddress'
  <2>1. CASE UNCHANGED account
    BY <2>1
  <2>2. CASE ~AddressTaken(v) /\ Registered(v)
    BY <2>2 DEF AddressTaken, Registered, AccountsOf
  <2>3. QED
    BY <1>1, <2>1, <2>2 DEF CreateAccount
<1>2. CASE UNCHANGED account
  BY <1>2
<1>3. [Next]_vars => UNCHANGED account \/ \E v \in Verifies : CreateAccount(v)
  BY DEF Next, vars, VerifyStep, Visit, ExpireSession, Claim, ExpireToken, AskIdea,
         ReadOwner, CreateIdea, Redeem, FindAccount, RereadAccount, AddSession,
         Bind, Transfer, Restart
<1>4. QED
  BY <1>1, <1>2, <1>3

\* Every way in which a step writes to sessions.
LEMMA SessionWrites ==
  ASSUME [Next]_vars
  PROVE  \/ UNCHANGED <<ttl, bound>>
         \/ \E s \in Sessions : Touched(s)
         \/ \E s \in Sessions : ExpireSession(s)
         \/ \E v \in Verifies : Bind(v)
BY DEF Next, vars, VerifyStep, Visit, ExpireSession, Claim, ExpireToken, AskIdea,
       ReadOwner, CreateIdea, Redeem, FindAccount, RereadAccount, CreateAccount,
       AddSession, Transfer, Restart, Touch, sessionVars

\* The session of a request in progress.
LEMMA SessionOfRequest ==
  ASSUME TypeOK, RequestsInOrder, NEW v \in Verifies, Active(v)
  PROVE  Link(v).email \in Emails /\ Link(v).session \in Sessions
BY LinkNames DEF RequestsInOrder, Link

LEMMA SessionsStep ==
  ASSUME TypeOK, RequestsInOrder, SessionsInOrder, [Next]_vars
  PROVE  SessionsInOrder'
<1> USE DEF TypeOK, TokenTypes, DocumentTypes
<1>1. /\ \A s \in Sessions : bound'[s] # None => ttl'[s] # "gone"
      /\ \A s \in Sessions : ttl[s] # "gone" => ttl'[s] # "gone" \/ s \in gaps'
  <2>1. CASE UNCHANGED <<ttl, bound>>
    BY <2>1 DEF SessionsInOrder
  <2>2. ASSUME NEW s \in Sessions, Touched(s)
        PROVE  <1>1
    BY <2>2 DEF Touched, SessionsInOrder
  <2>3. ASSUME NEW s \in Sessions, ExpireSession(s)
        PROVE  <1>1
    BY <2>3 DEF ExpireSession, SessionsInOrder
  <2>4. ASSUME NEW v \in Verifies, Bind(v)
        PROVE  <1>1
    BY <2>4 DEF Bind, SessionsInOrder
  <2>5. QED
    BY SessionWrites, <2>1, <2>2, <2>3, <2>4
<1>2. ASSUME NEW t \in Tokens, link'[t] # NotIssued
      PROVE  ttl'[link'[t].session] # "gone" \/ link'[t].session \in gaps'
  <2>1. CASE link[t] # NotIssued
    BY <2>1, <1>1, HistoryStep, LinkNames DEF SessionsInOrder, IssuedStays, GapsStay
  <2>2. CASE link[t] = NotIssued
    <3>1. PICK s \in Sessions, e \in Emails : Claim(s, e, t)
      BY <1>2, <2>2 DEF Next, vars, tokenVars, VerifyStep, Visit, ExpireSession, Claim,
           ExpireToken, AskIdea, ReadOwner, CreateIdea, Redeem, FindAccount,
           RereadAccount, CreateAccount, AddSession, Bind, Transfer, Restart
    <3>2. link'[t].session = s
      BY <3>1 DEF Claim
    <3>3. QED
      BY <3>1, <3>2 DEF Claim, Touched
  <2>3. QED
    BY <2>1, <2>2
<1>3. QED
  BY <1>1, <1>2 DEF SessionsInOrder

\* A request stands before its transfer since it bound its session.
LEMMA BeforeTransfer ==
  ASSUME TypeOK, [Next]_vars, NEW v \in Verifies, pc'[v] = "transfer"
  PROVE  \/ Bind(v)
         \/ /\ pc[v] = "transfer" /\ presented'[v] = presented[v]
            /\ found'[v] = found[v] /\ (~mongoAvailable => ~mongoAvailable')
<1> USE DEF TypeOK, VerifyTypes, verifyVars, Goto, End, Returns, Raises, Skips
<1>1. ASSUME NEW w \in Verifies, NEW t \in Tokens, Redeem(w, t)
      PROVE  pc[v] = "transfer" /\ UNCHANGED <<presented[v], found[v], mongoAvailable>>
  BY <1>1 DEF Redeem
<1>2. ASSUME NEW w \in Verifies, VerifyStep(w), w # v
      PROVE  /\ pc[v] = "transfer" /\ UNCHANGED <<presented[v], found[v]>>
             /\ ~mongoAvailable => ~mongoAvailable'
  BY <1>2 DEF VerifyStep, FindAccount, RereadAccount, Known, Unknown,
              CreateAccount, AddSession, Bind, Transfer
<1>3. VerifyStep(v) => Bind(v)
  BY DEF VerifyStep, FindAccount, RereadAccount, Known, Unknown,
         CreateAccount, AddSession, Bind, Transfer
<1>4. ~Restart
  BY DEF Restart
<1>5. CASE \/ UNCHANGED vars
           \/ \E s \in Sessions : Visit(s) \/ ExpireSession(s)
           \/ \E s \in Sessions, e \in Emails, t \in Tokens : Claim(s, e, t)
           \/ \E t \in Tokens : ExpireToken(t)
           \/ \E i \in Ideas, s \in Sessions : AskIdea(i, s)
           \/ \E i \in Ideas : ReadOwner(i) \/ CreateIdea(i)
  BY <1>5 DEF vars, Visit, Touch, ExpireSession, Claim, ExpireToken, AskIdea,
              ReadOwner, CreateIdea
<1>6. QED
  BY <1>1, <1>2, <1>3, <1>4, <1>5 DEF Next

LEMMA BoundStep ==
  ASSUME TypeOK, Stores, RequestsInOrder, OneAccountPerAddress,
         SessionsInOrder, BoundBeforeTransfer, [Next]_vars
  PROVE  BoundBeforeTransfer'
<1> SUFFICES ASSUME NEW v \in Verifies, pc'[v] = "transfer", mongoAvailable',
                    ~Excepted(Link(v).session)'
             PROVE  bound'[Link(v)'.session] = found'[v]
  BY DEF BoundBeforeTransfer, Excepted, TwoAddresses, Link
<1> USE DEF TypeOK, TokenTypes, DocumentTypes
<1>1. CASE Bind(v)
  <2>1. Link(v)' = Link(v) /\ found'[v] = found[v] /\ Active(v)
    BY <1>1 DEF Bind, Link, tokenVars, Active
  <2>2. Link(v).session \in Sessions
    BY <2>1, SessionOfRequest
  <2>3. ttl[Link(v).session] # "gone"
    BY <1>1, <2>1 DEF Bind, Active, RequestsInOrder, Link, SessionsInOrder, Excepted
  <2>4. QED
    BY <1>1, <2>1, <2>2, <2>3 DEF Bind, Returns, Raises, Skips
<1>2. CASE /\ pc[v] = "transfer" /\ presented'[v] = presented[v]
           /\ found'[v] = found[v] /\ (~mongoAvailable => ~mongoAvailable')
  <2> DEFINE s == Link(v).session
  <2>1. /\ Active(v) /\ presented[v] \in Tokens /\ link[presented[v]] # NotIssued
        /\ found[v] \in Verifies /\ account[found[v]] = Link(v).email
    BY <1>2 DEF Active, RequestsInOrder, Link
  <2>2. IssuedStays /\ RedeemedStays /\ GapsStay
    BY HistoryStep
  <2>3. Link(v)' = Link(v) /\ s \in Sessions
    BY <1>2, <2>1, <2>2, SessionOfRequest DEF IssuedStays, Link
  <2> HIDE DEF s
  <2>4. ~Excepted(s) /\ s \notin gaps'
    BY <2>2, <2>3, ExceptedStays DEF s, Excepted, TwoAddresses
  <2>5. bound[s] = found[v]
    BY <1>2, <2>4 DEF BoundBeforeTransfer, s
  <2>6. ASSUME NEW w \in Verifies, Bind(w)
        PROVE  bound'[s] = found[v]
    <3>1. /\ Active(w) /\ presented[w] \in Tokens /\ redeemed[presented[w]] > 0
          /\ found[w] \in Verifies /\ account[found[w]] = Link(w).email
      BY <2>6 DEF Bind, Active, RequestsInOrder
    <3>2. redeemed[presented[v]] > 0
      BY <2>1 DEF RequestsInOrder
    <3>3. Link(w).session = s => Link(w).email = Link(v).email
      BY <3>1, <3>2, <2>1, <2>4 DEF Excepted, TwoAddresses, Link, s
    <3>4. Link(v).email \in Emails
      BY <2>1, SessionOfRequest
    <3>5. Link(w).session = s => found[w] = found[v]
      BY <3>1, <3>3, <3>4, <2>1 DEF OneAccountPerAddress, AccessAssumption
    <3>6. QED
      BY <2>6, <2>3, <2>5, <3>5 DEF Bind
  <2>7. ASSUME NEW u \in Sessions, Touched(u)
        PROVE  bound'[s] = found[v]
    BY <2>7, <2>1, <2>3, <2>5 DEF Touched, SessionsInOrder, AccessAssumption
  <2>8. ASSUME NEW u \in Sessions, ExpireSession(u)
        PROVE  bound'[s] = found[v]
    BY <2>8, <2>3, <2>4, <2>5 DEF ExpireSession, Excepted
  <2>9. bound'[s] = found[v]
    BY SessionWrites, <2>5, <2>6, <2>7, <2>8
  <2>10. QED
    BY <1>2, <2>3, <2>9 DEF s
<1>3. QED
  BY <1>1, <1>2, BeforeTransfer

\* A request that goes on with an account has proved its address for its session.
LEMMA RequestProves ==
  ASSUME TypeOK, RequestsInOrder, NEW v \in Verifies,
         pc[v] \in {"add", "bind", "transfer"}
  PROVE  found[v] \in Verifies /\ Proven(found[v], Link(v).session)
<1>1. /\ presented[v] \in Tokens /\ redeemed[presented[v]] > 0
      /\ link[presented[v]] # NotIssued
      /\ found[v] \in Verifies /\ account[found[v]] = Link(v).email
  BY DEF RequestsInOrder, Active, Link
<1>2. link[presented[v]] \in [email : Emails, session : Sessions]
  BY <1>1 DEF TypeOK, TokenTypes, Links
<1>3. link[presented[v]] = [email |-> account[found[v]], session |-> Link(v).session]
  BY <1>1, <1>2 DEF Link
<1>4. QED
  BY <1>1, <1>3 DEF Proven

\* What the account of a bound session, or of an idea, has been sent.
LEMMA BoundIsProven ==
  ASSUME TypeOK, OwnershipIsProven, NEW s \in Sessions, bound[s] # None
  PROVE  bound[s] \in Verifies /\ Proven(bound[s], s)
BY DEF TypeOK, DocumentTypes, OwnershipIsProven

\* A session is taken off no account's list.
LEMMA ListsGrow ==
  ASSUME TypeOK, RequestsInOrder, [Next]_vars, NEW a \in Verifies
  PROVE  sessionIds[a] \subseteq sessionIds'[a]
<1>1. CASE \E v \in Verifies : AddSession(v)
  BY <1>1 DEF AddSession, TypeOK, DocumentTypes
<1>2. UNCHANGED sessionIds \/ \E v \in Verifies : AddSession(v)
  BY DEF Next, vars, accountVars, VerifyStep, Visit, ExpireSession, Claim,
         ExpireToken, AskIdea, ReadOwner, CreateIdea, Redeem, FindAccount,
         RereadAccount, CreateAccount, Bind, Transfer, Restart
<1>3. QED
  BY <1>1, <1>2

\* A request stands before the binding or the transfer since it added its
\* session.
LEMMA BeforeLinking ==
  ASSUME TypeOK, [Next]_vars, NEW v \in Verifies, Linking(v)'
  PROVE  \/ AddSession(v)
         \/ /\ Linking(v) /\ presented'[v] = presented[v]
            /\ found'[v] = found[v] /\ (~mongoAvailable => ~mongoAvailable')
<1> USE DEF TypeOK, VerifyTypes, verifyVars, Goto, End, Returns, Raises, Skips, Linking
<1>1. ASSUME NEW w \in Verifies, NEW t \in Tokens, Redeem(w, t)
      PROVE  Linking(v) /\ UNCHANGED <<presented[v], found[v], mongoAvailable>>
  BY <1>1 DEF Redeem
<1>2. ASSUME NEW w \in Verifies, VerifyStep(w), w # v
      PROVE  /\ Linking(v) /\ UNCHANGED <<presented[v], found[v]>>
             /\ ~mongoAvailable => ~mongoAvailable'
  BY <1>2 DEF VerifyStep, FindAccount, RereadAccount, Known, Unknown,
              CreateAccount, AddSession, Bind, Transfer
<1>3. VerifyStep(v) => AddSession(v) \/ Bind(v)
  BY DEF VerifyStep, FindAccount, RereadAccount, Known, Unknown,
         CreateAccount, AddSession, Bind, Transfer
<1>4. Bind(v) => /\ Linking(v) /\ UNCHANGED <<presented[v], found[v]>>
                 /\ ~mongoAvailable => ~mongoAvailable'
  BY DEF Bind
<1>5. ~Restart
  BY DEF Restart
<1>6. CASE \/ UNCHANGED vars
           \/ \E s \in Sessions : Visit(s) \/ ExpireSession(s)
           \/ \E s \in Sessions, e \in Emails, t \in Tokens : Claim(s, e, t)
           \/ \E t \in Tokens : ExpireToken(t)
           \/ \E i \in Ideas, s \in Sessions : AskIdea(i, s)
           \/ \E i \in Ideas : ReadOwner(i) \/ CreateIdea(i)
  BY <1>6 DEF vars, Visit, Touch, ExpireSession, Claim, ExpireToken, AskIdea,
              ReadOwner, CreateIdea
<1>7. QED
  BY <1>1, <1>2, <1>3, <1>4, <1>5, <1>6 DEF Next

LEMMA ListedStep ==
  ASSUME TypeOK, RequestsInOrder, ListedBeforeBound, [Next]_vars
  PROVE  ListedBeforeBound'
<1> SUFFICES ASSUME NEW v \in Verifies, Linking(v)', mongoAvailable'
             PROVE  Link(v)'.session \in sessionIds'[found'[v]]
  BY DEF ListedBeforeBound, Linking, Link
<1>1. IssuedStays
  BY HistoryStep
<1>2. CASE AddSession(v)
  <2>1. /\ presented[v] \in Tokens /\ link[presented[v]] # NotIssued
        /\ found[v] \in Verifies
    BY <1>2 DEF AddSession, RequestsInOrder, Active, Link
  <2>2. presented' = presented /\ found' = found /\ link' = link
    BY <1>2 DEF AddSession, tokenVars
  <2>3. sessionIds' = [sessionIds EXCEPT ![found[v]] = @ \cup {Link(v).session}]
    BY <1>2 DEF AddSession, Returns, Raises, Skips
  <2>4. QED
    BY <2>1, <2>2, <2>3 DEF Link, TypeOK, DocumentTypes
<1>3. CASE /\ Linking(v) /\ presented'[v] = presented[v]
           /\ found'[v] = found[v] /\ (~mongoAvailable => ~mongoAvailable')
  <2>1. /\ presented[v] \in Tokens /\ link[presented[v]] # NotIssued
        /\ found[v] \in Verifies
    BY <1>3 DEF Linking, RequestsInOrder, Active, Link
  <2>2. Link(v)' = Link(v)
    BY <1>1, <1>3, <2>1 DEF IssuedStays, Link
  <2>3. Link(v).session \in sessionIds[found[v]]
    BY <1>3 DEF ListedBeforeBound
  <2>4. QED
    BY <1>3, <2>1, <2>2, <2>3, ListsGrow
<1>4. QED
  BY <1>2, <1>3, BeforeLinking

LEMMA OwnershipStep ==
  ASSUME TypeOK, Stores, RequestsInOrder, IdeasInOrder, ListedBeforeBound,
         OwnershipIsProven, [Next]_vars
  PROVE  OwnershipIsProven'
<1> USE DEF TypeOK, DocumentTypes, IdeaTypes
<1>1. /\ IssuedStays /\ RedeemedStays /\ AccountStays
      /\ \A a \in Verifies, s \in Sessions : Proven(a, s) => Proven(a, s)'
  BY HistoryStep, ProvenStays
<1>2. ASSUME NEW a \in Verifies, NEW s \in sessionIds'[a]
      PROVE  Proven(a, s)'
  <2>1. CASE s \in sessionIds[a]
    BY <2>1, <1>1 DEF OwnershipIsProven
  <2>2. CASE s \notin sessionIds[a]
    <3>1. PICK v \in Verifies : AddSession(v)
      BY <1>2, <2>2 DEF Next, vars, accountVars, VerifyStep, Visit,
         ExpireSession, Claim, ExpireToken, AskIdea, ReadOwner, CreateIdea,
         Redeem, FindAccount, RereadAccount, CreateAccount, Bind, Transfer, Restart
    <3>2. a = found[v] /\ s = Link(v).session /\ pc[v] = "add"
      BY <1>2, <2>2, <3>1 DEF AddSession
    <3>3. Proven(a, s)
      BY <3>2, RequestProves
    <3>4. s \in Sessions
      BY <3>2, SessionOfRequest DEF Active
    <3>5. QED
      BY <1>1, <3>3, <3>4
  <2>3. QED
    BY <2>1, <2>2
<1>3. ASSUME NEW s \in Sessions, bound'[s] # None
      PROVE  s \in sessionIds'[bound'[s]]
  <2>1. CASE bound'[s] = bound[s]
    <3>1. bound[s] \in Verifies /\ s \in sessionIds[bound[s]]
      BY <1>3, <2>1 DEF OwnershipIsProven
    <3>2. QED
      BY <2>1, <3>1, ListsGrow
  <2>2. ASSUME NEW v \in Verifies, Bind(v), bound'[s] # bound[s]
        PROVE  s \in sessionIds'[bound'[s]]
    <3>1. /\ s = Link(v).session /\ bound'[s] = found[v] /\ Linking(v)
          /\ mongoAvailable
      BY <2>2 DEF Bind, Linking, Returns, Raises, Skips
    <3>2. found[v] \in Verifies
      BY <3>1 DEF Linking, RequestsInOrder
    <3>3. QED
      BY <3>1, <3>2, ListsGrow DEF ListedBeforeBound
  <2>3. ASSUME NEW u \in Sessions, Touched(u) \/ ExpireSession(u)
        PROVE  bound'[s] = bound[s]
    BY <1>3, <2>3 DEF Touched, ExpireSession
  <2>4. QED
    BY <2>1, <2>2, <2>3, SessionWrites
<1>4. ASSUME NEW i \in Ideas, ideaAccount'[i] # None
      PROVE  ideaSession'[i] \in sessionIds'[ideaAccount'[i]]
  <2>1. CASE UNCHANGED <<ideaAccount[i], ideaSession[i]>>
    <3>1. ideaAccount[i] \in Verifies /\ ideaSession[i] \in sessionIds[ideaAccount[i]]
      BY <1>4, <2>1 DEF OwnershipIsProven
    <3>2. QED
      BY <2>1, <3>1, ListsGrow
  <2>2. ASSUME NEW j \in Ideas, ReadOwner(j)
        PROVE  ideaSession'[i] \in sessionIds'[ideaAccount'[i]]
    <3>1. CASE i = j /\ ideaAccount'[i] = bound[ideaSession[i]]
      <4>1. /\ ideaSession[i] \in Sessions /\ bound[ideaSession[i]] \in Verifies
            /\ ideaSession[i] \in sessionIds[bound[ideaSession[i]]]
        BY <1>4, <2>2, <3>1 DEF ReadOwner, IdeasInOrder, OwnershipIsProven
      <4>2. ideaSession' = ideaSession
        BY <2>2 DEF ReadOwner
      <4>3. QED
        BY <3>1, <4>1, <4>2, ListsGrow
    <3>2. CASE UNCHANGED <<ideaAccount[i], ideaSession[i]>>
      BY <3>2, <2>1
    <3>3. QED
      BY <2>2, <3>1, <3>2 DEF ReadOwner
  <2>3. ASSUME NEW v \in Verifies, Transfer(v)
        PROVE  ideaSession'[i] \in sessionIds'[ideaAccount'[i]]
    <3>1. CASE /\ i \in Claimable(Link(v).session) /\ ideaAccount'[i] = found[v]
               /\ mongoAvailable
      <4>1. ideaSession'[i] = Link(v).session /\ Linking(v)
        BY <2>3, <3>1 DEF Transfer, Claimable, Linking
      <4>2. found[v] \in Verifies
        BY <4>1 DEF Linking, RequestsInOrder
      <4>3. Link(v).session \in sessionIds[found[v]]
        BY <3>1, <4>1 DEF ListedBeforeBound
      <4>4. QED
        BY <3>1, <4>1, <4>2, <4>3, ListsGrow
    <3>2. CASE UNCHANGED <<ideaAccount[i], ideaSession[i]>>
      BY <3>2, <2>1
    <3>3. QED
      BY <2>3, <3>1, <3>2 DEF Transfer, Transferred, Returns, Raises, Skips
  <2>4. ASSUME NEW j \in Ideas, NEW s \in Sessions, AskIdea(j, s)
        PROVE  UNCHANGED <<ideaAccount[i], ideaSession[i]>>
    BY <1>4, <2>4 DEF AskIdea, IdeasInOrder
  <2>5. \/ UNCHANGED <<ideaAccount, ideaSession>>
        \/ \E j \in Ideas : ReadOwner(j) \/ \E s \in Sessions : AskIdea(j, s)
        \/ \E v \in Verifies : Transfer(v)
    BY DEF Next, vars, ideaVars, VerifyStep, Visit, ExpireSession, Claim,
           ExpireToken, CreateIdea, Redeem, FindAccount, RereadAccount,
           CreateAccount, AddSession, Bind, Restart
  <2>6. QED
    BY <2>1, <2>2, <2>3, <2>4, <2>5
<1>5. QED
  BY <1>2, <1>3, <1>4 DEF OwnershipIsProven

-----------------------------------------------------------------------------
\* The strengthened invariant holds in every reachable state.
THEOREM Invariant == Spec => []IInv
<1>1. IInv /\ [Next]_vars => IInv'
  BY TypeStep, StoresStep, RedeemedStep, RequestsStep, IdeasStep, AccountsStep,
     SessionsStep, ListedStep, BoundStep, OwnershipStep DEF IInv
<1>2. QED
  BY InvariantInit, <1>1, PTL DEF Spec

\* Types: no request works with a token, an account or a session it was not
\* given.
THEOREM TypeCorrect == Spec => []TypeOK
<1>1. IInv => TypeOK
  BY DEF IInv
<1>2. QED
  BY Invariant, <1>1, PTL

\* redeem_token gives a token's payload once per copy that was stored of it, and
\* once per process, at most.
THEOREM RedeemedOncePerCopyHolds == Spec => []RedeemedOncePerCopy
<1>1. IInv => RedeemedOncePerCopy
  BY DEF IInv
<1>2. QED
  BY Invariant, <1>1, PTL

\* Whatever an account owns is of a session it lists, and whatever it lists was
\* proved by a redeemed link.
THEOREM OwnershipIsProvenHolds == Spec => []OwnershipIsProven
<1>1. IInv => OwnershipIsProven
  BY DEF IInv
<1>2. QED
  BY Invariant, <1>1, PTL

\* Whoever opens another session's idea has proved the address it belongs to,
\* and so has the idea's own session.
THEOREM SharedByProofOnlyHolds == Spec => []SharedByProofOnly
<1>1. IInv => SharedByProofOnly
  <2> SUFFICES ASSUME IInv, NEW s \in Sessions, NEW i \in Ideas, Owns(s, i),
                      s # ideaSession[i]
               PROVE  \E a \in Verifies : Proven(a, s) /\ Proven(a, ideaSession[i])
    BY DEF SharedByProofOnly
  <2>1. bound[s] # None /\ ideaAccount[i] = bound[s]
    BY DEF Owns
  <2>2. bound[s] \in Verifies /\ Proven(bound[s], s)
    BY <2>1, BoundIsProven DEF IInv
  <2>3. ideaSession[i] \in sessionIds[bound[s]]
    BY <2>1 DEF IInv, OwnershipIsProven
  <2>4. QED
    BY <2>2, <2>3 DEF IInv, OwnershipIsProven
<1>2. QED
  BY Invariant, <1>1, PTL

\* However many first claims of an address overlap, it has one account.
THEOREM OneAccountPerAddressHolds == Spec => []OneAccountPerAddress
<1>1. IInv => OneAccountPerAddress
  BY DEF IInv
<1>2. QED
  BY Invariant, <1>1, PTL

-----------------------------------------------------------------------------
\* An idea that is in the collection and has an account is written by nobody.
LEMMA AccountOfIdeaStays ==
  ASSUME TypeOK, [Next]_vars, NEW i \in Ideas, idea[i] = "there",
         ideaAccount[i] # None
  PROVE  ideaAccount'[i] = ideaAccount[i]
<1> USE DEF TypeOK, IdeaTypes
<1>1. ASSUME NEW j \in Ideas, ReadOwner(j)
      PROVE  ideaAccount'[i] = ideaAccount[i]
  BY <1>1 DEF ReadOwner
<1>2. ASSUME NEW v \in Verifies, Transfer(v)
      PROVE  ideaAccount'[i] = ideaAccount[i]
  BY <1>2 DEF Transfer, Transferred, Claimable
<1>3. \/ UNCHANGED ideaAccount
      \/ \E j \in Ideas : ReadOwner(j)
      \/ \E v \in Verifies : Transfer(v)
  BY DEF Next, vars, ideaVars, VerifyStep, Visit, ExpireSession, Claim,
         ExpireToken, AskIdea, CreateIdea, Redeem, FindAccount, RereadAccount,
         CreateAccount, AddSession, Bind, Restart
<1>4. QED
  BY <1>1, <1>2, <1>3

\* Claims never move an idea from one account to another.
THEOREM IdeaKeepsItsAccountHolds == Spec => IdeaKeepsItsAccount
<1>1. IInv /\ [Next]_vars =>
        [\A i \in Ideas : idea[i] = "there" /\ ideaAccount[i] # None
           => ideaAccount'[i] = ideaAccount[i]]_vars
  BY AccountOfIdeaStays DEF IInv
<1>2. QED
  BY Invariant, <1>1, PTL DEF Spec, IdeaKeepsItsAccount

\* An idea in the collection stays there, with its session.
LEMMA IdeaStays ==
  ASSUME TypeOK, [Next]_vars, NEW i \in Ideas, idea[i] = "there"
  PROVE  idea'[i] = "there" /\ ideaSession'[i] = ideaSession[i]
<1> USE DEF TypeOK, IdeaTypes, ideaVars
<1>1. CASE \E j \in Ideas : ReadOwner(j) \/ CreateIdea(j)
                              \/ \E s \in Sessions : AskIdea(j, s)
  BY <1>1 DEF ReadOwner, CreateIdea, AskIdea
<1>2. CASE Restart
  BY <1>2 DEF Restart
<1>3. \/ UNCHANGED <<idea, ideaSession>> \/ Restart
      \/ \E j \in Ideas : ReadOwner(j) \/ CreateIdea(j)
                              \/ \E s \in Sessions : AskIdea(j, s)
  BY DEF Next, vars, VerifyStep, Visit, ExpireSession, Claim, ExpireToken,
         Redeem, FindAccount, RereadAccount, CreateAccount, AddSession, Bind,
         Transfer
<1>4. QED
  BY <1>1, <1>2, <1>3

LEMMA FounderKeepsIdea ==
  ASSUME IInv, [Next]_vars, NEW s \in Sessions, NEW i \in Ideas, Owns(s, i)
  PROVE  Owns(s, i)' \/ s \in gaps' \/ TwoAddresses(s)'
<1> SUFFICES ASSUME ~Excepted(s)'
             PROVE  Owns(s, i)'
  BY DEF Excepted
<1> USE DEF TypeOK, DocumentTypes, IdeaTypes
<1>1. /\ TypeOK /\ Stores /\ RequestsInOrder /\ OneAccountPerAddress
      /\ SessionsInOrder /\ BoundBeforeTransfer /\ OwnershipIsProven
  BY DEF IInv
<1>2. /\ IssuedStays /\ RedeemedStays /\ AccountStays /\ GapsStay
  BY <1>1, HistoryStep
<1>3. idea'[i] = "there" /\ ideaSession'[i] = ideaSession[i]
  BY <1>1, IdeaStays DEF Owns
<1>4. CASE ideaSession[i] = s /\ ideaAccount[i] = None
  <2>1. CASE ideaAccount'[i] = None
    BY <1>3, <1>4, <2>1 DEF Owns
  <2>2. CASE ideaAccount'[i] # None
    <3>1. PICK v \in Verifies : Transfer(v)
      <4>1. \A j \in Ideas : ReadOwner(j) => ideaAccount'[i] = ideaAccount[i]
        BY <1>1 DEF ReadOwner, Owns
      <4>2. QED
        BY <4>1, <1>4, <2>2 DEF Next, vars, ideaVars, VerifyStep, Visit, ExpireSession, Claim,
           ExpireToken, AskIdea, CreateIdea, Redeem, FindAccount, RereadAccount,
           CreateAccount, AddSession, Bind, Restart
    <3>2. /\ mongoAvailable /\ Link(v).session = s /\ ideaAccount'[i] = found[v]
          /\ pc[v] = "transfer" /\ bound' = bound /\ UNCHANGED <<link, redeemed, gaps>>
      BY <3>1, <1>4, <2>2 DEF Transfer, Transferred, Claimable, Returns, Raises,
           Skips, sessionVars, tokenVars
    <3>3. ~Excepted(s)
      BY <3>2 DEF Excepted, TwoAddresses
    <3>4. bound'[s] = found[v]
      BY <1>1, <3>2, <3>3 DEF BoundBeforeTransfer
    <3>5. QED
      BY <1>3, <3>2, <3>4, <2>2 DEF Owns
  <2>3. QED
    BY <2>1, <2>2
<1>5. CASE bound[s] # None /\ ideaAccount[i] = bound[s]
  <2>1. ideaAccount'[i] = bound[s]
    BY <1>1, <1>5, AccountOfIdeaStays DEF Owns
  <2>2. ttl[s] # "gone"
    BY <1>1, <1>5 DEF SessionsInOrder
  <2>3. ASSUME NEW v \in Verifies, Bind(v)
        PROVE  bound'[s] = bound[s]
    <3>1. CASE Link(v).session = s
      <4>1. Proven(bound[s], s) /\ bound[s] \in Verifies
        BY <1>1, <1>5, BoundIsProven
      <4>2. found[v] \in Verifies /\ Proven(found[v], s)
        BY <1>1, <2>3, <3>1, RequestProves DEF Bind
      <4>3. ~TwoAddresses(s)
        BY <2>3 DEF Excepted, TwoAddresses, Bind, tokenVars
      <4>4. account[found[v]] = account[bound[s]]
        BY <4>1, <4>2, <4>3 DEF Proven, TwoAddresses
      <4>5. account[found[v]] # None
        BY <1>1, <4>2, LinkNames DEF Proven, Stores, AccessAssumption
      <4>6. found[v] = bound[s]
        BY <1>1, <4>1, <4>2, <4>4, <4>5 DEF OneAccountPerAddress
      <4>7. QED
        BY <1>1, <2>3, <3>1, <4>6 DEF Bind
    <3>2. CASE Link(v).session # s
      BY <1>1, <2>3, <3>2 DEF Bind
    <3>3. QED
      BY <3>1, <3>2
  <2>4. ASSUME NEW u \in Sessions, Touched(u)
        PROVE  bound'[s] = bound[s]
    BY <1>1, <2>2, <2>4 DEF Touched
  <2>5. ASSUME NEW u \in Sessions, ExpireSession(u)
        PROVE  bound'[s] = bound[s]
    BY <1>1, <2>5 DEF ExpireSession, Excepted
  <2>6. bound'[s] = bound[s]
    BY SessionWrites, <2>3, <2>4, <2>5
  <2>7. QED
    BY <1>3, <1>5, <2>1, <2>6 DEF Owns
<1>6. QED
  BY <1>4, <1>5 DEF Owns

\* No step takes an idea from a session that may open it, outside the
\* exceptions FounderKeepsIdeas names.
THEOREM FounderKeepsIdeasHolds == Spec => FounderKeepsIdeas
<1>1. IInv /\ [Next]_vars =>
        [\A s \in Sessions, i \in Ideas :
           Owns(s, i) => Owns(s, i)' \/ s \in gaps' \/ TwoAddresses(s)']_vars
  BY FounderKeepsIdea
<1>2. QED
  BY Invariant, <1>1, PTL DEF Spec, FounderKeepsIdeas
=============================================================================
