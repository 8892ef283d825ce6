-------------------------------- MODULE ShopProofs --------------------------------
(***************************************************************************)
(* Proofs about the screens of a shop: the query cache under them, for     *)
(* every query and mutation of the hooks and any number of changes; the    *)
(* stockroom, for any number of forms, of rows and of calls in flight; and *)
(* the screens that sell, for any number of customers, carts, links and    *)
(* checks of a payment.                                                    *)
(***************************************************************************)
EXTENDS QueryCache, Stockroom, Checkout, FiniteSetTheorems, TLAPS

-----------------------------------------------------------------------------
(* The query cache. *)

FetchRecord == [st: {"none", "sent", "read"}, version: Versions, of: {0} \cup Tenants, old: BOOLEAN]
CacheRecord == [version: {-1} \cup Versions, of: {0} \cup Tenants, invalid: BOOLEAN,
          stale: BOOLEAN, old: BOOLEAN]
Submission == [st: {"idle", "sent", "done"}, of: {0} \cup Tenants, version: Versions, acked: Versions]

\* Whoever asks is signed in.
AskedInShop ==
  /\ page.open => SignedIn
  /\ fetch.st # "none" => fetch.of \in Tenants
  /\ fetch.st = "none" => fetch = NoFetch
  /\ submitted.st # "idle" => submitted.of \in Tenants

\* On the phone a fetch in flight is of the business that is signed in, like
\* what is cached.
OfTheShop ==
  /\ CacheOfShop
  /\ Mobile /\ SignedIn /\ fetch # NoFetch => fetch.of = page.shop

\* No change is acknowledged before it was made; and what was read before it,
\* cached or on its way, was made out of date.
Dropped ==
  /\ submitted.st = "done" => submitted.version <= backend[submitted.of]
  /\ SignedIn => submitted.acked <= backend[page.shop]
  /\ ~SignedIn => submitted.acked = 0
  /\ topic.drops =>
       /\ fetch.st = "read" /\ ~fetch.old /\ fetch.of = page.shop => fetch.version >= submitted.acked
       /\ Cached /\ ~cache.invalid /\ ~cache.old /\ cache.of = page.shop
            => cache.version >= submitted.acked

CacheInv == QueryCacheTypeOK /\ AskedInShop /\ OfTheShop /\ Dropped

LEMMA VersionsAre ==
  /\ \A v \in Versions : v \in Nat
  /\ -1 \notin Versions /\ 0 \in Versions
  /\ \A v \in {-1} \cup Versions : v >= 0 <=> v \in Versions
  /\ \A v \in Versions : v < MaxVersion => v + 1 \in Versions
BY CacheAssumption DEF Versions

LEMMA NotCachedType ==
  /\ NotCached \in CacheRecord /\ NotCached.version = -1
  /\ NoFetch \in FetchRecord /\ NoFetch.st = "none"
  /\ NoMutation \in Submission
BY VersionsAre DEF NotCached, NoFetch, NoMutation, CacheRecord, FetchRecord, Submission

LEMMA CacheInitial == QueryCacheInit => CacheInv
<1> SUFFICES ASSUME QueryCacheInit PROVE CacheInv
  OBVIOUS
<1>1. QueryCacheTypeOK
  BY CacheAssumption, NotCachedType, VersionsAre
     DEF QueryCacheInit, QueryCacheTypeOK, CacheRecord, FetchRecord, Submission, Tenants
<1>2. AskedInShop
  BY NotCachedType DEF QueryCacheInit, AskedInShop, SignedIn, NoMutation
<1>3. OfTheShop
  BY NotCachedType DEF QueryCacheInit, OfTheShop, CacheOfShop, Cached
<1>4. Dropped
  BY NotCachedType DEF QueryCacheInit, Dropped, Cached, NoMutation, SignedIn, Tenants
<1> QED BY <1>1, <1>2, <1>3, <1>4 DEF CacheInv

\* What is read and written of the cache, the fetch and the mutation keeps its type.
LEMMA CacheUpdates ==
  ASSUME QueryCacheTypeOK
  PROVE  /\ cache \in CacheRecord /\ fetch \in FetchRecord /\ submitted \in Submission
         /\ [cache EXCEPT !.invalid = TRUE] \in CacheRecord
         /\ [cache EXCEPT !.stale = TRUE] \in CacheRecord
         /\ [fetch EXCEPT !.old = TRUE] \in FetchRecord
         /\ \A v \in Versions : [fetch EXCEPT !.st = "read", !.version = v] \in FetchRecord
         /\ \A b \in {0} \cup Tenants, o \in BOOLEAN :
              /\ [NoFetch EXCEPT !.st = "sent", !.of = b] \in FetchRecord
              /\ [NoFetch EXCEPT !.st = "sent", !.of = b, !.old = o] \in FetchRecord
         /\ [version |-> fetch.version, of |-> fetch.of, invalid |-> FALSE,
             stale |-> FALSE, old |-> fetch.old] \in CacheRecord
<1>1. cache \in CacheRecord /\ fetch \in FetchRecord /\ submitted \in Submission
  BY DEF QueryCacheTypeOK, CacheRecord, FetchRecord, Submission
<1>2. NoFetch \in FetchRecord
  BY NotCachedType
<1> QED BY <1>1, <1>2 DEF CacheRecord, FetchRecord

LEMMA SubmittedUpdates ==
  ASSUME QueryCacheTypeOK, NEW v \in Versions, NEW b \in Tenants
  PROVE  /\ [submitted EXCEPT !.st = "sent", !.of = b] \in Submission
         /\ [submitted EXCEPT !.st = "done", !.version = v] \in Submission
         /\ [submitted EXCEPT !.acked = v] \in Submission
         /\ [NoMutation EXCEPT !.acked = v] \in Submission
<1>1. submitted \in Submission
  BY DEF QueryCacheTypeOK, Submission
<1>2. NoMutation \in Submission
  BY NotCachedType
<1> QED BY <1>1, <1>2 DEF Submission

\* The type invariant, with the records' types by name.
CacheTypes ==
  /\ topic \in CacheTopics /\ backend \in [Tenants -> Versions]
  /\ cache \in CacheRecord /\ fetch \in FetchRecord /\ submitted \in Submission
  /\ page \in [open: BOOLEAN, shop: {0} \cup Tenants]
  /\ spent \in [fetches: 0..MaxFetches, sessions: 0..MaxSessions]

LEMMA CacheTypesAre == QueryCacheTypeOK <=> CacheTypes
BY DEF QueryCacheTypeOK, CacheTypes, CacheRecord, FetchRecord, Submission

LEMMA CacheTypesAreNext == QueryCacheTypeOK' <=> CacheTypes'
BY DEF QueryCacheTypeOK, CacheTypes, CacheRecord, FetchRecord, Submission

\* A fetch is sent for the business that is signed in.
LEMMA FetchStarts ==
  ASSUME QueryCacheTypeOK, StartFetch
  PROVE  /\ fetch' \in FetchRecord /\ spent' \in [fetches: 0..MaxFetches, sessions: 0..MaxSessions]
         /\ fetch'.st = "sent" /\ fetch'.of = page.shop
<1>1. NoFetch \in FetchRecord /\ page.shop \in {0} \cup Tenants
  BY NotCachedType DEF QueryCacheTypeOK
<1>2. fetch' = [NoFetch EXCEPT !.st = "sent", !.of = page.shop]
  BY DEF StartFetch
<1>3. fetch' \in FetchRecord /\ fetch'.st = "sent" /\ fetch'.of = page.shop
  BY <1>1, <1>2 DEF FetchRecord
<1>4. spent' \in [fetches: 0..MaxFetches, sessions: 0..MaxSessions]
  BY CacheAssumption DEF StartFetch, QueryCacheTypeOK
<1> QED BY <1>3, <1>4

\* A step that reads at most: the server, the mutation and the session stay.
LEMMA LooksKeep ==
  ASSUME CacheInv, OpenScreen \/ CloseScreen \/ BecomesStale \/ RefetchQuery
  PROVE  CacheInv'
<1> USE CacheTypesAre DEF CacheInv
<1>1. UNCHANGED <<topic, backend, submitted>> /\ page'.shop = page.shop
  BY DEF OpenScreen, CloseScreen, BecomesStale, RefetchQuery, CacheTypes
<1>2. cache' \in CacheRecord /\ cache'.version = cache.version /\ cache'.of = cache.of
      /\ cache'.invalid = cache.invalid /\ cache'.old = cache.old
  BY CacheUpdates DEF OpenScreen, CloseScreen, BecomesStale, RefetchQuery, CacheRecord
<1>3. UNCHANGED <<fetch, spent>> \/ StartFetch
  BY DEF OpenScreen, CloseScreen, BecomesStale, RefetchQuery
<1>4. page' \in [open: BOOLEAN, shop: {0} \cup Tenants] /\ (page'.open => SignedIn)
  BY DEF OpenScreen, CloseScreen, BecomesStale, RefetchQuery, CacheTypes, AskedInShop
<1>5. StartFetch => SignedIn
  BY DEF OpenScreen, CloseScreen, BecomesStale, RefetchQuery, CacheTypes, AskedInShop, StartFetch
<1>6. CacheTypes'
  BY <1>1, <1>2, <1>3, <1>4, FetchStarts DEF CacheTypes
<1>7. fetch' = fetch \/ (fetch'.st = "sent" /\ fetch'.of = page.shop /\ page.shop \in Tenants)
  BY <1>3, <1>5, FetchStarts DEF CacheTypes, SignedIn
<1>8. AskedInShop'
  BY <1>1, <1>4, <1>7 DEF AskedInShop, SignedIn
<1>9. OfTheShop'
  BY <1>1, <1>2, <1>7 DEF OfTheShop, CacheOfShop, Mobile, SignedIn, Cached
<1>10. Dropped'
  BY <1>1, <1>2, <1>7 DEF Dropped, SignedIn, Cached
<1> QED BY <1>6, <1>8, <1>9, <1>10, CacheTypesAreNext

\* The server answers a fetch, and the answer is cached or lost.
LEMMA FetchKeeps ==
  ASSUME CacheInv, ServerReads \/ Fetched \/ FetchFailed \/ AdminRefreshed
  PROVE  CacheInv'
<1> USE CacheTypesAre DEF CacheInv
<1>1. CASE ServerReads
  <2> PICK v \in Versions : v = backend[fetch.of]
    BY <1>1 DEF ServerReads, CacheTypes, AskedInShop
  <2>1. fetch' = [fetch EXCEPT !.st = "read", !.version = v]
    BY <1>1 DEF ServerReads
  <2>2. fetch' \in FetchRecord /\ fetch'.st = "read" /\ fetch'.version = v
        /\ fetch'.of = fetch.of /\ fetch'.old = fetch.old /\ fetch # NoFetch
    BY <1>1, <2>1, CacheUpdates, NotCachedType DEF ServerReads, CacheTypes, FetchRecord
  <2>3. UNCHANGED <<topic, backend, cache, page, submitted, spent>> /\ fetch.of \in Tenants
    BY <1>1 DEF ServerReads, AskedInShop
  <2>4. CacheTypes'
    BY <2>2, <2>3 DEF CacheTypes
  <2>5. AskedInShop' /\ OfTheShop'
    BY <2>2, <2>3 DEF AskedInShop, SignedIn, OfTheShop, CacheOfShop, Mobile, Cached
  <2>6. fetch.of = page.shop => v >= submitted.acked
    BY <2>3, VersionsAre DEF Dropped, Tenants, SignedIn, CacheTypes, Submission
  <2>7. Dropped'
    BY <2>2, <2>3, <2>6 DEF Dropped, SignedIn, Cached
  <2> QED BY <2>4, <2>5, <2>7, CacheTypesAreNext
<1>2. CASE Fetched
  <2>1. cache' = [version |-> fetch.version, of |-> fetch.of, invalid |-> FALSE,
                  stale |-> FALSE, old |-> fetch.old]
        /\ fetch' = NoFetch /\ fetch.st = "read" /\ fetch # NoFetch
    BY <1>2, NotCachedType DEF Fetched
  <2>2. cache' \in CacheRecord /\ NoFetch \in FetchRecord /\ NoFetch.st = "none"
    BY <2>1, CacheUpdates, NotCachedType
  <2>3. UNCHANGED <<topic, backend, page, submitted, spent>> /\ fetch.of \in Tenants
    BY <1>2, <2>1 DEF Fetched, AskedInShop
  <2>4. CacheTypes'
    BY <2>1, <2>2, <2>3 DEF CacheTypes
  <2>5. AskedInShop' /\ OfTheShop'
    BY <2>1, <2>2, <2>3 DEF AskedInShop, SignedIn, OfTheShop, CacheOfShop, Mobile, Cached
  <2>6. Dropped'
    BY <2>1, <2>2, <2>3 DEF Dropped, SignedIn, Cached
  <2> QED BY <2>4, <2>5, <2>6, CacheTypesAreNext
<1>3. CASE FetchFailed \/ AdminRefreshed
  <2>1. UNCHANGED <<topic, backend, cache, page, submitted, spent>>
    BY <1>3 DEF FetchFailed, AdminRefreshed
  <2>2. fetch' = NoFetch \/ AskAgain
    BY <1>3 DEF FetchFailed, AdminRefreshed
  <2>3. AskAgain => page.shop \in Tenants /\ fetch.old \in BOOLEAN
    BY DEF AskAgain, SignedIn, CacheTypes, FetchRecord
  <2>4. /\ fetch' \in FetchRecord
        /\ \/ fetch' = NoFetch /\ fetch'.st = "none"
           \/ fetch'.st = "sent" /\ fetch'.of = page.shop /\ page.shop \in Tenants
    <3>1. CASE AskAgain
      <4>1. fetch' = [NoFetch EXCEPT !.st = "sent", !.of = page.shop, !.old = fetch.old]
        BY <3>1 DEF AskAgain
      <4>2. fetch' \in FetchRecord
        BY <2>3, <3>1, <4>1, CacheUpdates
      <4>3. fetch'.st = "sent" /\ fetch'.of = page.shop
        BY <4>1, NotCachedType DEF FetchRecord
      <4> QED BY <2>3, <3>1, <4>2, <4>3
    <3>2. CASE fetch' = NoFetch
      BY <3>2, NotCachedType
    <3> QED BY <2>2, <3>1, <3>2
  <2>5. CacheTypes'
    BY <2>1, <2>4 DEF CacheTypes
  <2>6. AskedInShop' /\ OfTheShop'
    BY <2>1, <2>4 DEF AskedInShop, SignedIn, OfTheShop, CacheOfShop, Mobile, Cached
  <2>7. Dropped'
    BY <2>1, <2>4 DEF Dropped, SignedIn, Cached
  <2> QED BY <2>5, <2>6, <2>7, CacheTypesAreNext
<1> QED BY <1>1, <1>2, <1>3

\* The server's versions only grow.
LEMMA Grown ==
  ASSUME CacheTypes, NEW b \in Tenants, ServerChanges(b)
  PROVE  /\ backend' \in [Tenants -> Versions]
         /\ \A c \in Tenants, v \in Versions : v <= backend[c] => v <= backend'[c]
<1>1. backend' = [backend EXCEPT ![b] = backend[b] + 1] /\ backend[b] < MaxVersion
  BY DEF ServerChanges
<1>2. backend[b] \in Versions /\ backend[b] + 1 \in Versions
  BY <1>1, VersionsAre DEF CacheTypes
<1>3. backend' \in [Tenants -> Versions]
  BY <1>1, <1>2 DEF CacheTypes
<1>4. ASSUME NEW c \in Tenants, NEW v \in Versions, v <= backend[c]
      PROVE  v <= backend'[c]
  BY <1>1, <1>2, <1>4, VersionsAre DEF CacheTypes
<1> QED BY <1>3, <1>4

\* A mutation is sent, and takes effect; somebody else changes something.
LEMMA ChangeKeeps ==
  ASSUME CacheInv, Mutate \/ MutationDone \/ OthersChange
  PROVE  CacheInv'
<1> USE CacheTypesAre DEF CacheInv
<1>1. CASE Mutate
  <2>1. page.shop \in Tenants /\ submitted' = [submitted EXCEPT !.st = "sent", !.of = page.shop]
    BY <1>1 DEF Mutate, CacheTypes, SignedIn
  <2>2. submitted' \in Submission /\ submitted'.st = "sent" /\ submitted'.of = page.shop
        /\ submitted'.acked = submitted.acked
    BY <2>1, SubmittedUpdates, VersionsAre DEF CacheTypes, Submission
  <2>3. UNCHANGED <<topic, backend, cache, fetch, page, spent>>
    BY <1>1 DEF Mutate
  <2>4. CacheTypes'
    BY <2>2, <2>3 DEF CacheTypes
  <2>5. AskedInShop' /\ OfTheShop'
    BY <2>1, <2>2, <2>3 DEF AskedInShop, SignedIn, OfTheShop, CacheOfShop, Mobile, Cached
  <2>6. Dropped'
    BY <2>2, <2>3 DEF Dropped, SignedIn, Cached
  <2> QED BY <2>4, <2>5, <2>6, CacheTypesAreNext
<1>2. CASE MutationDone
  <2>1. submitted.of \in Tenants /\ ServerChanges(submitted.of)
    BY <1>2 DEF MutationDone, AskedInShop
  <2>2. backend' \in [Tenants -> Versions]
        /\ \A c \in Tenants, v \in Versions : v <= backend[c] => v <= backend'[c]
    BY <2>1, Grown
  <2> PICK w \in Versions : w = backend'[submitted.of]
    BY <2>1, <2>2
  <2>3. submitted' = [submitted EXCEPT !.st = "done", !.version = w]
    BY <1>2 DEF MutationDone
  <2>4. submitted' \in Submission /\ submitted'.st = "done" /\ submitted'.of = submitted.of
        /\ submitted'.acked = submitted.acked /\ submitted'.version = w /\ submitted.acked \in Versions
    BY <2>1, <2>3, SubmittedUpdates DEF CacheTypes, Submission
  <2>5. UNCHANGED <<topic, cache, fetch, page, spent>>
    BY <1>2 DEF MutationDone
  <2>6. CacheTypes'
    BY <2>2, <2>4, <2>5 DEF CacheTypes
  <2>7. AskedInShop' /\ OfTheShop'
    BY <2>1, <2>4, <2>5 DEF AskedInShop, SignedIn, OfTheShop, CacheOfShop, Mobile, Cached
  <2>8. w <= w
    BY VersionsAre
  <2>9. SignedIn => submitted.acked <= backend'[page.shop]
    BY <2>2, <2>4 DEF Dropped, SignedIn, CacheTypes
  <2>10. Dropped'
    BY <2>4, <2>5, <2>8, <2>9 DEF Dropped, SignedIn, Cached
  <2> QED BY <2>6, <2>7, <2>10, CacheTypesAreNext
<1>3. CASE OthersChange
  <2>1. page.shop \in Tenants /\ ServerChanges(page.shop)
    BY <1>3 DEF OthersChange, CacheTypes, SignedIn
  <2>2. backend' \in [Tenants -> Versions]
        /\ \A c \in Tenants, v \in Versions : v <= backend[c] => v <= backend'[c]
    BY <2>1, Grown
  <2>3. UNCHANGED <<topic, cache, fetch, page, submitted, spent>>
    BY <1>3 DEF OthersChange
  <2>4. CacheTypes'
    BY <2>2, <2>3 DEF CacheTypes
  <2>5. AskedInShop' /\ OfTheShop'
    BY <2>3 DEF AskedInShop, SignedIn, OfTheShop, CacheOfShop, Mobile, Cached
  <2>6. submitted.version \in Versions /\ submitted.acked \in Versions
    BY DEF CacheTypes, Submission
  <2>7. Dropped'
    BY <2>1, <2>2, <2>3, <2>6 DEF Dropped, AskedInShop, SignedIn, Cached
  <2> QED BY <2>4, <2>5, <2>7, CacheTypesAreNext
<1> QED BY <1>1, <1>2, <1>3

\* When a mutation that drops the query is answered, what was read before is out
\* of date.
LEMMA AnswerKeeps ==
  ASSUME CacheInv, MutationAnswered \/ MutationLost
  PROVE  CacheInv'
<1> USE CacheTypesAre DEF CacheInv
<1>1. CASE MutationAnswered
  <2>1. submitted.of \in Tenants /\ submitted.version \in Versions /\ submitted.acked \in Versions
    BY <1>1 DEF MutationAnswered, AskedInShop, CacheTypes, Submission
  <2> PICK v \in Versions : v = IF submitted.of = page.shop THEN submitted.version ELSE submitted.acked
    BY <2>1
  <2>2. submitted' = [NoMutation EXCEPT !.acked = v]
    BY <1>1 DEF MutationAnswered
  <2>3. submitted' \in Submission /\ submitted'.st = "idle" /\ submitted'.acked = v
    BY <2>1, <2>2, SubmittedUpdates DEF NoMutation
  <2>4. UNCHANGED <<topic, backend, page>>
    BY <1>1 DEF MutationAnswered
  <2>5. /\ SignedIn => v <= backend[page.shop]
        /\ ~SignedIn => v = 0
    BY <1>1, <2>1 DEF Dropped, SignedIn, Tenants, MutationAnswered
  <2>6. CASE topic.drops
    <3>1. Invalidate
      BY <1>1, <2>6 DEF MutationAnswered
    <3>2. cache' \in CacheRecord /\ cache'.version = cache.version /\ cache'.of = cache.of
          /\ (Cached => cache'.invalid)
      BY <3>1, CacheUpdates DEF Invalidate, CacheRecord
    <3>3. (page.open /\ StartFetch)
          \/ (UNCHANGED <<spent, fetch>> /\ fetch = NoFetch)
          \/ (UNCHANGED spent /\ fetch # NoFetch /\ fetch' = [fetch EXCEPT !.old = TRUE])
      BY <3>1 DEF Invalidate
    <3>4. \/ fetch'.st = "sent" /\ fetch'.of = page.shop /\ page.shop \in Tenants
          \/ fetch' = NoFetch /\ fetch = NoFetch
          \/ fetch # NoFetch /\ fetch'.st = fetch.st /\ fetch'.of = fetch.of /\ fetch'.old
             /\ fetch.st # "none"
      <4>1. CASE page.open /\ StartFetch
        BY <4>1, FetchStarts DEF AskedInShop, SignedIn, CacheTypes
      <4>2. CASE fetch # NoFetch /\ fetch' = [fetch EXCEPT !.old = TRUE]
        <5>1. fetch'.st = fetch.st /\ fetch'.of = fetch.of /\ fetch'.old
          BY <4>2 DEF CacheTypes, FetchRecord
        <5> QED BY <4>2, <5>1 DEF AskedInShop
      <4> QED BY <3>3, <4>1, <4>2
    <3>5. fetch' \in FetchRecord /\ spent' \in [fetches: 0..MaxFetches, sessions: 0..MaxSessions]
      BY <3>3, FetchStarts, CacheUpdates, NotCachedType DEF CacheTypes
    <3>6. CacheTypes'
      BY <2>3, <2>4, <3>2, <3>5 DEF CacheTypes
    <3>7. AskedInShop'
      BY <2>3, <2>4, <3>4, NotCachedType DEF AskedInShop, SignedIn
    <3>8. OfTheShop'
      BY <2>4, <3>2, <3>4, NotCachedType DEF OfTheShop, CacheOfShop, Mobile, SignedIn, Cached
    <3>9. Dropped'
      BY <2>3, <2>4, <2>5, <3>2, <3>4, NotCachedType DEF Dropped, SignedIn, Cached
    <3> QED BY <3>6, <3>7, <3>8, <3>9, CacheTypesAreNext
  <2>7. CASE ~topic.drops
    <3>1. UNCHANGED <<cache, fetch, spent>>
      BY <1>1, <2>7 DEF MutationAnswered
    <3>2. CacheTypes'
      BY <2>3, <2>4, <3>1 DEF CacheTypes
    <3>3. AskedInShop' /\ OfTheShop'
      BY <2>3, <2>4, <3>1 DEF AskedInShop, OfTheShop, CacheOfShop, Mobile, SignedIn, Cached
    <3>4. Dropped'
      BY <2>3, <2>4, <2>5, <2>7, <3>1 DEF Dropped, SignedIn
    <3> QED BY <3>2, <3>3, <3>4, CacheTypesAreNext
  <2> QED BY <2>6, <2>7
<1>2. CASE MutationLost
  <2>1. submitted' \in Submission /\ submitted'.st = "idle" /\ submitted'.acked = submitted.acked
    BY <1>2, SubmittedUpdates DEF MutationLost, CacheTypes, Submission, NoMutation, Tenants
  <2>2. UNCHANGED <<topic, backend, cache, fetch, page, spent>>
    BY <1>2 DEF MutationLost
  <2>3. CacheTypes'
    BY <2>1, <2>2 DEF CacheTypes
  <2>4. AskedInShop' /\ OfTheShop'
    BY <2>1, <2>2 DEF AskedInShop, OfTheShop, CacheOfShop, Mobile, SignedIn, Cached
  <2>5. Dropped'
    BY <2>1, <2>2 DEF Dropped, SignedIn, Cached
  <2> QED BY <2>3, <2>4, <2>5, CacheTypesAreNext
<1> QED BY <1>1, <1>2

\* A session begins or ends with no change acknowledged.
LEMMA SessionKeeps ==
  ASSUME CacheInv, \/ SwitchShop \/ LogOut \/ LogIn \/ PortalLogOut
                   \/ AdminLogIn \/ LenderLogIn \/ AgentLogIn \/ SentAway
  PROVE  CacheInv'
<1> USE CacheTypesAre DEF CacheInv
<1>1. PICK b \in {0} \cup Tenants : SessionOf(b) /\ (b # 0 /\ Mobile => Clear)
  <2>1. CASE SwitchShop \/ LogOut \/ LogIn
    <3>1. 3 - page.shop \in {0} \cup Tenants \/ ~SignedIn
      BY DEF CacheTypes, SignedIn, Tenants
    <3> QED BY <2>1, <3>1 DEF SwitchShop, LogOut, LogIn, Session, SignedIn
  <2>2. CASE SentAway
    BY <2>2 DEF SentAway
  <2>3. CASE PortalLogOut
    BY <2>3 DEF PortalLogOut, PortalSession, Session
  <2>4. CASE AdminLogIn \/ LenderLogIn \/ AgentLogIn
    BY <2>4 DEF AdminLogIn, LenderLogIn, AgentLogIn, PortalLogIn, PortalSession, Session
  <2> QED BY <2>1, <2>2, <2>3, <2>4
<1>2. Clear \/ KeepCache
  BY DEF SwitchShop, LogOut, LogIn, PortalLogOut, AdminLogIn, LenderLogIn, AgentLogIn,
     PortalLogIn, PortalSession, SentAway
<1>3. UNCHANGED <<topic, backend>> /\ page' = [open |-> FALSE, shop |-> b]
      /\ (submitted' = NoMutation \/ submitted' = [submitted EXCEPT !.acked = 0])
  <2>1. UNCHANGED <<topic, backend>> /\ page' = [open |-> FALSE, shop |-> b]
    BY <1>1 DEF SessionOf
  <2>2. submitted' = NoMutation \/ \E n : Session(n)
    BY DEF SwitchShop, LogOut, LogIn, PortalLogOut, AdminLogIn, LenderLogIn, AgentLogIn,
       PortalLogIn, PortalSession, SentAway
  <2> QED BY <2>1, <2>2 DEF Session
<1>4. spent' \in [fetches: 0..MaxFetches, sessions: 0..MaxSessions]
  BY <1>1, CacheAssumption DEF SessionOf, CacheTypes
<1>5. /\ submitted' \in Submission /\ submitted'.acked = 0
      /\ \/ submitted'.st = "idle"
         \/ /\ submitted'.st = submitted.st
            /\ submitted'.of = submitted.of /\ submitted'.version = submitted.version
  <2>1. CASE submitted' = NoMutation
    BY <2>1, NotCachedType DEF NoMutation
  <2>2. CASE submitted' = [submitted EXCEPT !.acked = 0]
    <3>1. submitted' \in Submission
      BY <2>2, SubmittedUpdates, VersionsAre DEF Tenants
    <3> QED BY <2>2, <3>1 DEF CacheTypes, Submission
  <2> QED BY <1>3, <2>1, <2>2
<1>6. \/ UNCHANGED <<cache, fetch>>
      \/ cache' = NotCached /\ fetch' = NoFetch
  BY <1>2 DEF Clear, KeepCache
<1>7. CacheTypes'
  BY <1>3, <1>4, <1>5, <1>6, NotCachedType DEF CacheTypes
<1>8. AskedInShop'
  BY <1>3, <1>5, <1>6, NotCachedType DEF AskedInShop, SignedIn
<1>9. OfTheShop'
  BY <1>1, <1>3, <1>6, NotCachedType DEF OfTheShop, CacheOfShop, Mobile, SignedIn, Cached, Clear
<1>10. 0 <= backend[b] \/ b = 0
  BY VersionsAre DEF CacheTypes
<1>11. /\ \A v \in Versions : v >= 0
       /\ fetch.version \in Versions
       /\ Cached => cache.version >= 0
  BY VersionsAre DEF CacheTypes, FetchRecord, Cached
<1>12. Dropped'
  BY <1>3, <1>5, <1>6, <1>10, <1>11, NotCachedType DEF Dropped, SignedIn, Cached
<1> QED BY <1>7, <1>8, <1>9, <1>12, CacheTypesAreNext

LEMMA CacheStep == CacheInv /\ [QueryCacheNext]_cacheVars => CacheInv'
<1> SUFFICES ASSUME CacheInv, [QueryCacheNext]_cacheVars PROVE CacheInv'
  OBVIOUS
<1>1. CASE UNCHANGED cacheVars
  BY <1>1 DEF cacheVars, CacheInv, QueryCacheTypeOK, AskedInShop, OfTheShop, CacheOfShop,
     Dropped, Mobile, SignedIn, Cached
<1>2. CASE QueryCacheNext
  BY <1>2, LooksKeep, FetchKeeps, ChangeKeeps, AnswerKeeps, SessionKeeps DEF QueryCacheNext
<1> QED BY <1>1, <1>2

\* Every variable of the cache keeps its type.
THEOREM CacheTypeCorrect == QueryCacheSpec => []QueryCacheTypeOK
<1>1. CacheInv => QueryCacheTypeOK
  BY DEF CacheInv
<1> QED BY <1>1, CacheInitial, CacheStep, PTL DEF QueryCacheSpec

\* What a screen shows as up to date is of the business that is signed in, and
\* not older than the user's own acknowledged changes.
THEOREM CacheStaysCurrent == QueryCacheSpec => []CacheIsCurrent
<1>1. CacheInv => CacheOfShop
  BY DEF CacheInv, OfTheShop
<1>2. CacheInv => OwnChangesShown
  <2> SUFFICES ASSUME CacheInv, Cached, cache.of = page.shop, ~cache.invalid, ~cache.old,
                      <<topic.mutation, topic.query>> \notin Forgotten
               PROVE  cache.version >= submitted.acked
    BY DEF OwnChangesShown
  <2>1. topic.drops
    BY HooksAssumption DEF CacheInv, QueryCacheTypeOK
  <2> QED BY <2>1 DEF CacheInv, Dropped
<1>3. CacheInv => CacheIsCurrent
  BY <1>1, <1>2 DEF CacheIsCurrent
<1> QED BY <1>3, CacheInitial, CacheStep, PTL DEF QueryCacheSpec

-----------------------------------------------------------------------------
(* The stockroom. *)

RoomType == [section: {"items", "suppliers", "orders"}, failures: BOOLEAN, forms: FormNumbers]
EntryType == [shown: {"none", "details", "scanner", "item", "restock", "receive"},
              of: RowNumbers, number: FormNumbers, details: FormNumbers, code: FormNumbers,
              scanning: FormNumbers, step: 1..3, vat: RowNumbers]
RowType == [details: FormNumbers, in: FormNumbers, code: FormNumbers, kept: BOOLEAN,
            status: Orders, stocked: Nat]
VatType == [of: RowNumbers, amount: RowNumbers]

RoomTypes ==
  /\ room \in RoomType /\ entry \in EntryType
  /\ awaited \subseteq Asked /\ IsFiniteSet(awaited)
  /\ rows \in Seq(RowType) /\ Len(rows) <= MaxRows
  /\ vats \in Seq(VatType)

LEMMA RoomTypesAre == RoomTypes => StockroomTypeOK
BY DEF RoomTypes, StockroomTypeOK, RoomType, EntryType, RowType, VatType

\* A form holds what was entered in it, or nothing.
FormInv ==
  /\ entry.of <= Len(rows)
  /\ entry.number <= room.forms
  /\ entry.details \in {0, entry.number}
  /\ \A i \in 1..Len(rows) : rows[i].in <= room.forms /\ rows[i].details = rows[i].in

\* The VAT in a form, in a call and on the server is that of the order.
VatInv ==
  /\ entry.shown = "receive" => entry.of # 0 /\ entry.vat \in {0, entry.of}
  /\ \A i \in 1..Len(rows) : rows[i].stocked = IF rows[i].status = "received" THEN 1 ELSE 0
  /\ \A call \in awaited : call.what \in {"receive", "vat"} => InSection("orders")
  /\ \A call \in awaited : call.what = "receive" /\ call.ok =>
       /\ call.of \in 1..Len(rows) /\ call.vat \in {0, call.of}
       /\ rows[call.of].status = "received"
  /\ \A v \in 1..Len(vats) :
       /\ vats[v].amount = vats[v].of
       /\ vats[v].of \in 1..Len(rows) /\ rows[vats[v].of].status = "received"

\* A form whose entry is on the server waits for the answer that empties it; the
\* form of a supplier changes that supplier.
AddedOnceInv ==
  /\ \A i, j \in 1..Len(rows) : rows[i].in = rows[j].in => i = j
  /\ \A call \in awaited : call.what = "create" => call.ok
  /\ \A i \in 1..Len(rows) : rows[i].in = entry.number =>
       IF InSection("suppliers")
         THEN FormShown("details") => IF entry.of = 0 THEN Awaiting("create") ELSE i = entry.of
         ELSE Awaiting("create")

StockInv == RoomTypes /\ FormInv /\ VatInv /\ (~Failing => AddedOnceInv)

LEMMA Counts ==
  /\ FormNumbers \subseteq Nat /\ RowNumbers \subseteq Nat
  /\ 0 \in FormNumbers /\ 0 \in RowNumbers
  /\ \A n \in FormNumbers : n + 1 <= MaxForms => n + 1 \in FormNumbers
  /\ \A o \in Nat : o <= MaxRows => 1..o \subseteq RowNumbers
BY StockroomAssumption DEF FormNumbers, RowNumbers


LEMMA StockInitial == StockroomInit => StockInv
<1> SUFFICES ASSUME StockroomInit PROVE StockInv
  OBVIOUS
<1>1. room \in RoomType /\ room.forms = 1 /\ 1 \in FormNumbers
  BY StockroomAssumption DEF StockroomInit, RoomType, FormNumbers
<1>2. entry \in EntryType /\ entry = NoForm
  BY <1>1, Counts DEF StockroomInit, EntryType, NoForm
<1>3. awaited = {} /\ rows = <<>> /\ vats = <<>> /\ IsFiniteSet(awaited)
  BY FS_EmptySet DEF StockroomInit
<1>4. RoomTypes
  BY <1>1, <1>2, <1>3, StockroomAssumption DEF RoomTypes
<1>5. FormInv /\ VatInv /\ AddedOnceInv
  BY <1>1, <1>2, <1>3, Counts DEF FormInv, VatInv, AddedOnceInv, NoForm
<1> QED BY <1>4, <1>5 DEF StockInv

-----------------------------------------------------------------------------
\* The owner moves between forms, or an answer arrives: the server's rows stay.
\* A form is the same one, or a new one; a form of a supplier that is shown is new
\* or the one that was shown; and the answer to an entry that was added empties
\* the form.
Enters ==
  /\ UNCHANGED <<rows, vats>>
  /\ awaited' \subseteq awaited
  /\ room' \in RoomType /\ room'.section = room.section /\ room'.failures = room.failures
  /\ entry' \in EntryType /\ entry'.of <= Len(rows)
  /\ \/ entry'.number = entry.number /\ room'.forms = room.forms
     \/ entry'.number = room'.forms /\ room'.forms = room.forms + 1
  /\ entry'.details \in {0, entry'.number}
  /\ entry'.shown = "receive" => entry'.of # 0 /\ entry'.vat \in {0, entry'.of}
  /\ InSection("suppliers") /\ entry'.shown = "details" /\ entry'.number = entry.number
       => entry.shown = "details" /\ entry'.of = entry.of
  /\ ~Failing => \A call \in awaited \ awaited' : call.what = "create" =>
       IF InSection("suppliers") THEN entry'.shown = "details" => entry'.of # 0
                                 ELSE room'.forms = room.forms + 1

LEMMA EntersKeeps ==
  ASSUME StockInv, Enters
  PROVE  StockInv'
<1>1. RoomTypes'
  <2>1. IsFiniteSet(awaited')
    BY FS_Subset DEF Enters, StockInv, RoomTypes
  <2> QED BY <2>1 DEF Enters, StockInv, RoomTypes
<1>2. room.forms \in Nat /\ room'.forms \in Nat /\ room.forms <= room'.forms
      /\ entry.number \in Nat /\ entry'.number \in Nat
      /\ \A i \in 1..Len(rows) : rows[i] \in RowType /\ rows[i].in \in Nat
  <2>1. room \in RoomType /\ room' \in RoomType /\ entry \in EntryType /\ entry' \in EntryType
        /\ rows \in Seq(RowType)
    BY DEF Enters, StockInv, RoomTypes
  <2>2. /\ room.forms \in FormNumbers /\ room'.forms \in FormNumbers
        /\ entry.number \in FormNumbers /\ entry'.number \in FormNumbers
    BY <2>1 DEF RoomType, EntryType
  <2>3. \A i \in 1..Len(rows) : rows[i] \in RowType /\ rows[i].in \in FormNumbers
    <3>1. \A i \in 1..Len(rows) : rows[i] \in RowType
      BY <2>1
    <3> QED BY <3>1 DEF RowType
  <2>4. room.forms <= room'.forms
    <3>1. room.forms \in Nat
      BY <2>2, Counts
    <3>2. room'.forms = room.forms \/ room'.forms = room.forms + 1
      BY DEF Enters
    <3> QED BY <3>1, <3>2
  <2> QED BY <2>2, <2>3, <2>4, Counts
<1>3. FormInv'
  BY <1>2 DEF Enters, StockInv, FormInv
<1>4. VatInv'
  BY DEF Enters, StockInv, VatInv, InSection
<1>5. ASSUME ~Failing' PROVE AddedOnceInv'
  <2>1. AddedOnceInv /\ ~Failing
    BY <1>5 DEF StockInv, Failing, Enters
  <2>2. \A i \in 1..Len(rows) : rows[i].in <= room.forms
    BY DEF StockInv, FormInv
  <2>3. UNCHANGED rows /\ (entry'.number = entry.number \/ entry'.number = room.forms + 1)
    BY DEF Enters
  <2>4. ASSUME NEW i \in 1..Len(rows), rows[i].in = entry'.number
        PROVE  /\ entry'.number = entry.number /\ room'.forms = room.forms
               /\ rows[i].in = entry.number
    BY <1>2, <2>2, <2>3, <2>4 DEF Enters
  <2>5. ASSUME NEW i \in 1..Len(rows), rows[i].in = entry'.number
        PROVE  IF InSection("suppliers")'
                 THEN FormShown("details")' => IF entry'.of = 0 THEN Awaiting("create")' ELSE i = entry'.of
                 ELSE Awaiting("create")'
    <3>1. InSection("suppliers")' <=> InSection("suppliers")
      BY DEF InSection, Enters
    <3>2. CASE InSection("suppliers") /\ FormShown("details")'
      <4>1. FormShown("details") /\ entry'.of = entry.of
        BY <2>4, <2>5, <3>2 DEF Enters, FormShown
      <4>2. IF entry.of = 0 THEN Awaiting("create") ELSE i = entry.of
        BY <2>1, <2>4, <2>5, <3>2, <4>1 DEF AddedOnceInv
      <4>3. entry'.of = 0 => \A call \in awaited \ awaited' : call.what # "create"
        BY <2>1, <3>2 DEF Enters, FormShown
      <4> QED BY <3>1, <3>2, <4>1, <4>2, <4>3 DEF Awaiting
    <3>3. CASE ~InSection("suppliers")
      <4>1. Awaiting("create")
        BY <2>1, <2>4, <2>5, <3>3 DEF AddedOnceInv
      <4>2. \A call \in awaited \ awaited' : call.what # "create"
        BY <1>2, <2>1, <2>4, <2>5, <3>3 DEF Enters
      <4> QED BY <3>1, <3>3, <4>1, <4>2 DEF Awaiting
    <3> QED BY <3>1, <3>2, <3>3
  <2> QED BY <2>1, <2>3, <2>5 DEF AddedOnceInv, Enters
<1> QED BY <1>1, <1>3, <1>4, <1>5 DEF StockInv

-----------------------------------------------------------------------------
\* What a form that is emptied looks like.
LEMMA NewForms ==
  ASSUME StockInv, NewForm
  PROVE  /\ room' \in RoomType /\ room'.forms = room.forms + 1 /\ NextForm = room'.forms
         /\ room'.section = room.section /\ room'.failures = room.failures
         /\ NextForm \in FormNumbers
<1>1. room \in RoomType /\ room.forms \in FormNumbers
  BY DEF StockInv, RoomTypes, RoomType
<1>2. room.forms + 1 \in FormNumbers
  BY <1>1, Counts DEF NewForm, NextForm
<1> QED BY <1>1, <1>2 DEF NewForm, NextForm, RoomType

\* The fields of a form.
LEMMA EntryFields ==
  ASSUME StockInv
  PROVE  /\ room \in RoomType /\ entry \in EntryType
         /\ entry.number \in FormNumbers /\ entry.details \in FormNumbers
         /\ entry.of \in RowNumbers /\ entry.of <= Len(rows) /\ Len(rows) \in Nat
         /\ 0 <= Len(rows)
         /\ 0 \in RowNumbers /\ 0 \in FormNumbers /\ 1..Len(rows) \subseteq RowNumbers
<1>1. entry \in EntryType /\ rows \in Seq(RowType) /\ Len(rows) <= MaxRows
  BY DEF StockInv, RoomTypes
<1>2. Len(rows) \in Nat /\ 0 <= Len(rows)
  BY <1>1
<1>3. entry.number \in FormNumbers /\ entry.details \in FormNumbers /\ entry.of \in RowNumbers
  BY <1>1 DEF EntryType
<1> QED BY <1>1, <1>2, <1>3, Counts DEF StockInv, RoomTypes, FormInv

LEMMA EmptiedForm ==
  ASSUME NEW e \in EntryType, NextForm \in FormNumbers
  PROVE  /\ Emptied(e) \in EntryType
         /\ Emptied(e).number = NextForm /\ Emptied(e).details = 0
         /\ Emptied(e).shown = e.shown /\ Emptied(e).of = e.of /\ Emptied(e).vat = e.vat
<1>1. 0 \in FormNumbers /\ 1 \in 1..3
  BY Counts
<1> QED BY <1>1 DEF Emptied, EntryType

\* The owner goes from one form to another, or fills one in.
LEMMA TapsEnter ==
  ASSUME StockInv,
         \/ AddItemForm \/ WriteItemForm \/ CloseItemForm \/ OpenBarcodeScanner \/ BarcodeScanned
         \/ CloseBarcodeScanner \/ ShowItem \/ BackToItems \/ OpenRestock \/ CloseRestock
         \/ WriteSupplier \/ CloseSupplierForm
         \/ FillOrder \/ OrderStep \/ OpenReceive \/ NoVat \/ CloseReceive
  PROVE  Enters
<1> USE EntryFields
<1>1. UNCHANGED <<room, awaited, rows, vats>>
  BY DEF AddItemForm, WriteItemForm, CloseItemForm, OpenBarcodeScanner, BarcodeScanned,
     CloseBarcodeScanner, ShowItem, BackToItems, OpenRestock, CloseRestock, WriteSupplier,
     CloseSupplierForm, FillOrder, OrderStep, OpenReceive, NoVat, CloseReceive, Write, Dismiss
<1> DEFINE Form(e) ==
      /\ e \in EntryType /\ e.of <= Len(rows) /\ e.number = entry.number
      /\ e.details \in {0, e.number}
      /\ e.shown = "receive" => e.of # 0 /\ e.vat \in {0, e.of}
      /\ InSection("suppliers") /\ e.shown = "details" => entry.shown = "details" /\ e.of = entry.of
<1>2. Form(entry)
  BY DEF StockInv, FormInv, VatInv
<1>3. ASSUME ~InSection("suppliers"),
             NEW name \in {"none", "details", "scanner", "item", "restock"}
      PROVE  Form([entry EXCEPT !.shown = name])
  BY <1>2, <1>3 DEF EntryType
<1>4. ASSUME AddItemForm \/ OpenBarcodeScanner \/ BarcodeScanned \/ CloseBarcodeScanner
             \/ OpenRestock \/ CloseRestock
      PROVE  Form(entry')
  <2>1. ~InSection("suppliers")
    BY <1>4 DEF AddItemForm, OpenBarcodeScanner, BarcodeScanned, CloseBarcodeScanner,
       OpenRestock, CloseRestock, ItemsListed, ItemFormShown, ScannerOpen, ItemShown,
       RestockShown, InSection
  <2>2. CASE AddItemForm \/ CloseBarcodeScanner \/ OpenRestock \/ CloseRestock
    BY <2>1, <2>2, <1>3 DEF AddItemForm, CloseBarcodeScanner, OpenRestock, CloseRestock
  <2>3. CASE OpenBarcodeScanner
    BY <2>1, <2>3, <1>2 DEF OpenBarcodeScanner, EntryType
  <2>4. CASE BarcodeScanned
    BY <2>1, <2>4, <1>2 DEF BarcodeScanned, EntryType
  <2> QED BY <1>4, <2>2, <2>3, <2>4
<1>5. ASSUME Write PROVE Form(entry')
  BY <1>2, <1>5 DEF Write, EntryType
<1>6. ASSUME Dismiss PROVE Form(entry')
  BY <1>2, <1>6 DEF Dismiss, EntryType
<1>7. ASSUME ShowItem PROVE Form(entry')
  <2>1. ~InSection("suppliers")
    BY <1>7 DEF ShowItem, ItemsListed, InSection
  <2>2. PICK i \in 1..Len(rows) : entry' = [entry EXCEPT !.shown = "item", !.of = i]
    BY <1>7 DEF ShowItem
  <2>3. entry' \in EntryType /\ entry'.shown = "item" /\ entry'.of = i
        /\ entry'.number = entry.number /\ entry'.details = entry.details
    BY <2>2 DEF EntryType
  <2>4. i <= Len(rows)
    OBVIOUS
  <2> QED BY <1>2, <2>1, <2>3, <2>4
<1>8. ASSUME OpenReceive PROVE Form(entry')
  <2>1. ~InSection("suppliers")
    BY <1>8 DEF OpenReceive, OrdersListed, InSection
  <2>2. PICK o \in 1..Len(rows) : entry' = [entry EXCEPT !.shown = "receive", !.of = o, !.vat = o]
    BY <1>8 DEF OpenReceive
  <2>3. entry' \in EntryType /\ entry'.shown = "receive" /\ entry'.of = o /\ entry'.vat = o
        /\ entry'.number = entry.number /\ entry'.details = entry.details
    BY <2>2 DEF EntryType
  <2>4. o <= Len(rows) /\ o # 0
    OBVIOUS
  <2> QED BY <1>2, <2>1, <2>3, <2>4
<1>9. ASSUME NoVat PROVE Form(entry')
  BY <1>2, <1>9 DEF NoVat, EntryType, ReceiveFormShown, FormShown
<1>10. ASSUME OrderStep PROVE Form(entry')
  <2>1. entry.step \in 1..3
    BY DEF EntryType
  <2>2. PICK n \in 1..3 : entry' = [entry EXCEPT !.step = n]
    BY <1>10, <2>1 DEF OrderStep
  <2> QED BY <1>2, <2>2 DEF EntryType
<1>11. Form(entry')
  BY <1>4, <1>5, <1>6, <1>7, <1>8, <1>9, <1>10
     DEF WriteItemForm, CloseItemForm, BackToItems, WriteSupplier, CloseSupplierForm,
         FillOrder, CloseReceive
<1> QED BY <1>1, <1>11 DEF Enters

\* A form of its own begins.
LEMMA FormsBegin ==
  ASSUME StockInv, AddSupplierForm \/ OpenEditSupplier \/ CreateOrderForm \/ CloseOrderForm
  PROVE  Enters
<1> USE EntryFields
<1>1. UNCHANGED <<awaited, rows, vats>> /\ NewForm
  BY DEF AddSupplierForm, OpenEditSupplier, CreateOrderForm, CloseOrderForm
<1>2. /\ room' \in RoomType /\ room'.forms = room.forms + 1 /\ NextForm = room'.forms
      /\ room'.section = room.section /\ room'.failures = room.failures
      /\ NextForm \in FormNumbers
  BY <1>1, NewForms
<1>3. /\ entry' \in EntryType /\ entry'.shown \in {"none", "details"}
      /\ entry'.of \in {0, entry.of} \cup 1..Len(rows)
      /\ entry'.details \in {0, NextForm} /\ entry'.number = NextForm
  <2>1. /\ Emptied(entry) \in EntryType /\ Emptied(entry).number = NextForm
        /\ Emptied(entry).details = 0 /\ Emptied(entry).of = entry.of
    BY <1>2, EmptiedForm
  <2>2. CASE OpenEditSupplier
    <3>1. PICK o \in 1..Len(rows) :
            entry' = [Emptied(entry) EXCEPT !.shown = "details", !.of = o, !.details = NextForm]
      BY <2>2 DEF OpenEditSupplier
    <3> QED BY <1>2, <2>1, <3>1 DEF EntryType
  <2>3. CASE AddSupplierForm
    BY <2>1, <2>3 DEF AddSupplierForm, EntryType
  <2>4. CASE CreateOrderForm \/ CloseOrderForm
    BY <2>1, <2>4 DEF CreateOrderForm, CloseOrderForm, EntryType
  <2> QED BY <2>2, <2>3, <2>4
<1>5. entry'.of <= Len(rows)
  BY <1>3
<1>6. room.forms \in Nat /\ entry.number <= room.forms /\ entry.number \in Nat
  BY Counts DEF StockInv, FormInv, RoomTypes, RoomType
<1> QED BY <1>1, <1>2, <1>3, <1>5, <1>6 DEF Enters

\* An answer arrives that empties the form, or closes it.
LEMMA AnswersEnter ==
  ASSUME StockInv, ItemAdded \/ SupplierSaved \/ SupplierDeleted \/ OrderCreated \/ VatAnswered \/ ShowError
  PROVE  Enters
<1> USE EntryFields
<1>1. awaited' \subseteq awaited /\ UNCHANGED <<rows, vats>>
  BY DEF ItemAdded, SupplierSaved, SupplierDeleted, OrderCreated, VatAnswered, ShowError
<1>2. /\ entry.details \in {0, entry.number}
      /\ entry.shown = "receive" => entry.of # 0 /\ entry.vat \in {0, entry.of}
  BY DEF StockInv, FormInv, VatInv
<1>3. CASE ItemAdded \/ OrderCreated
  <2>1. NewForm /\ ~InSection("suppliers")
    BY <1>3 DEF ItemAdded, OrderCreated, InSection
  <2>2. /\ room' \in RoomType /\ room'.forms = room.forms + 1 /\ NextForm = room'.forms
        /\ room'.section = room.section /\ room'.failures = room.failures
        /\ NextForm \in FormNumbers
    BY <2>1, NewForms
  <2>3. PICK name \in {"none", entry.shown} : entry' = Emptied([entry EXCEPT !.shown = name])
    BY <1>3 DEF ItemAdded, OrderCreated
  <2>4. /\ [entry EXCEPT !.shown = name] \in EntryType
        /\ [entry EXCEPT !.shown = name].shown = name
        /\ [entry EXCEPT !.shown = name].of = entry.of
        /\ [entry EXCEPT !.shown = name].vat = entry.vat
    BY DEF EntryType
  <2>5. /\ entry' \in EntryType /\ entry'.number = NextForm /\ entry'.details = 0
        /\ entry'.shown = name /\ entry'.of = entry.of /\ entry'.vat = entry.vat
    BY <2>2, <2>3, <2>4, EmptiedForm
  <2> QED BY <1>1, <1>2, <2>1, <2>2, <2>5 DEF Enters
<1>4. CASE SupplierSaved
  <2>1. PICK call \in awaited :
          /\ InSection("suppliers") /\ awaited' = awaited \ {call}
          /\ call.what \in {"create", "update"}
          /\ entry' = [entry EXCEPT !.details = 0,
                            !.shown = IF (call.what = "create") = (entry.of = 0) THEN "none" ELSE @,
                            !.of = IF call.what = "update" THEN 0 ELSE @]
          /\ UNCHANGED room
    BY <1>4 DEF SupplierSaved
  <2>2. /\ entry' \in EntryType /\ entry'.number = entry.number /\ entry'.details = 0
        /\ entry'.vat = entry.vat
        /\ entry'.shown = IF (call.what = "create") = (entry.of = 0) THEN "none" ELSE entry.shown
        /\ entry'.of = IF call.what = "update" THEN 0 ELSE entry.of
    BY <2>1 DEF EntryType
  <2>3. entry'.of <= Len(rows)
    BY <2>2
  <2>4. entry'.shown = "none" \/ (entry'.shown = entry.shown /\ entry'.of = entry.of)
    BY <2>1, <2>2
  <2>5. call.what = "create" /\ entry'.shown = "details" => entry'.of # 0
    BY <2>1, <2>2
  <2> QED BY <1>1, <1>2, <2>1, <2>2, <2>3, <2>4, <2>5 DEF Enters
<1>5. CASE SupplierDeleted
  <2>1. PICK call \in awaited :
          /\ awaited' = awaited \ {call} /\ call.what = "delete" /\ UNCHANGED room
          /\ entry' = [entry EXCEPT !.shown = IF entry.of # 0 THEN "none" ELSE @, !.of = 0]
    BY <1>5 DEF SupplierDeleted
  <2>2. /\ entry' \in EntryType /\ entry'.number = entry.number /\ entry'.details = entry.details
        /\ entry'.shown = IF entry.of # 0 THEN "none" ELSE entry.shown
        /\ entry'.of = 0 /\ entry'.vat = entry.vat
    BY <2>1 DEF EntryType
  <2>3. \A c \in awaited \ awaited' : c.what # "create"
    BY <2>1
  <2> QED BY <1>1, <1>2, <2>1, <2>2, <2>3 DEF Enters
<1>6. CASE VatAnswered
  <2>1. PICK call \in awaited :
          /\ awaited' = awaited \ {call} /\ call.what = "vat" /\ UNCHANGED room
          /\ entry' = [entry EXCEPT !.shown = IF @ = "receive" THEN "none" ELSE @, !.of = 0]
    BY <1>6 DEF VatAnswered
  <2>2. InSection("orders") /\ ~InSection("suppliers")
    BY <2>1 DEF StockInv, VatInv, InSection
  <2>3. /\ entry' \in EntryType /\ entry'.number = entry.number /\ entry'.details = entry.details
        /\ entry'.shown # "receive" /\ entry'.of = 0
    BY <2>1 DEF EntryType
  <2>4. \A c \in awaited \ awaited' : c.what # "create"
    BY <2>1
  <2> QED BY <1>1, <1>2, <2>1, <2>2, <2>3, <2>4 DEF Enters
<1>7. CASE ShowError
  <2>1. UNCHANGED <<room, entry>> /\ \E call \in awaited : ~call.ok /\ awaited' = awaited \ {call}
    BY <1>7 DEF ShowError
  <2>2. ~Failing => \A c \in awaited \ awaited' : c.what # "create"
    BY <2>1 DEF StockInv, AddedOnceInv
  <2> QED BY <1>1, <1>2, <2>1, <2>2 DEF Enters
<1> QED BY <1>3, <1>4, <1>5, <1>6, <1>7

-----------------------------------------------------------------------------
\* A call that is sent, done or refused.
LEMMA AsksKeep ==
  ASSUME StockInv, NEW c \in Asked,
         awaited' = awaited \cup {c}, UNCHANGED <<room, entry, vats>>,
         rows' \in Seq(RowType), Len(rows') >= Len(rows), Len(rows') <= MaxRows,
         \A i \in 1..Len(rows') :
           /\ rows'[i].in <= room.forms /\ rows'[i].details = rows'[i].in
           /\ rows'[i].stocked = IF rows'[i].status = "received" THEN 1 ELSE 0,
         \A i \in 1..Len(rows) : rows[i].status = "received" => rows'[i].status = "received",
         c.what \in {"receive", "vat"} => InSection("orders"),
         c.what = "receive" /\ c.ok =>
           c.of \in 1..Len(rows) /\ c.vat \in {0, c.of} /\ rows'[c.of].status = "received",
         ~Failing => AddedOnceInv'
  PROVE  StockInv'
<1>1. RoomTypes'
  <2>1. IsFiniteSet(awaited')
    BY FS_AddElement DEF StockInv, RoomTypes
  <2> QED BY <2>1 DEF StockInv, RoomTypes
<1>2. Len(rows) \in Nat /\ Len(rows') \in Nat /\ 1..Len(rows) \subseteq 1..Len(rows')
  BY DEF StockInv, RoomTypes
<1>3. FormInv'
  <2>1. entry.of <= Len(rows) /\ entry.of \in Nat
    BY Counts DEF StockInv, FormInv, RoomTypes, EntryType
  <2>2. entry.of <= Len(rows')
    BY <1>2, <2>1
  <2> QED BY <2>2 DEF StockInv, FormInv
<1>4. VatInv'
  BY <1>2 DEF StockInv, VatInv, InSection
<1>5. Failing' <=> Failing
  BY DEF Failing
<1> QED BY <1>1, <1>3, <1>4, <1>5 DEF StockInv

\* What the server is sent.
LEMMA ServerCalls ==
  ASSUME StockInv, NEW what \in {"create", "update", "delete", "restock", "receive"}
  PROVE  /\ ToServer(what) \in Asked /\ ToServer(what).what = what /\ ToServer(what).ok
         /\ [ToServer(what) EXCEPT !.of = 0] \in Asked
         /\ [ToServer(what) EXCEPT !.of = 0].what = what
         /\ [ToServer(what) EXCEPT !.of = 0].ok
         /\ Error(what) \in Asked /\ Error(what).what = what /\ ~Error(what).ok
<1>1. entry \in EntryType
  BY EntryFields
<1>2. /\ entry.of \in RowNumbers /\ entry.details \in FormNumbers /\ entry.number \in FormNumbers
      /\ entry.code \in FormNumbers /\ entry.vat \in RowNumbers
  BY <1>1 DEF EntryType
<1> QED BY <1>2, Counts DEF ToServer, Error, Asked

\* A call that changes no more than the rows.
LEMMA CallsPosted ==
  ASSUME NEW call, NEW done \in BOOLEAN, Posts(call, done)
  PROVE  \/ done /\ awaited' = awaited \cup {call}
         \/ Failing /\ awaited' = awaited \cup {Error(call.what)} /\ (done \/ UNCHANGED rows)
BY DEF Posts, Succeeds, Fails

\* Rows as they are.
LEMMA RowFacts ==
  ASSUME StockInv
  PROVE  /\ rows \in Seq(RowType) /\ Len(rows) \in Nat /\ Len(rows) <= MaxRows
         /\ \A i \in 1..Len(rows) :
              /\ rows[i] \in RowType
              /\ rows[i].in <= room.forms /\ rows[i].details = rows[i].in
              /\ rows[i].stocked = IF rows[i].status = "received" THEN 1 ELSE 0
<1>1. rows \in Seq(RowType) /\ Len(rows) <= MaxRows
  BY DEF StockInv, RoomTypes
<1>2. \A i \in 1..Len(rows) : rows[i] \in RowType
  BY <1>1
<1> QED BY <1>1, <1>2 DEF StockInv, FormInv, VatInv

\* A row is added, in a form that has no row yet.
LEMMA CreateKeeps ==
  ASSUME StockInv, Create, entry.details # 0,
         InSection("suppliers") => FormShown("details") /\ entry.of = 0
  PROVE  StockInv'
<1> DEFINE call == [ToServer("create") EXCEPT !.of = 0]
<1>1. /\ call \in Asked /\ call.what = "create" /\ call.ok
      /\ Error("create") \in Asked /\ Error("create").what = "create" /\ ~Error("create").ok
  BY ServerCalls
<1>2. call.details = entry.details /\ call.in = entry.number /\ call.code \in FormNumbers
      /\ entry.details = entry.number /\ entry.number \in FormNumbers /\ entry.number <= room.forms
  BY EntryFields DEF ToServer, StockInv, FormInv, EntryType
<1> DEFINE r == Row(call)
<1>3. r \in RowType /\ r.in = entry.number /\ r.details = entry.number
      /\ r.status = "draft" /\ r.stocked = 0
  BY <1>2 DEF Row, RowType, Orders
<1>4. /\ ~Awaiting("create") /\ Len(rows) < MaxRows /\ UNCHANGED <<room, entry, vats>>
      /\ Posts(call, rows' = Append(rows, Row(call)))
  BY DEF Create
<1>5. \/ rows' = Append(rows, r) /\ awaited' = awaited \cup {call}
      \/ /\ Failing /\ awaited' = awaited \cup {Error("create")}
         /\ rows' = Append(rows, r) \/ UNCHANGED rows
  BY <1>1, <1>3, <1>4, CallsPosted
<1> HIDE DEF call, r
<1>6. PICK c \in Asked : awaited' = awaited \cup {c} /\ c.what = "create" /\ (c.ok \/ Failing)
  BY <1>1, <1>5
<1>7. CASE UNCHANGED rows
  <2>1. Failing
    <3>1. Len(Append(rows, r)) = Len(rows) + 1 /\ Len(rows) \in Nat
      BY RowFacts, <1>3
    <3> QED BY <1>5, <1>7, <3>1
  <2> QED BY <1>4, <1>6, <1>7, <2>1, RowFacts, AsksKeep
<1>8. CASE rows' = Append(rows, r)
  <2>1. /\ rows' \in Seq(RowType) /\ Len(rows') = Len(rows) + 1 /\ Len(rows) \in Nat
        /\ \A i \in 1..Len(rows) : rows'[i] = rows[i]
        /\ rows'[Len(rows) + 1] = r
    BY <1>3, <1>8, RowFacts
  <2>2. \A i \in 1..Len(rows') : i \in 1..Len(rows) \/ i = Len(rows) + 1
    BY <2>1
  <2>3. Len(rows') >= Len(rows) /\ Len(rows') <= MaxRows
    BY <1>4, <2>1, StockroomAssumption
  <2>4. \A i \in 1..Len(rows') :
          /\ rows'[i].in <= room.forms /\ rows'[i].details = rows'[i].in
          /\ rows'[i].stocked = IF rows'[i].status = "received" THEN 1 ELSE 0
    <3>1. ASSUME NEW i \in 1..Len(rows)
          PROVE  /\ rows'[i].in <= room.forms /\ rows'[i].details = rows'[i].in
                 /\ rows'[i].stocked = IF rows'[i].status = "received" THEN 1 ELSE 0
      BY <2>1, RowFacts
    <3>2. /\ r.in <= room.forms /\ r.details = r.in
          /\ r.stocked = IF r.status = "received" THEN 1 ELSE 0
      BY <1>2, <1>3
    <3>3. ASSUME NEW i \in 1..Len(rows')
          PROVE  /\ rows'[i].in <= room.forms /\ rows'[i].details = rows'[i].in
                 /\ rows'[i].stocked = IF rows'[i].status = "received" THEN 1 ELSE 0
      <4>1. CASE i \in 1..Len(rows)
        BY <3>1, <4>1
      <4>2. CASE i = Len(rows) + 1
        <5>1. rows'[i] = r
          BY <2>1, <4>2
        <5> QED BY <3>2, <5>1
      <4> QED BY <2>2, <4>1, <4>2
    <3> QED BY <3>3
  <2>5. ASSUME ~Failing PROVE AddedOnceInv'
    <3>1. AddedOnceInv
      BY <2>5 DEF StockInv
    <3>2. \A i \in 1..Len(rows) : rows[i].in # entry.number
      BY <1>4, <3>1 DEF AddedOnceInv
    <3>3. \A i, j \in 1..Len(rows') : rows'[i].in = rows'[j].in => i = j
      BY <1>3, <2>1, <2>2, <3>1, <3>2 DEF AddedOnceInv
    <3>4. \A d \in awaited' : d.what = "create" => d.ok
      BY <1>6, <2>5, <3>1 DEF AddedOnceInv
    <3>5. Awaiting("create")' /\ (InSection("suppliers")' => entry'.of = 0)
      BY <1>4, <1>6 DEF Awaiting, InSection
    <3> QED BY <3>3, <3>4, <3>5 DEF AddedOnceInv
  <2> QED BY <1>4, <1>6, <2>1, <2>3, <2>4, <2>5, AsksKeep
<1> QED BY <1>5, <1>7, <1>8

\* A supplier is changed, or a supplier is deleted, or an order received: one row
\* changes.
LEMMA RowKeeps ==
  ASSUME StockInv, NEW call \in Asked, call.what \in {"update", "delete", "receive"}, call.ok,
         Error(call.what) \in Asked, Error(call.what).what = call.what, ~Error(call.what).ok,
         NEW o \in 1..Len(rows), NEW row \in RowType,
         row.in <= room.forms, row.details = row.in,
         row.stocked = IF row.status = "received" THEN 1 ELSE 0,
         rows[o].status = "received" => row.status = "received",
         call.what = "receive" =>
           InSection("orders") /\ call.of = o /\ call.vat \in {0, o} /\ row.status = "received",
         row.in # rows[o].in =>
           InSection("suppliers") /\ FormShown("details") /\ entry.of = o /\ row.in = entry.number,
         row.in # rows[o].in => ~Awaiting("create"),
         UNCHANGED <<room, entry, vats>>,
         Posts(call, rows' = [rows EXCEPT ![o] = row])
  PROVE  StockInv'
<1>1. \/ rows' = [rows EXCEPT ![o] = row] /\ awaited' = awaited \cup {call}
      \/ /\ Failing /\ awaited' = awaited \cup {Error(call.what)}
         /\ rows' = [rows EXCEPT ![o] = row] \/ UNCHANGED rows
  BY CallsPosted
<1>2. PICK c \in Asked :
        /\ awaited' = awaited \cup {c} /\ c.what = call.what /\ (c = call \/ ~c.ok)
        /\ \/ rows' = [rows EXCEPT ![o] = row]
           \/ UNCHANGED rows /\ Failing /\ ~c.ok
  BY <1>1
<1>3. CASE rows' = [rows EXCEPT ![o] = row]
  <2>1. rows' \in Seq(RowType) /\ Len(rows') = Len(rows) /\ Len(rows) \in Nat
        /\ \A i \in 1..Len(rows) : rows'[i] = IF i = o THEN row ELSE rows[i]
    BY <1>3, RowFacts
  <2>2. Len(rows') >= Len(rows) /\ Len(rows') <= MaxRows
    BY <2>1, RowFacts
  <2>3. \A i \in 1..Len(rows') :
          /\ rows'[i].in <= room.forms /\ rows'[i].details = rows'[i].in
          /\ rows'[i].stocked = IF rows'[i].status = "received" THEN 1 ELSE 0
    BY <2>1, RowFacts
  <2>4. \A i \in 1..Len(rows) : rows[i].status = "received" => rows'[i].status = "received"
    BY <2>1
  <2>5. ASSUME ~Failing PROVE AddedOnceInv'
    <3>1. AddedOnceInv
      BY <2>5 DEF StockInv
    <3>2. \A d \in awaited' : d.what = "create" => d.ok
      BY <1>2, <3>1 DEF AddedOnceInv
    <3>3. CASE row.in = rows[o].in
      <4>1. \A i \in 1..Len(rows) : rows'[i].in = rows[i].in
        BY <2>1, <3>3
      <4>2. Awaiting("create") => Awaiting("create")'
        BY <1>2 DEF Awaiting
      <4> QED BY <2>1, <3>1, <3>2, <4>1, <4>2 DEF AddedOnceInv, InSection, FormShown
    <3>4. CASE row.in # rows[o].in
      <4>1. InSection("suppliers") /\ FormShown("details") /\ entry.of = o /\ row.in = entry.number
            /\ o # 0
        BY <3>4
      <4>2. \A i \in 1..Len(rows) : rows[i].in = entry.number => i = o
        BY <3>1, <4>1 DEF AddedOnceInv
      <4>3. \A i, j \in 1..Len(rows') : rows'[i].in = rows'[j].in => i = j
        BY <2>1, <3>1, <4>1, <4>2 DEF AddedOnceInv
      <4>4. \A i \in 1..Len(rows') : rows'[i].in = entry'.number => i = entry'.of
        BY <2>1, <4>1, <4>2
      <4> QED BY <3>2, <4>1, <4>3, <4>4 DEF AddedOnceInv, InSection, FormShown
    <3> QED BY <3>3, <3>4
  <2> QED BY <1>2, <2>1, <2>2, <2>3, <2>4, <2>5, AsksKeep
<1>4. CASE UNCHANGED rows /\ Failing /\ ~c.ok
  <2>1. Len(rows) >= Len(rows)
    BY RowFacts
  <2>2. c.what \in {"receive", "vat"} => InSection("orders")
    BY <1>2
  <2> QED BY <1>2, <1>4, <2>1, <2>2, RowFacts, AsksKeep
<1> QED BY <1>2, <1>3, <1>4

\* The calls of the screen.
LEMMA PostsKeep ==
  ASSUME StockInv, AddItem \/ SaveSupplier \/ DeleteSupplier \/ CreateOrder \/ ConfirmReceived
  PROVE  StockInv'
<1> USE EntryFields, RowFacts
<1>1. CASE AddItem \/ CreateOrder
  BY <1>1, CreateKeeps DEF AddItem, CreateOrder, ItemFormShown, OrderFormShown, InSection
<1>2. CASE SaveSupplier /\ entry.of = 0
  BY <1>2, CreateKeeps DEF SaveSupplier, SaveOffered, SupplierFormShown
<1>3. CASE SaveSupplier /\ entry.of # 0
  <2>1. /\ InSection("suppliers") /\ FormShown("details") /\ entry.details # 0
        /\ ~Awaiting("create") /\ UNCHANGED <<room, entry, vats>>
        /\ Posts(ToServer("update"), rows' = [rows EXCEPT ![entry.of].details = entry.details,
                                                          ![entry.of].in = entry.number])
    BY <1>3 DEF SaveSupplier, SaveOffered, SupplierFormShown
  <2>2. entry.of \in 1..Len(rows) /\ entry.details = entry.number /\ entry.number <= room.forms
    BY <1>3, <2>1, Counts DEF StockInv, FormInv
  <2> DEFINE row == [rows[entry.of] EXCEPT !.details = entry.details, !.in = entry.number]
  <2>3. row \in RowType /\ row.in = entry.number /\ row.details = entry.number
        /\ row.status = rows[entry.of].status
        /\ row.stocked = IF row.status = "received" THEN 1 ELSE 0
    <3>1. rows[entry.of] \in RowType /\ rows[entry.of].in <= room.forms
          /\ rows[entry.of].details = rows[entry.of].in
          /\ rows[entry.of].stocked = IF rows[entry.of].status = "received" THEN 1 ELSE 0
      BY <2>2
    <3> QED BY <2>2, <3>1 DEF RowType
  <2>4. [rows EXCEPT ![entry.of].details = entry.details, ![entry.of].in = entry.number]
        = [rows EXCEPT ![entry.of] = row]
    BY <2>2
  <2>5. Posts(ToServer("update"), rows' = [rows EXCEPT ![entry.of] = row])
    BY <2>1, <2>4
  <2>6. /\ ToServer("update") \in Asked /\ ToServer("update").what = "update" /\ ToServer("update").ok
        /\ Error("update") \in Asked /\ Error("update").what = "update" /\ ~Error("update").ok
    BY ServerCalls
  <2> HIDE DEF row
  <2>7. row.in <= room.forms /\ row.details = row.in
        /\ rows[entry.of].status = "received" => row.status = "received"
    BY <2>2, <2>3
  <2> QED BY <2>1, <2>2, <2>3, <2>5, <2>6, <2>7, RowKeeps
<1>4. CASE DeleteSupplier
  <2>1. /\ entry.of # 0 /\ UNCHANGED <<room, entry, vats>>
        /\ Posts(ToServer("delete"), rows' = [rows EXCEPT ![entry.of].kept = FALSE])
    BY <1>4 DEF DeleteSupplier
  <2>2. entry.of \in 1..Len(rows)
    BY <2>1, Counts DEF StockInv, FormInv
  <2> DEFINE row == [rows[entry.of] EXCEPT !.kept = FALSE]
  <2>3. row \in RowType /\ row.in = rows[entry.of].in /\ row.details = rows[entry.of].details
        /\ row.status = rows[entry.of].status
        /\ row.stocked = IF row.status = "received" THEN 1 ELSE 0
    <3>1. rows[entry.of] \in RowType /\ rows[entry.of].in <= room.forms
          /\ rows[entry.of].details = rows[entry.of].in
          /\ rows[entry.of].stocked = IF rows[entry.of].status = "received" THEN 1 ELSE 0
      BY <2>2
    <3> QED BY <2>2, <3>1 DEF RowType
  <2>4. [rows EXCEPT ![entry.of].kept = FALSE] = [rows EXCEPT ![entry.of] = row]
    BY <2>2
  <2>5. Posts(ToServer("delete"), rows' = [rows EXCEPT ![entry.of] = row])
    BY <2>1, <2>4
  <2>6. /\ ToServer("delete") \in Asked /\ ToServer("delete").what = "delete" /\ ToServer("delete").ok
        /\ Error("delete") \in Asked /\ Error("delete").what = "delete" /\ ~Error("delete").ok
    BY ServerCalls
  <2> HIDE DEF row
  <2>7. row.in <= room.forms /\ row.details = row.in
        /\ rows[entry.of].status = "received" => row.status = "received"
    BY <2>2, <2>3
  <2> QED BY <2>1, <2>2, <2>3, <2>5, <2>6, <2>7, RowKeeps
<1>5. CASE ConfirmReceived
  <2>1. /\ InSection("orders") /\ FormShown("receive") /\ UNCHANGED <<room, entry, vats>>
        /\ Posts(ToServer("receive"), TakeIn(entry.of))
    BY <1>5 DEF ConfirmReceived, ReceiveFormShown
  <2>2. entry.of \in 1..Len(rows) /\ entry.vat \in {0, entry.of}
    <3>1. entry.of # 0 /\ entry.vat \in {0, entry.of}
      BY <2>1 DEF StockInv, VatInv, FormShown
    <3>2. entry.of \in Nat
      BY Counts
    <3> QED BY <3>1, <3>2
  <2> DEFINE row == [rows[entry.of] EXCEPT !.status = "received",
                      !.stocked = @ + IF rows[entry.of].status = "received" THEN 0 ELSE 1]
  <2>3. row \in RowType /\ row.in = rows[entry.of].in /\ row.details = rows[entry.of].details
        /\ row.status = "received" /\ row.stocked = 1
    <3>1. rows[entry.of] \in RowType /\ rows[entry.of].stocked \in Nat
          /\ rows[entry.of].stocked = IF rows[entry.of].status = "received" THEN 1 ELSE 0
      BY <2>2 DEF RowType
    <3>2. rows[entry.of].stocked + (IF rows[entry.of].status = "received" THEN 0 ELSE 1) = 1
      BY <3>1
    <3>3. row = [rows[entry.of] EXCEPT !.status = "received", !.stocked = 1]
      BY <3>2
    <3> HIDE DEF row
    <3> QED BY <3>1, <3>3 DEF RowType, Orders
  <2>4. TakeIn(entry.of) = (rows' = [rows EXCEPT ![entry.of] = row])
    BY <2>2 DEF TakeIn
  <2>5. Posts(ToServer("receive"), rows' = [rows EXCEPT ![entry.of] = row])
    BY <2>1, <2>4 DEF Posts
  <2>6. ToServer("receive").of = entry.of /\ ToServer("receive").vat = entry.vat
    BY DEF ToServer
  <2> HIDE DEF row
  <2> QED BY <2>1, <2>2, <2>3, <2>5, <2>6, ServerCalls, RowKeeps
<1> QED BY <1>1, <1>2, <1>3, <1>4, <1>5 DEF SaveSupplier
-----------------------------------------------------------------------------
\* The server refuses to restock.
LEMMA RestockKeeps ==
  ASSUME StockInv, Restock
  PROVE  StockInv'
<1>1. /\ awaited' = awaited \cup {Error("restock")} /\ UNCHANGED <<room, entry, rows, vats>>
  BY DEF Restock
<1>2. Error("restock") \in Asked /\ Error("restock").what = "restock"
  BY ServerCalls
<1>3. ~Failing => AddedOnceInv'
  BY <1>1, <1>2 DEF StockInv, AddedOnceInv, Awaiting, InSection, FormShown
<1>4. Len(rows') >= Len(rows) /\ Len(rows') <= MaxRows /\ rows' \in Seq(RowType)
  BY <1>1, RowFacts
<1> QED BY <1>1, <1>2, <1>3, <1>4, RowFacts, AsksKeep

\* The goods are in; the VAT goes to the server, or the form closes.
LEMMA ReceivedKeeps ==
  ASSUME StockInv, Received
  PROVE  StockInv'
<1> USE EntryFields, RowFacts
<1>1. PICK call \in awaited :
        /\ call.what = "receive" /\ call.ok /\ UNCHANGED <<room, rows>>
        /\ \/ call.vat # 0 /\ RecordVat(call, call.vat) /\ UNCHANGED entry
           \/ /\ call.vat = 0 /\ awaited' = awaited \ {call} /\ UNCHANGED vats
              /\ entry' = [entry EXCEPT !.shown = IF @ = "receive" THEN "none" ELSE @, !.of = 0]
  BY DEF Received
<1>2. /\ InSection("orders") /\ ~InSection("suppliers")
      /\ call.of \in 1..Len(rows) /\ call.vat \in {0, call.of}
      /\ rows[call.of].status = "received" /\ call \in Asked
  BY <1>1 DEF StockInv, VatInv, InSection, RoomTypes
<1>3. CASE call.vat = 0
  <2>1. /\ awaited' = awaited \ {call} /\ UNCHANGED <<room, rows, vats>>
        /\ entry' = [entry EXCEPT !.shown = IF @ = "receive" THEN "none" ELSE @, !.of = 0]
    BY <1>1, <1>3
  <2>2. /\ entry' \in EntryType /\ entry'.number = entry.number /\ entry'.details = entry.details
        /\ entry'.shown # "receive" /\ entry'.of = 0
    BY <2>1 DEF EntryType
  <2>3. \A c \in awaited \ awaited' : c.what # "create"
    BY <1>1, <2>1
  <2>4. entry.details \in {0, entry.number}
    BY DEF StockInv, FormInv
  <2>5. Enters
    BY <1>2, <2>1, <2>2, <2>3, <2>4 DEF Enters
  <2> QED BY <2>5, EntersKeeps
<1>4. CASE call.vat # 0
  <2> DEFINE vat == [of |-> call.of, amount |-> call.vat]
  <2>1. call.vat = call.of /\ vat \in VatType /\ vat.of = call.of /\ vat.amount = call.of
    BY <1>2, <1>4 DEF VatType
  <2>2. UNCHANGED <<room, rows, entry>> /\ RecordVat(call, call.vat)
    BY <1>1, <1>4
  <2>3. /\ [call EXCEPT !.what = "vat"] \in Asked /\ [call EXCEPT !.what = "vat"].what = "vat"
        /\ [call EXCEPT !.what = "vat"].ok
    BY <1>1, <1>2 DEF Asked
  <2>4. Error("vat") \in Asked /\ Error("vat").what = "vat"
    BY Counts DEF Error, Asked
  <2>5. PICK c \in Asked : c.what = "vat" /\ awaited' = (awaited \ {call}) \cup {c}
    BY <2>2, <2>3, <2>4 DEF RecordVat
  <2>6. vats' \in {vats, Append(vats, vat)}
    BY <2>2 DEF RecordVat
  <2>7. vats \in Seq(VatType)
    BY DEF StockInv, RoomTypes
  <2> HIDE DEF vat
  <2>8. /\ vats' \in Seq(VatType)
        /\ \A v \in 1..Len(vats') :
             vats'[v] = vat \/ (v \in 1..Len(vats) /\ vats'[v] = vats[v])
    <3>1. CASE vats' = vats
      BY <2>7, <3>1
    <3>2. CASE vats' = Append(vats, vat)
      BY <2>1, <2>7, <3>2
    <3> QED BY <2>6, <3>1, <3>2
  <2>9. RoomTypes'
    <3>1. IsFiniteSet(awaited')
      BY <2>5, FS_AddElement, FS_Subset DEF StockInv, RoomTypes
    <3> QED BY <2>2, <2>5, <2>8, <3>1 DEF StockInv, RoomTypes
  <2>10. FormInv'
    BY <2>2 DEF StockInv, FormInv
  <2>11. VatInv'
    <3>1. \A v \in 1..Len(vats') :
            /\ vats'[v].amount = vats'[v].of
            /\ vats'[v].of \in 1..Len(rows) /\ rows[vats'[v].of].status = "received"
      BY <1>2, <2>1, <2>8 DEF StockInv, VatInv
    <3>2. \A d \in awaited' : d \in awaited \/ d = c
      BY <2>5
    <3> QED BY <1>2, <2>2, <2>5, <3>1, <3>2 DEF StockInv, VatInv, InSection
  <2>12. ~Failing' => AddedOnceInv'
    <3> SUFFICES ASSUME ~Failing PROVE AddedOnceInv'
      BY <2>2 DEF Failing
    <3>1. AddedOnceInv
      BY DEF StockInv
    <3>2. Awaiting("create") => Awaiting("create")'
      BY <1>1, <2>5 DEF Awaiting
    <3>3. \A d \in awaited' : d.what = "create" => d.ok
      BY <2>5, <3>1 DEF AddedOnceInv
    <3> QED BY <2>2, <3>1, <3>2, <3>3 DEF AddedOnceInv, InSection, FormShown
  <2> QED BY <2>9, <2>10, <2>11, <2>12 DEF StockInv
<1> QED BY <1>3, <1>4

LEMMA StockStep == StockInv /\ [StockroomNext]_stockroomVars => StockInv'
<1> SUFFICES ASSUME StockInv, [StockroomNext]_stockroomVars PROVE StockInv'
  OBVIOUS
<1>1. CASE UNCHANGED stockroomVars
  BY <1>1 DEF stockroomVars, StockInv, RoomTypes, FormInv, VatInv, AddedOnceInv, Failing, Awaiting,
     InSection, FormShown
<1>2. CASE ItemsNext
  BY <1>2, TapsEnter, AnswersEnter, EntersKeeps, PostsKeep, RestockKeeps DEF ItemsNext
<1>3. CASE SuppliersNext
  BY <1>3, TapsEnter, FormsBegin, AnswersEnter, EntersKeeps, PostsKeep DEF SuppliersNext
<1>4. CASE OrdersNext
  BY <1>4, TapsEnter, FormsBegin, AnswersEnter, EntersKeeps, PostsKeep, ReceivedKeeps DEF OrdersNext
<1>5. CASE ShowError
  BY <1>5, AnswersEnter, EntersKeeps
<1> QED BY <1>1, <1>2, <1>3, <1>4, <1>5 DEF StockroomNext

\* Whatever the owner taps and however late the server answers, the screen's
\* fields and calls keep their types.
THEOREM StockroomTypeCorrect == StockroomSpec => []StockroomTypeOK
<1>1. StockInv => StockroomTypeOK
  BY RoomTypesAre DEF StockInv
<1> QED BY <1>1, StockInitial, StockStep, PTL DEF StockroomSpec

\* What the owner saves in the stockroom is saved once, from the form that showed
\* it, and the goods of an order come with that order's VAT (the forms and the
\* answers of inventory.tsx, with any number of rows and of calls in flight).
THEOREM StockSavedOnce == StockroomSpec => []SavedOnceAsShown
<1>1. StockInv => SavedOnceAsShown
  BY DEF StockInv, FormInv, VatInv, AddedOnceInv, SavedOnceAsShown, AddedOnce, SavedAsShown, VatOfItsOrder
<1> QED BY <1>1, StockInitial, StockStep, PTL DEF StockroomSpec

-----------------------------------------------------------------------------
(* The screens that sell. *)

PosType == [stage: {"cart", "method", "credit", "paystack", "ghqr", "success"},
            cart: Carts, method: Methods, details: Customers, consent: Customers,
            recording: PosCall, creating: Link \cup {NotCreating},
            confirming: BOOLEAN, link: Link, checks: SUBSET Link, qr: BOOLEAN,
            receipt: Carts]
TillType == [cart: Carts, custom: BOOLEAN, method: Methods, details: Customers,
             consent: Customers, terms: BOOLEAN, charging: PosCall, receipt: Carts]
LinkRow == [cart: Carts, customer: Customers, st: LinkStates]
SaleRow == [customer: Customers, cart: Carts, method: Methods, details: Customers,
            consent: Customers, told: BOOLEAN]
CounterType == [world: CheckoutWorlds, customer: 1..MaxCustomers, carts: Carts]

CounterTypes ==
  /\ pos \in PosType /\ till \in TillType
  /\ links \in Seq(LinkRow) /\ sold \in Seq(SaleRow)
  /\ counter \in CounterType

Sold(c, cart) == \E k \in DOMAIN sold : sold[k].customer = c /\ sold[k].cart = cart

\* What becomes of a link: it is sold, or it is given up.
LinkSold == {"sold", "dead_sold"}
GivenUp == {"dead", "dead_paid", "dead_sold"}

\* What the screen knows of a link, it has been told by the server.
ToldOf(l) ==
  /\ l.id \in DOMAIN links
  /\ l.status = "sold" => links[l.id].st \in LinkSold
  /\ l.status = "failed" => links[l.id].st \in GivenUp

LinksInv ==
  /\ \A k \in DOMAIN links : links[k].st \in LinkSold => Sold(links[k].customer, links[k].cart)
  /\ pos.link = NoLink \/ ToldOf(pos.link)
  /\ pos.creating.status \in {"none", "pending", "failed"}
  /\ pos.creating.status = "pending" => ToldOf(pos.creating)
  /\ \A c \in pos.checks : ToldOf(c)
  /\ pos.recording.ok => \E k \in DOMAIN sold : sold[k].cart = pos.recording.cart
  /\ pos.receipt # 0 => \E k \in DOMAIN sold : sold[k].cart = pos.receipt

TillInv ==
  /\ till.charging.ok => AtTill /\ Sold(customer, till.charging.cart)
  /\ till.receipt # 0 => AtTill /\ till.charging = NoCall /\ Sold(customer, till.receipt)
  /\ till.charging # NoCall => AtTill

\* A link of the customer and the cart on the screen.
Mine(l) == l.id \in DOMAIN links /\ links[l.id].cart = pos.cart /\ links[l.id].customer = customer

\* No tap overtakes an answer: one call at a time, in the stage that made it.
PromptInv ==
  /\ pos.recording # NoCall =>
       /\ pos.stage \in {"method", "ghqr", "credit"} /\ pos.recording.cart = pos.cart
       /\ pos.creating = NotCreating /\ pos.checks = {} /\ ~pos.qr
       /\ pos.recording.ok => Sold(customer, pos.cart)
  /\ pos.qr => pos.stage = "method" /\ pos.creating = NotCreating /\ pos.checks = {}
  /\ pos.creating # NotCreating =>
       /\ pos.stage = "paystack" /\ pos.link = NoLink /\ pos.checks = {}
       /\ pos.creating.status = "pending" => Mine(pos.creating)
  /\ pos.checks # {} =>
       /\ pos.stage \in {"paystack", "success"} /\ pos.link # NoLink
       /\ \A c \in pos.checks : c.id = pos.link.id
  /\ pos.stage = "paystack" \/ pos.checks # {} => pos.link = NoLink \/ Mine(pos.link)
  /\ pos.stage = "success" => pos.receipt = pos.cart /\ Sold(customer, pos.cart)

Live(c) == {k \in DOMAIN links : links[k].customer = c /\ links[k].st \in {"open", "paid"}}

\* Nothing that the screen knows of was sold to the customer, or can be without a call.
Unsold == ToldTo(customer) = {} /\ Live(customer) = {}
OnlyBy(l) ==
  /\ \A k \in Live(customer) : k = l.id
  /\ ToldTo(customer) # {} => links[l.id].st = "sold"

\* No link is left that can be paid: a customer is sold to in one way.
SoldOnceInv ==
  /\ \A c \in 1..MaxCustomers :
       /\ \A i, j \in ToldTo(c) : i = j
       /\ \A i, j \in Live(c) : i = j
       /\ ToldTo(c) # {} => Live(c) = {}
  /\ \A k \in DOMAIN sold : sold[k].customer <= customer
  /\ \A k \in DOMAIN links : links[k].customer <= customer
  /\ pos.stage \in {"cart", "method", "credit", "ghqr"} /\ ~pos.recording.ok => Unsold
  /\ pos.stage = "paystack" =>
       IF pos.link # NoLink THEN OnlyBy(pos.link)
       ELSE IF pos.creating.status = "pending" THEN OnlyBy(pos.creating) ELSE Unsold

\* Nothing is sold behind the screen's back.
AllTold ==
  /\ \A k \in DOMAIN sold : sold[k].told
  /\ \A k \in DOMAIN links : links[k].st \notin {"dead_paid", "dead_sold"}
Heard == Selling /\ ~Tap("lost_reply") /\ ~Tap("paid_late")

CheckoutInv ==
  /\ CounterTypes /\ LinksInv /\ TillInv
  /\ Selling /\ ~Tap("late") => PromptInv
  /\ Selling /\ ~Tap("late") /\ ~Tap("link_left") => SoldOnceInv
  /\ Heard => AllTold

LEMMA CheckoutTypes == CounterTypes => CheckoutTypeOK
BY DEF CounterTypes, CheckoutTypeOK, PosType, TillType, LinkRow, SaleRow, CounterType, NotCreating

LEMMA CartsAre ==
  /\ Carts \subseteq Nat /\ 0 \in Carts /\ Customers \subseteq Nat /\ 0 \in Customers
  /\ 1..MaxCustomers \subseteq Customers /\ 1 \in 1..MaxCustomers
  /\ \A n \in Carts : n + 1 <= MaxCarts => n + 1 \in Carts
  /\ \A n \in 1..MaxCustomers : n < MaxCustomers => n + 1 \in 1..MaxCustomers
  /\ NoCall \in PosCall /\ NoLink \in Link /\ ~NoCall.ok
  /\ NotCreating.status = "none" /\ NoLink.status = "pending"
BY CheckoutAssumption DEF Carts, Customers, NoCall, PosCall, Methods, NoLink, Link, NotCreating

LEMMA CheckoutInitial == CheckoutInit => CheckoutInv
<1> SUFFICES ASSUME CheckoutInit PROVE CheckoutInv
  OBVIOUS
<1>1. links = <<>> /\ sold = <<>> /\ counter \in CounterType /\ counter.customer = 1
  BY CartsAre DEF CheckoutInit, CounterType
<1>2. /\ pos = [stage |-> "cart", cart |-> 0, method |-> "none", details |-> 0, consent |-> 0,
               recording |-> NoCall, creating |-> NotCreating, confirming |-> FALSE,
               link |-> NoLink, checks |-> {}, qr |-> FALSE, receipt |-> 0]
      /\ till = [cart |-> 0, custom |-> FALSE, method |-> "cash", details |-> 0, consent |-> 0,
                terms |-> FALSE, charging |-> NoCall, receipt |-> 0]
  BY DEF CheckoutInit
<1>3. pos \in PosType /\ till \in TillType
  BY <1>2, CartsAre DEF PosType, TillType, Methods
<1>4. CounterTypes
  BY <1>1, <1>3 DEF CounterTypes
<1>5. LinksInv /\ TillInv
  BY <1>1, <1>2, CartsAre DEF LinksInv, TillInv
<1>6. PromptInv
  BY <1>2 DEF PromptInv
<1>7. SoldOnceInv
  <2>1. \A c : ToldTo(c) = {} /\ Live(c) = {}
    BY <1>1 DEF ToldTo, SalesTo, Live
  <2> QED BY <1>1, <1>2, <2>1 DEF SoldOnceInv, Unsold
<1>8. AllTold
  BY <1>1 DEF AllTold
<1> QED BY <1>4, <1>5, <1>6, <1>7, <1>8 DEF CheckoutInv

-----------------------------------------------------------------------------
\* What the invariant says of the variables.
LEMMA PosFields ==
  ASSUME CheckoutInv
  PROVE  /\ pos \in PosType /\ till \in TillType /\ counter \in CounterType
         /\ links \in Seq(LinkRow) /\ sold \in Seq(SaleRow)
         /\ DOMAIN links = 1..Len(links) /\ DOMAIN sold = 1..Len(sold)
         /\ Len(links) \in Nat /\ Len(sold) \in Nat
         /\ customer \in 1..MaxCustomers /\ customer \in Customers /\ counter.carts \in Carts
         /\ \A k \in DOMAIN links : links[k] \in LinkRow
         /\ \A k \in DOMAIN sold : sold[k] \in SaleRow
<1>1. /\ pos \in PosType /\ till \in TillType /\ counter \in CounterType
      /\ links \in Seq(LinkRow) /\ sold \in Seq(SaleRow)
  BY DEF CheckoutInv, CounterTypes
<1>2. customer \in 1..MaxCustomers /\ counter.carts \in Carts
  BY <1>1 DEF CounterType, customer
<1>3. /\ DOMAIN links = 1..Len(links) /\ DOMAIN sold = 1..Len(sold)
      /\ Len(links) \in Nat /\ Len(sold) \in Nat
      /\ \A k \in DOMAIN links : links[k] \in LinkRow
      /\ \A k \in DOMAIN sold : sold[k] \in SaleRow
  BY <1>1
<1> QED BY <1>1, <1>2, <1>3, CartsAre

\* The carts and the customers go up.
LEMMA NewCarts ==
  ASSUME CheckoutInv, NewCart
  PROVE  /\ NextCart \in Carts /\ counter' \in CounterType
         /\ counter'.world = counter.world /\ counter'.customer = counter.customer
<1>1. counter \in CounterType /\ counter.carts \in Carts
  BY PosFields
<1>2. NextCart \in Carts
  BY <1>1, CartsAre DEF NewCart, NextCart
<1> QED BY <1>1, <1>2 DEF NewCart, CounterType

\* The sales that are added for a customer: one that the screen is told of, at most.
Adds(cust, cart, heard) ==
  /\ sold' \in Seq(SaleRow) /\ DOMAIN sold \subseteq DOMAIN sold'
  /\ \A k \in DOMAIN sold : sold'[k] = sold[k]
  /\ \A k \in DOMAIN sold' \ DOMAIN sold :
       sold'[k].customer = cust /\ sold'[k].cart = cart /\ (sold'[k].told => heard)
  /\ heard => DOMAIN sold' # DOMAIN sold
  /\ \A j, k \in DOMAIN sold' \ DOMAIN sold : sold'[j].told /\ sold'[k].told => j = k

LEMMA AddsSales ==
  ASSUME CheckoutInv, NEW cust, NEW cart, NEW heard \in BOOLEAN, Adds(cust, cart, heard)
  PROVE  /\ \A c, d : Sold(c, d) => Sold(c, d)'
         /\ DOMAIN sold' # DOMAIN sold => Sold(cust, cart)'
         /\ \A c : c # cust => ToldTo(c)' = ToldTo(c)
         /\ ToldTo(cust) \subseteq ToldTo(cust)'
         /\ ToldTo(cust)' \subseteq ToldTo(cust) \cup (DOMAIN sold' \ DOMAIN sold)
         /\ \A j, k \in ToldTo(cust)' \ ToldTo(cust) : j = k
         /\ ~heard => ToldTo(cust)' = ToldTo(cust)
<1>1. \A c, d : Sold(c, d) => Sold(c, d)'
  BY DEF Adds, Sold
<1>2. DOMAIN sold' # DOMAIN sold => Sold(cust, cart)'
  BY DEF Adds, Sold
<1>3. \A c : ToldTo(c)' = {k \in DOMAIN sold' : sold'[k].customer = c /\ sold'[k].told}
  BY DEF ToldTo, SalesTo
<1>4. \A c : ToldTo(c) = {k \in DOMAIN sold : sold[k].customer = c /\ sold[k].told}
  BY DEF ToldTo, SalesTo
<1>5. \A c : c # cust => ToldTo(c)' = ToldTo(c)
  BY <1>3, <1>4 DEF Adds
<1>6. /\ ToldTo(cust) \subseteq ToldTo(cust)'
      /\ ToldTo(cust)' \subseteq ToldTo(cust) \cup (DOMAIN sold' \ DOMAIN sold)
  BY <1>3, <1>4 DEF Adds
<1>7. \A j, k \in ToldTo(cust)' \ ToldTo(cust) : j = k
  BY <1>3, <1>4 DEF Adds
<1>8. ~heard => ToldTo(cust)' = ToldTo(cust)
  BY <1>3, <1>4 DEF Adds
<1> QED BY <1>1, <1>2, <1>5, <1>6, <1>7, <1>8

\* One row is added.
LEMMA OneAdded ==
  ASSUME CheckoutInv, NEW row \in SaleRow, sold' = Append(sold, row)
  PROVE  /\ sold' \in Seq(SaleRow) /\ DOMAIN sold' = DOMAIN sold \cup {Len(sold) + 1}
         /\ Len(sold) + 1 \notin DOMAIN sold
         /\ \A k \in DOMAIN sold : sold'[k] = sold[k]
         /\ sold'[Len(sold) + 1] = row
BY PosFields

\* The screen moves: nothing is sold, and the customer stays.
LEMMA ScreenMoves ==
  ASSUME CheckoutInv, UNCHANGED <<till, links, sold>>, pos' \in PosType,
         counter' \in CounterType, counter'.world = counter.world,
         counter'.customer = counter.customer,
         LinksInv',
         Selling /\ ~Tap("late") => PromptInv',
         Selling /\ ~Tap("late") /\ ~Tap("link_left") => SoldOnceInv'
  PROVE  CheckoutInv'
<1>1. CounterTypes'
  BY DEF CheckoutInv, CounterTypes
<1>2. TillInv'
  BY DEF CheckoutInv, TillInv, Sold, AtTill, customer
<1>3. (Selling' <=> Selling) /\ \A h : Tap(h)' <=> Tap(h)
  BY DEF Selling, Tap
<1>4. (Heard' <=> Heard) /\ (AllTold' <=> AllTold)
  BY <1>3 DEF Heard, AllTold
<1> QED BY <1>1, <1>2, <1>3, <1>4 DEF CheckoutInv

\* A tap that makes no call, but for a QR code: one goes from a stage to another,
\* or changes the cart or the form.
Taps ==
  /\ Selling /\ PosIdle
  /\ UNCHANGED <<till, links, sold>>
  /\ pos' \in PosType /\ counter' \in CounterType
  /\ counter'.world = counter.world /\ counter'.customer = counter.customer
  /\ pos'.recording = pos.recording /\ pos'.creating = pos.creating
  /\ pos'.checks = pos.checks /\ pos'.receipt = pos.receipt
  /\ pos'.link \in {pos.link, NoLink}
  /\ pos.stage # "success" /\ pos'.stage # "success"
  /\ pos'.qr => pos.qr \/ (pos'.stage = "method" /\ pos.recording = NoCall)
  /\ pos'.stage = "paystack" => pos'.link = NoLink /\ pos.stage # "paystack"
  /\ pos.stage = "paystack" =>
       Tap("link_left") \/ pos.link = NoLink \/ pos.link.status = "failed"

LEMMA TapsKeep ==
  ASSUME CheckoutInv, Taps
  PROVE  CheckoutInv'
<1>1. LinksInv'
  BY DEF Taps, CheckoutInv, LinksInv, ToldOf, Sold
<1>2. ASSUME ~Tap("late")
      PROVE  /\ pos.recording = NoCall /\ pos.creating = NotCreating /\ pos.checks = {} /\ ~pos.qr
             /\ pos'.recording = NoCall /\ pos'.creating = NotCreating /\ pos'.checks = {}
  BY <1>2 DEF Taps, PosIdle
<1>3. ASSUME ~Tap("late") PROVE PromptInv'
  BY <1>2, <1>3 DEF Taps, PromptInv
<1>4. ASSUME ~Tap("late"), ~Tap("link_left") PROVE SoldOnceInv'
  <2>1. SoldOnceInv /\ LinksInv
    BY <1>4 DEF Taps, CheckoutInv
  <2>2. \A c : ToldTo(c)' = ToldTo(c) /\ Live(c)' = Live(c)
    BY DEF Taps, ToldTo, SalesTo, Live
  <2>3. customer' = customer /\ UNCHANGED <<links, sold>>
    BY DEF Taps, customer
  <2>4. ~pos.recording.ok /\ ~pos'.recording.ok /\ pos.creating.status = "none"
        /\ pos'.creating.status = "none"
    BY <1>2, <1>4, CartsAre
  <2>5. Unsold
    <3>1. CASE pos.stage = "paystack" /\ pos.link # NoLink
      <4>1. OnlyBy(pos.link) /\ pos.link.status = "failed"
        BY <1>4, <2>1, <3>1 DEF SoldOnceInv, Taps
      <4>2. links[pos.link.id].st \in GivenUp
        BY <2>1, <3>1, <4>1 DEF LinksInv, ToldOf
      <4> QED BY <4>1, <4>2 DEF OnlyBy, Unsold, Live, GivenUp
    <3>2. CASE pos.stage = "paystack" /\ pos.link = NoLink
      BY <2>1, <2>4, <3>2 DEF SoldOnceInv
    <3>3. CASE pos.stage # "paystack"
      <4>1. pos.stage \in {"cart", "method", "credit", "ghqr"}
        BY <3>3, PosFields DEF Taps, PosType
      <4> QED BY <2>1, <2>4, <4>1 DEF SoldOnceInv
    <3> QED BY <3>1, <3>2, <3>3
  <2>6. Unsold'
    BY <2>2, <2>3, <2>5 DEF Unsold
  <2> QED BY <2>1, <2>2, <2>3, <2>4, <2>6 DEF SoldOnceInv, Taps
<1> QED BY <1>1, <1>3, <1>4, ScreenMoves DEF Taps

\* What stays of the screen in such a tap.
StageKept ==
  /\ pos' \in PosType
  /\ pos'.recording = pos.recording /\ pos'.creating = pos.creating
  /\ pos'.checks = pos.checks /\ pos'.receipt = pos.receipt
  /\ pos'.link = pos.link /\ (pos'.qr => pos.qr)

LEMMA TapsAre ==
  ASSUME CheckoutInv,
         \/ UpdateQty \/ ScanBarcode \/ GoToMethods \/ BackToCart \/ GiveDetails \/ PickPaystack
         \/ PickCredit \/ PickGhQR \/ CancelQr \/ FillTerms \/ BackFromCredit \/ CancelPayment
  PROVE  Taps
<1> USE PosFields, CartsAre
<1>1. CASE UpdateQty \/ ScanBarcode
  <2>1. /\ Selling /\ PosIdle /\ pos.stage = "cart" /\ UNCHANGED <<till, links, sold>>
        /\ \/ NewCart /\ pos' = [pos EXCEPT !.cart = NextCart]
           \/ UNCHANGED counter /\ pos' = [pos EXCEPT !.cart = 0]
    BY <1>1 DEF UpdateQty, ScanBarcode, ItemsOffered, ScannerShown, CartShown
  <2>2. /\ counter' \in CounterType
        /\ counter'.world = counter.world /\ counter'.customer = counter.customer
    BY <2>1, NewCarts
  <2>3. PICK cart \in Carts : pos' = [pos EXCEPT !.cart = cart]
    BY <2>1, NewCarts
  <2>4. StageKept /\ pos'.stage = "cart"
    BY <2>1, <2>3 DEF StageKept, PosType
  <2> QED BY <2>1, <2>2, <2>4 DEF Taps, StageKept
<1>2. CASE GoToMethods \/ BackToCart \/ PickCredit \/ BackFromCredit \/ CancelPayment
  <2>1. /\ Selling /\ PosIdle /\ pos.stage # "success" /\ UNCHANGED <<till, links, sold, counter>>
        /\ \E stage \in {"cart", "method", "credit"} :
             \/ pos' = [pos EXCEPT !.stage = stage]
             \/ pos' = [pos EXCEPT !.method = "credit", !.stage = stage]
        /\ pos.stage = "paystack" => CancelPayment
    BY <1>2 DEF GoToMethods, BackToCart, PickCredit, BackFromCredit,
       CancelPayment, CheckoutOffered, CartShown, MethodsShown, MethodsOffered, CreditShown,
       PaymentShown
  <2>2. StageKept /\ pos'.stage \in {"cart", "method", "credit"}
    BY <2>1 DEF StageKept, PosType, Methods
  <2> QED BY <2>1, <2>2 DEF Taps, StageKept, CancelPayment
<1>3. CASE GiveDetails \/ FillTerms
  <2>1. /\ Selling /\ PosIdle /\ pos.stage \in {"method", "credit"}
        /\ UNCHANGED <<till, links, sold, counter>>
        /\ \/ pos' = [pos EXCEPT !.details = customer]
           \/ \E n \in {0, customer} : pos' = [pos EXCEPT !.consent = n]
    BY <1>3 DEF GiveDetails, FillTerms, Terms, MethodsShown, CreditShown
  <2>2. StageKept /\ pos'.stage = pos.stage
    BY <2>1 DEF StageKept, PosType
  <2> QED BY <2>1, <2>2 DEF Taps, StageKept
<1>4. CASE PickPaystack
  BY <1>4 DEF PickPaystack, MethodsOffered, MethodsShown, Taps, PosType, Methods
<1>5. CASE PickGhQR \/ CancelQr
  BY <1>5 DEF PickGhQR, CancelQr, QrShown, MethodsOffered, MethodsShown, Taps, PosType, Methods
<1> QED BY <1>1, <1>2, <1>3, <1>4, <1>5

-----------------------------------------------------------------------------
\* A sale is recorded, or refused, or recorded behind the screen's back.
LEMMA BookedAdds ==
  ASSUME CheckoutInv, NEW call \in PosCall, Booked(call)
  PROVE  Adds(customer, call.cart, call.ok) /\ (Heard => \A k \in DOMAIN sold' : sold'[k].told)
<1> USE PosFields, CartsAre
<1>1. Heard => \A k \in DOMAIN sold : sold[k].told
  BY DEF CheckoutInv, AllTold
<1>2. \A told \in BOOLEAN :
        /\ Sale(call, told) \in SaleRow /\ Sale(call, told).customer = customer
        /\ Sale(call, told).cart = call.cart /\ Sale(call, told).told = told
  BY DEF Sale, SaleRow, PosCall
<1>3. call.ok \in BOOLEAN
  BY DEF PosCall
<1>4. PICK yes \in SaleRow, no \in SaleRow :
        /\ yes = Sale(call, TRUE) /\ no = Sale(call, FALSE)
        /\ yes.customer = customer /\ yes.cart = call.cart /\ yes.told
        /\ no.customer = customer /\ no.cart = call.cart /\ ~no.told
  BY <1>2
<1>5. CASE call.ok /\ sold' = Append(sold, yes)
  <2>1. /\ sold' \in Seq(SaleRow) /\ DOMAIN sold' = DOMAIN sold \cup {Len(sold) + 1}
        /\ Len(sold) + 1 \notin DOMAIN sold
        /\ \A k \in DOMAIN sold : sold'[k] = sold[k]
        /\ sold'[Len(sold) + 1] = yes
    BY <1>5, OneAdded
  <2> QED BY <1>1, <1>4, <1>5, <2>1 DEF Adds
<1>6. CASE ~call.ok /\ UNCHANGED sold
  BY <1>1, <1>6 DEF Adds
<1>7. CASE call.ok /\ ~Heard /\ sold' = sold \o <<no, yes>>
  <2>1. <<no, yes>> \in Seq(SaleRow) /\ Len(<<no, yes>>) = 2
        /\ <<no, yes>>[1] = no /\ <<no, yes>>[2] = yes
    OBVIOUS
  <2>2. /\ sold' \in Seq(SaleRow) /\ Len(sold') = Len(sold) + 2
        /\ \A k \in DOMAIN sold : sold'[k] = sold[k]
        /\ sold'[Len(sold) + 1] = no /\ sold'[Len(sold) + 2] = yes
    BY <1>7, <2>1
  <2>3. DOMAIN sold' = 1..(Len(sold) + 2)
    BY <2>2
  <2>4. /\ DOMAIN sold' \ DOMAIN sold = {Len(sold) + 1, Len(sold) + 2}
        /\ DOMAIN sold \subseteq DOMAIN sold'
    BY <2>3
  <2>5. ASSUME NEW k \in DOMAIN sold' \ DOMAIN sold
        PROVE  /\ sold'[k].customer = customer /\ sold'[k].cart = call.cart
               /\ sold'[k].told => k = Len(sold) + 2
    BY <1>4, <2>2, <2>4, <2>5
  <2>6. Len(sold) + 1 \in DOMAIN sold' /\ Len(sold) + 1 \notin DOMAIN sold
    BY <2>4
  <2> QED BY <1>7, <2>2, <2>4, <2>5, <2>6 DEF Adds
<1>8. CASE ~call.ok /\ ~Heard /\ sold' = Append(sold, no)
  <2>1. /\ sold' \in Seq(SaleRow) /\ DOMAIN sold' = DOMAIN sold \cup {Len(sold) + 1}
        /\ Len(sold) + 1 \notin DOMAIN sold
        /\ \A k \in DOMAIN sold : sold'[k] = sold[k]
        /\ sold'[Len(sold) + 1] = no
    BY <1>8, OneAdded
  <2> QED BY <1>4, <1>8, <2>1 DEF Adds
<1> QED BY <1>4, <1>5, <1>6, <1>7, <1>8 DEF Booked, Heard

LEMMA RecordKeeps ==
  ASSUME CheckoutInv, Selling, PosIdle, pos.recording = NoCall,
         pos.stage \in {"method", "ghqr", "credit"},
         UNCHANGED <<till, links, counter>>,
         NEW call \in PosCall, call # NoCall, call.cart = pos.cart,
         NEW m \in Methods, pos' = [pos EXCEPT !.method = m, !.recording = call],
         Booked(call)
  PROVE  CheckoutInv'
<1> USE PosFields, CartsAre
<1>1. /\ pos' \in PosType /\ pos'.recording = call /\ pos'.stage = pos.stage /\ pos'.cart = pos.cart
      /\ pos'.link = pos.link /\ pos'.creating = pos.creating /\ pos'.checks = pos.checks
      /\ pos'.qr = pos.qr /\ pos'.receipt = pos.receipt
  BY DEF PosType
<1>2. call.ok \in BOOLEAN /\ Adds(customer, pos.cart, call.ok)
      /\ (Heard => \A k \in DOMAIN sold' : sold'[k].told)
  BY BookedAdds DEF PosCall
<1>3. /\ sold' \in Seq(SaleRow)
      /\ DOMAIN sold \subseteq DOMAIN sold' /\ \A k \in DOMAIN sold : sold'[k] = sold[k]
      /\ \A k \in DOMAIN sold' : k \in DOMAIN sold \/ sold'[k].customer = customer
      /\ call.ok => DOMAIN sold' # DOMAIN sold
  BY <1>2 DEF Adds
<1>4. customer' = customer /\ AtTill' = AtTill /\ Selling' = Selling /\ ~AtTill
      /\ (Heard' <=> Heard) /\ \A h : Tap(h)' <=> Tap(h)
  BY DEF customer, AtTill, Selling, Tap, Heard
<1>5. /\ \A c, cart : Sold(c, cart) => Sold(c, cart)'
      /\ call.ok => Sold(customer, pos.cart)'
      /\ \A c : c # customer => ToldTo(c)' = ToldTo(c)
      /\ \A j, k \in ToldTo(customer)' \ ToldTo(customer) : j = k
      /\ ~call.ok => ToldTo(customer)' = ToldTo(customer)
  <2>1. /\ \A c, cart : Sold(c, cart) => Sold(c, cart)'
        /\ DOMAIN sold' # DOMAIN sold => Sold(customer, pos.cart)'
    BY <1>2, <1>4, AddsSales
  <2>2. /\ \A c : c # customer => ToldTo(c)' = ToldTo(c)
        /\ \A j, k \in ToldTo(customer)' \ ToldTo(customer) : j = k
        /\ ~call.ok => ToldTo(customer)' = ToldTo(customer)
    BY <1>2, <1>4, AddsSales
  <2> QED BY <1>3, <2>1, <2>2
<1>6. CounterTypes'
  BY <1>1, <1>3 DEF CounterTypes
<1>7. LinksInv'
  <2>1. LinksInv
    BY DEF CheckoutInv
  <2>2. \A l : ToldOf(l)' <=> ToldOf(l)
    BY DEF ToldOf
  <2>3. call.ok => \E k \in DOMAIN sold' : sold'[k].cart = pos.cart
    BY <1>5 DEF Sold
  <2>4. pos.receipt # 0 => \E k \in DOMAIN sold' : sold'[k].cart = pos.receipt
    BY <1>3, <2>1 DEF LinksInv
  <2>5. \A k \in DOMAIN links : links[k].st \in LinkSold => Sold(links[k].customer, links[k].cart)'
    BY <1>5, <2>1 DEF LinksInv
  <2>6. \A k \in DOMAIN links' : links'[k].st \in LinkSold =>
          \E j \in DOMAIN sold' : sold'[j].customer = links'[k].customer /\ sold'[j].cart = links'[k].cart
    BY <2>5 DEF Sold
  <2> QED BY <1>1, <2>1, <2>2, <2>3, <2>4, <2>6 DEF LinksInv, Sold
<1>8. TillInv'
  BY <1>4, <1>5 DEF CheckoutInv, TillInv
<1>9. ASSUME ~Tap("late")
      PROVE  pos.creating = NotCreating /\ pos.checks = {} /\ ~pos.qr
  BY <1>9 DEF PosIdle
<1>10. ASSUME ~Tap("late") PROVE PromptInv'
  BY <1>1, <1>4, <1>5, <1>9, <1>10 DEF PromptInv
<1>11. ASSUME ~Tap("late"), ~Tap("link_left") PROVE SoldOnceInv'
  <2>1. SoldOnceInv /\ ~pos.recording.ok
    BY <1>11 DEF CheckoutInv
  <2>2. Unsold
    BY <2>1 DEF SoldOnceInv
  <2>3. \A c : Live(c)' = Live(c)
    BY DEF Live
  <2>4. \A c \in 1..MaxCustomers :
          /\ \A i, j \in ToldTo(c)' : i = j
          /\ \A i, j \in Live(c)' : i = j
          /\ ToldTo(c)' # {} => Live(c)' = {}
    <3>1. ASSUME NEW c \in 1..MaxCustomers, c # customer
          PROVE  ToldTo(c)' = ToldTo(c) /\ Live(c)' = Live(c)
      BY <1>5, <2>3, <3>1
    <3>2. (\A i, j \in ToldTo(customer)' : i = j) /\ Live(customer)' = {}
      BY <1>4, <1>5, <2>2, <2>3 DEF Unsold
    <3>3. ASSUME NEW c \in 1..MaxCustomers
          PROVE  /\ \A i, j \in ToldTo(c)' : i = j
                 /\ \A i, j \in Live(c)' : i = j
                 /\ ToldTo(c)' # {} => Live(c)' = {}
      <4>1. CASE c = customer
        BY <1>4, <3>2, <4>1
      <4>2. CASE c # customer
        BY <2>1, <3>1, <4>2 DEF SoldOnceInv
      <4> QED BY <4>1, <4>2
    <3> QED BY <3>3
  <2>5. \A k \in DOMAIN sold' : sold'[k].customer <= customer
    BY <1>3, <2>1 DEF SoldOnceInv
  <2>6. ~call.ok => Unsold'
    BY <1>4, <1>5, <2>2, <2>3 DEF Unsold
  <2> QED BY <1>1, <1>4, <2>1, <2>4, <2>5, <2>6 DEF SoldOnceInv
<1>12. ASSUME Heard PROVE AllTold'
  BY <1>2, <1>12 DEF CheckoutInv, AllTold
<1> QED BY <1>4, <1>6, <1>7, <1>8, <1>10, <1>11, <1>12 DEF CheckoutInv

LEMMA RecordsKeep ==
  ASSUME CheckoutInv, PickCash \/ ConfirmQr \/ ConfirmCredit
  PROVE  CheckoutInv'
<1> USE PosFields, CartsAre
<1>1. PICK method \in {"cash", "ghqr", "credit"} :
        /\ Selling /\ PosIdle /\ pos.recording = NoCall
        /\ pos.stage \in {"method", "ghqr", "credit"} /\ UNCHANGED <<till, links, counter>>
        /\ \E m \in Methods : Record(method, [pos EXCEPT !.method = m])
  <2>1. pos.method \in Methods /\ "cash" \in Methods /\ pos = [pos EXCEPT !.method = pos.method]
    BY DEF PosType, Methods
  <2> QED BY <2>1 DEF PickCash, ConfirmQr, ConfirmCredit, MethodsOffered, MethodsShown, QrShown, CreditShown
<1>2. PICK m \in Methods : Record(method, [pos EXCEPT !.method = m])
  BY <1>1
<1> DEFINE call(ok) == [cart |-> pos.cart, method |-> method, details |-> pos.details,
                        consent |-> IF method = "credit" THEN pos.consent ELSE 0, ok |-> ok]
<1>3. \A ok \in BOOLEAN : call(ok) \in PosCall /\ call(ok) # NoCall /\ call(ok).cart = pos.cart
  BY DEF PosType, PosCall, NoCall, Methods
<1>4. \A ok : [[pos EXCEPT !.method = m] EXCEPT !.recording = call(ok)]
              = [pos EXCEPT !.method = m, !.recording = call(ok)]
  BY DEF PosType
<1>5. PICK ok \in BOOLEAN : Booked(call(ok)) /\ pos' = [[pos EXCEPT !.method = m] EXCEPT !.recording = call(ok)]
  BY <1>2 DEF Record
<1> HIDE DEF call
<1> QED BY <1>1, <1>3, <1>4, <1>5, RecordKeeps

-----------------------------------------------------------------------------
\* The answers that the sell screen waits for.
LEMMA AnswersKeep ==
  ASSUME CheckoutInv, QrGenerated \/ SaleCompleted \/ LinkCreated
  PROVE  CheckoutInv'
<1> USE PosFields, CartsAre
<1>1. UNCHANGED <<till, links, sold, counter>> /\ LinksInv
  BY DEF QrGenerated, SaleCompleted, LinkCreated, CheckoutInv
<1>2. /\ customer' = customer /\ counter' \in CounterType
      /\ (\A l : ToldOf(l)' <=> ToldOf(l)) /\ (\A c, cart : Sold(c, cart)' <=> Sold(c, cart))
      /\ (\A l : OnlyBy(l)' <=> OnlyBy(l)) /\ (Unsold' <=> Unsold)
      /\ (\A c : ToldTo(c)' = ToldTo(c) /\ Live(c)' = Live(c))
  <2>1. customer' = customer /\ counter' \in CounterType
    BY <1>1 DEF customer
  <2>2. \A c : ToldTo(c)' = ToldTo(c) /\ Live(c)' = Live(c)
    BY <1>1 DEF ToldTo, SalesTo, Live
  <2>3. (\A l : ToldOf(l)' <=> ToldOf(l)) /\ (\A c, cart : Sold(c, cart)' <=> Sold(c, cart))
    BY <1>1 DEF ToldOf, Sold
  <2>4. (\A l : OnlyBy(l)' <=> OnlyBy(l)) /\ (Unsold' <=> Unsold)
    BY <1>1 DEF OnlyBy, Unsold, ToldTo, SalesTo, Live, customer
  <2> QED BY <2>1, <2>2, <2>3, <2>4
<1>3. CASE QrGenerated
  <2>1. pos.qr /\ (pos' = [pos EXCEPT !.qr = FALSE, !.stage = "ghqr"] \/ pos' = [pos EXCEPT !.qr = FALSE])
    BY <1>3 DEF QrGenerated
  <2>2. /\ pos' \in PosType /\ pos'.recording = pos.recording /\ pos'.cart = pos.cart
        /\ pos'.link = pos.link /\ pos'.creating = pos.creating /\ pos'.checks = pos.checks
        /\ ~pos'.qr /\ pos'.receipt = pos.receipt /\ pos'.stage \in {pos.stage, "ghqr"}
    BY <2>1 DEF PosType
  <2>3. LinksInv'
    BY <1>1, <1>2, <2>2 DEF LinksInv
  <2>4. ASSUME PromptInv PROVE PromptInv' /\ pos.stage = "method"
    BY <1>1, <1>2, <2>1, <2>2, <2>4 DEF PromptInv, Mine
  <2>5. ASSUME PromptInv, SoldOnceInv PROVE SoldOnceInv'
    BY <1>1, <1>2, <2>2, <2>4, <2>5 DEF SoldOnceInv
  <2> QED BY <1>1, <1>2, <2>2, <2>3, <2>4, <2>5, ScreenMoves DEF CheckoutInv
<1>4. CASE SaleCompleted
  <2>1. /\ pos.recording # NoCall
        /\ pos' = IF pos.recording.ok
                  THEN [pos EXCEPT !.recording = NoCall, !.receipt = pos.recording.cart, !.stage = "success"]
                  ELSE [pos EXCEPT !.recording = NoCall]
    BY <1>4 DEF SaleCompleted
  <2>2. pos.recording.cart \in Carts
    BY DEF PosType, PosCall
  <2>3. /\ pos' \in PosType /\ pos'.recording = NoCall /\ pos'.cart = pos.cart
        /\ pos'.link = pos.link /\ pos'.creating = pos.creating /\ pos'.checks = pos.checks
        /\ (pos'.qr <=> pos.qr)
        /\ pos'.receipt = IF pos.recording.ok THEN pos.recording.cart ELSE pos.receipt
        /\ pos'.stage = IF pos.recording.ok THEN "success" ELSE pos.stage
    BY <2>1, <2>2 DEF PosType
  <2>4. LinksInv'
    BY <1>1, <1>2, <2>3 DEF LinksInv
  <2>5. ASSUME PromptInv PROVE PromptInv'
    BY <1>1, <1>2, <2>1, <2>3, <2>5 DEF PromptInv, Mine
  <2>6. ASSUME PromptInv, SoldOnceInv PROVE SoldOnceInv'
    BY <1>1, <1>2, <2>1, <2>3, <2>6 DEF PromptInv, SoldOnceInv
  <2> QED BY <1>1, <1>2, <2>3, <2>4, <2>5, <2>6, ScreenMoves DEF CheckoutInv
<1>5. CASE LinkCreated
  <2>1. /\ pos.creating # NotCreating
        /\ pos' = [pos EXCEPT !.creating = NotCreating, !.confirming = FALSE,
                              !.link = IF pos.creating.status = "failed" THEN @ ELSE pos.creating]
    BY <1>5 DEF LinkCreated
  <2>2. pos.creating \in Link /\ pos.link \in Link
    BY <2>1 DEF PosType
  <2>3. /\ pos' \in PosType /\ pos'.recording = pos.recording /\ pos'.cart = pos.cart
        /\ pos'.link = (IF pos.creating.status = "failed" THEN pos.link ELSE pos.creating)
        /\ pos'.creating = NotCreating /\ pos'.checks = pos.checks
        /\ (pos'.qr <=> pos.qr) /\ pos'.receipt = pos.receipt /\ pos'.stage = pos.stage
    BY <2>1, <2>2 DEF PosType
  <2>4. pos.creating.status \in {"pending", "failed"}
    BY <1>1, <2>2 DEF LinksInv, Link
  <2>5. LinksInv'
    BY <1>1, <1>2, <2>3, <2>4 DEF LinksInv
  <2>6. ASSUME PromptInv PROVE PromptInv'
    BY <1>1, <1>2, <2>1, <2>3, <2>4, <2>6 DEF PromptInv, Mine
  <2>7. ASSUME PromptInv, SoldOnceInv PROVE SoldOnceInv'
    <3>1. pos.stage = "paystack" /\ pos.link = NoLink /\ ~NotCreating.id \in DOMAIN links
      BY <2>1, <2>7 DEF PromptInv, NotCreating
    <3>2. pos.creating.status = "pending" => OnlyBy(pos.creating) /\ pos.creating # NoLink
      BY <1>1, <2>7, <3>1 DEF SoldOnceInv, LinksInv, ToldOf, NoLink, NotCreating
    <3>3. pos.creating.status = "failed" => Unsold
      BY <2>7, <3>1 DEF SoldOnceInv
    <3> QED BY <1>1, <1>2, <2>3, <2>4, <2>7, <3>1, <3>2, <3>3 DEF SoldOnceInv
  <2> QED BY <1>1, <1>2, <2>3, <2>5, <2>6, <2>7, ScreenMoves DEF CheckoutInv
<1> QED BY <1>3, <1>4, <1>5

-----------------------------------------------------------------------------
\* A link is made.
LEMMA LinksGrow ==
  ASSUME CheckoutInv, NEW row \in LinkRow, links' = Append(links, row)
  PROVE  /\ links' \in Seq(LinkRow) /\ DOMAIN links' = DOMAIN links \cup {Len(links) + 1}
         /\ Len(links) + 1 \notin DOMAIN links
         /\ \A k \in DOMAIN links : links'[k] = links[k]
         /\ links'[Len(links) + 1] = row
         /\ \A l : ToldOf(l) => ToldOf(l)'
         /\ \A c : c # row.customer => Live(c)' = Live(c)
         /\ Live(row.customer)' \subseteq Live(row.customer) \cup {Len(links) + 1}
<1>1. /\ links' \in Seq(LinkRow) /\ DOMAIN links' = DOMAIN links \cup {Len(links) + 1}
      /\ Len(links) + 1 \notin DOMAIN links
      /\ \A k \in DOMAIN links : links'[k] = links[k]
      /\ links'[Len(links) + 1] = row
  BY PosFields
<1>2. \A l : ToldOf(l) => ToldOf(l)'
  BY <1>1 DEF ToldOf
<1>3. (\A c : c # row.customer => Live(c)' = Live(c))
      /\ Live(row.customer)' \subseteq Live(row.customer) \cup {Len(links) + 1}
  BY <1>1 DEF Live
<1> QED BY <1>1, <1>2, <1>3

LEMMA CreateLinkKeeps ==
  ASSUME CheckoutInv, CreateLink
  PROVE  CheckoutInv'
<1> USE PosFields, CartsAre
<1>1. /\ Selling /\ PosIdle /\ pos.stage = "paystack" /\ pos.link = NoLink
      /\ UNCHANGED <<till, sold, counter>>
      /\ LinksInv /\ TillInv
  BY DEF CreateLink, PaymentShown, CheckoutInv
<1>2. ASSUME ~Tap("late")
      PROVE  /\ pos.recording = NoCall /\ pos.creating = NotCreating /\ pos.checks = {} /\ ~pos.qr
             /\ pos.creating.status # "pending"
  BY <1>1, <1>2 DEF PosIdle
<1>3. PICK made, failed, row :
        /\ made = [id |-> Len(links) + 1, status |-> "pending"]
        /\ failed = [id |-> 0, status |-> "failed"]
        /\ row = [cart |-> pos.cart, customer |-> customer, st |-> "open"]
  OBVIOUS
<1>4. /\ made.status = "pending" /\ failed.status = "failed" /\ made.id = Len(links) + 1
      /\ row.customer = customer /\ row.cart = pos.cart /\ row.st = "open"
      /\ row \in LinkRow /\ failed \in Link
      /\ Len(links) < MaxLinks => made \in Link
  BY <1>3, CheckoutAssumption DEF LinkRow, LinkStates, PosType, Link
<1>5. \/ /\ pos' = [pos EXCEPT !.confirming = TRUE, !.creating = made]
         /\ Len(links) < MaxLinks /\ links' = Append(links, row)
      \/ pos' = [pos EXCEPT !.confirming = TRUE, !.creating = failed] /\ UNCHANGED links
  BY <1>3 DEF CreateLink
<1>6. PICK new \in Link :
        /\ pos' = [pos EXCEPT !.confirming = TRUE, !.creating = new]
        /\ \/ new = failed /\ UNCHANGED links
           \/ new = made /\ links' = Append(links, row)
  BY <1>4, <1>5
<1>7. /\ pos' \in PosType /\ pos'.recording = pos.recording /\ pos'.cart = pos.cart
      /\ pos'.link = NoLink /\ pos'.creating = new /\ pos'.checks = pos.checks
      /\ (pos'.qr <=> pos.qr) /\ pos'.receipt = pos.receipt /\ pos'.stage = "paystack"
  BY <1>1, <1>6 DEF PosType
<1>8. /\ customer' = customer /\ AtTill' = AtTill /\ Selling' = Selling
      /\ (\A h : Tap(h)' <=> Tap(h))
      /\ (\A c, cart : Sold(c, cart)' <=> Sold(c, cart))
      /\ (\A c : ToldTo(c)' = ToldTo(c)) /\ (Heard' <=> Heard)
  BY <1>1 DEF customer, AtTill, Selling, Tap, Sold, ToldTo, SalesTo, Heard
<1>9. CASE new = failed /\ UNCHANGED links
  <2>1. /\ (\A l : ToldOf(l)' <=> ToldOf(l))
        /\ (\A c : Live(c)' = Live(c)) /\ (Unsold' <=> Unsold)
    BY <1>1, <1>9 DEF ToldOf, Live, Unsold, ToldTo, SalesTo, customer
  <2>2. LinksInv'
    BY <1>1, <1>4, <1>7, <1>8, <1>9, <2>1 DEF LinksInv
  <2>3. ASSUME ~Tap("late") PROVE PromptInv'
    BY <1>2, <1>4, <1>7, <1>9, <2>3 DEF PromptInv
  <2>4. ASSUME ~Tap("late"), SoldOnceInv PROVE SoldOnceInv'
    BY <1>1, <1>2, <1>4, <1>7, <1>8, <1>9, <2>1, <2>4 DEF SoldOnceInv
  <2> QED BY <1>1, <1>7, <1>9, <2>2, <2>3, <2>4, ScreenMoves DEF CheckoutInv
<1>10. CASE new = made /\ links' = Append(links, row)
  <2>1. /\ links' \in Seq(LinkRow) /\ DOMAIN links' = DOMAIN links \cup {Len(links) + 1}
        /\ Len(links) + 1 \notin DOMAIN links
        /\ \A k \in DOMAIN links : links'[k] = links[k]
        /\ links'[Len(links) + 1] = row
    BY <1>4, <1>10, LinksGrow
  <2>2. \A l : ToldOf(l) => ToldOf(l)'
    BY <2>1 DEF ToldOf
  <2>3. ToldOf(made)'
    BY <1>4, <2>1 DEF ToldOf
  <2>4. (\A c : c # customer => Live(c)' = Live(c))
        /\ Live(customer)' \subseteq Live(customer) \cup {Len(links) + 1}
    BY <1>4, <1>8, <2>1 DEF Live
  <2>5. LinksInv'
    <3>1. \A k \in DOMAIN links' : links'[k].st \in LinkSold =>
            \E j \in DOMAIN sold : sold[j].customer = links'[k].customer /\ sold[j].cart = links'[k].cart
      BY <1>1, <1>4, <2>1 DEF LinksInv, Sold, LinkSold
    <3> QED BY <1>1, <1>4, <1>7, <1>10, <2>2, <2>3, <3>1 DEF LinksInv, Sold
  <2>6. TillInv'
    BY <1>1, <1>8 DEF TillInv
  <2>7. CounterTypes'
    BY <1>1, <1>7, <2>1 DEF CounterTypes
  <2>8. ASSUME ~Tap("late") PROVE PromptInv'
    <3>1. Mine(made)'
      BY <1>4, <1>7, <1>8, <2>1 DEF Mine
    <3> QED BY <1>2, <1>4, <1>7, <1>10, <2>8, <3>1 DEF PromptInv
  <2>9. ASSUME ~Tap("late"), SoldOnceInv PROVE SoldOnceInv'
    <3>1. Unsold
      BY <1>1, <1>2, <2>9 DEF SoldOnceInv
    <3>2. Live(customer)' \subseteq {Len(links) + 1} /\ ToldTo(customer)' = {}
      BY <1>8, <2>4, <3>1 DEF Unsold
    <3>3. OnlyBy(made)'
      BY <1>4, <1>8, <3>2 DEF OnlyBy
    <3>4. ASSUME NEW c \in 1..MaxCustomers
          PROVE  /\ \A i, j \in ToldTo(c)' : i = j
                 /\ \A i, j \in Live(c)' : i = j
                 /\ ToldTo(c)' # {} => Live(c)' = {}
      <4>1. CASE c = customer
        BY <1>8, <3>2, <4>1
      <4>2. CASE c # customer
        BY <1>8, <2>4, <2>9, <4>2 DEF SoldOnceInv
      <4> QED BY <4>1, <4>2
    <3>5. \A k \in DOMAIN links' : links'[k].customer <= customer
      BY <1>4, <2>1, <2>9 DEF SoldOnceInv
    <3> QED BY <1>1, <1>4, <1>7, <1>8, <1>10, <2>9, <3>3, <3>4, <3>5 DEF SoldOnceInv
  <2>10. ASSUME Heard PROVE AllTold'
    BY <1>1, <1>4, <2>1, <2>10 DEF CheckoutInv, AllTold
  <2> QED BY <1>8, <2>5, <2>6, <2>7, <2>8, <2>9, <2>10 DEF CheckoutInv
<1> QED BY <1>6, <1>9, <1>10

-----------------------------------------------------------------------------
\* The server hears of a payment, or gives a link up.  The screen may be told.
LinksServed ==
  /\ links' \in Seq(LinkRow) /\ DOMAIN links' = DOMAIN links
  /\ \A k \in DOMAIN links :
       /\ links'[k].cart = links[k].cart /\ links'[k].customer = links[k].customer
       /\ links[k].st \in LinkSold => links'[k].st = links[k].st
       /\ links[k].st \in GivenUp => links'[k].st \in GivenUp
       /\ ~Tap("paid_late") /\ links'[k].st \in {"dead_paid", "dead_sold"} =>
            links[k].st \in {"dead_paid", "dead_sold"}
  /\ \/ UNCHANGED sold /\ \A k \in DOMAIN links : links'[k].st \in LinkSold => links[k].st \in LinkSold
     \/ \E k \in DOMAIN links, row \in SaleRow :
          /\ \/ links[k].st = "paid" /\ links'[k].st = "sold" /\ row.told
             \/ links[k].st = "dead_paid" /\ links'[k].st = "dead_sold" /\ ~row.told
          /\ \A j \in DOMAIN links \ {k} : links'[j] = links[j]
          /\ row.customer = links[k].customer /\ row.cart = links[k].cart
          /\ sold' = Append(sold, row)

Serves ==
  /\ UNCHANGED <<till, counter>> /\ LinksServed
  /\ pos' \in PosType
  /\ pos'.recording = pos.recording /\ pos'.cart = pos.cart
  /\ pos'.link = pos.link /\ pos'.creating = pos.creating
  /\ (pos'.qr <=> pos.qr) /\ pos'.receipt = pos.receipt /\ pos'.stage = pos.stage
  /\ \/ pos'.checks = pos.checks
     \/ /\ Selling /\ pos.stage = "paystack" /\ pos.link # NoLink
        /\ \E c \in Link : pos'.checks = pos.checks \cup {c} /\ c.id = pos.link.id /\ ToldOf(c)'

LEMMA ServesKeeps ==
  ASSUME CheckoutInv, Serves
  PROVE  CheckoutInv'
<1> USE PosFields, CartsAre
<1>1. LinksInv /\ TillInv
  BY DEF CheckoutInv
<1>2. /\ customer' = customer /\ (AtTill' <=> AtTill) /\ (Selling' <=> Selling)
      /\ (\A h : Tap(h)' <=> Tap(h)) /\ (Selling => ~AtTill) /\ (Heard' <=> Heard)
  BY DEF Serves, customer, AtTill, Selling, Tap, Heard
<1>3. \A l : ToldOf(l) => ToldOf(l)'
  BY DEF Serves, LinksServed, ToldOf
<1>4. \A l : Mine(l) => Mine(l)'
  BY <1>2 DEF Serves, LinksServed, Mine
<1>5. CASE UNCHANGED sold /\ \A k \in DOMAIN links : links'[k].st \in LinkSold => links[k].st \in LinkSold
  <2>1. /\ (\A c, cart : Sold(c, cart)' <=> Sold(c, cart))
        /\ (\A c : ToldTo(c)' = ToldTo(c))
    BY <1>5 DEF Sold, ToldTo, SalesTo
  <2>2. CounterTypes'
    BY <1>5 DEF Serves, LinksServed, CounterTypes
  <2>3. LinksInv'
    BY <1>1, <1>3, <1>5, <2>1 DEF Serves, LinksServed, LinksInv
  <2>4. TillInv'
    BY <1>1, <1>2, <2>1 DEF Serves, TillInv
  <2>5. ASSUME PromptInv PROVE PromptInv'
    BY <1>2, <1>4, <2>1, <2>5 DEF Serves, PromptInv
  <2>6. \A c : Live(c)' \subseteq Live(c)
    BY DEF Serves, LinksServed, Live, LinkRow, LinkStates, LinkSold, GivenUp
  <2>7. ASSUME SoldOnceInv, LinksInv PROVE SoldOnceInv'
    <3>1. \A l : l.id \in DOMAIN links /\ OnlyBy(l) => OnlyBy(l)'
      BY <1>2, <2>1, <2>6 DEF OnlyBy, Serves, LinksServed, LinkSold
    <3>2. Unsold => Unsold'
      BY <1>2, <2>1, <2>6 DEF Unsold
    <3>3. \A k \in DOMAIN links' : links'[k].customer <= customer
      BY <2>7 DEF Serves, LinksServed, SoldOnceInv
    <3>4. pos.link # NoLink => pos.link.id \in DOMAIN links
      BY <2>7 DEF LinksInv, ToldOf
    <3>5. pos.creating.status = "pending" => pos.creating.id \in DOMAIN links
      BY <2>7 DEF LinksInv, ToldOf
    <3>6. \A c \in 1..MaxCustomers :
            /\ \A i, j \in ToldTo(c)' : i = j
            /\ \A i, j \in Live(c)' : i = j
            /\ ToldTo(c)' # {} => Live(c)' = {}
      BY <2>1, <2>6, <2>7 DEF SoldOnceInv
    <3> QED BY <1>2, <1>5, <2>1, <2>7, <3>1, <3>2, <3>3, <3>4, <3>5, <3>6 DEF SoldOnceInv, Serves
  <2>8. ASSUME Heard PROVE AllTold'
    BY <1>5, <2>8 DEF CheckoutInv, Heard, AllTold, Serves, LinksServed
  <2> QED BY <1>1, <1>2, <2>2, <2>3, <2>4, <2>5, <2>7, <2>8 DEF CheckoutInv
<1>6. ASSUME NEW k \in DOMAIN links, NEW row \in SaleRow,
             \/ links[k].st = "paid" /\ links'[k].st = "sold" /\ row.told
             \/ links[k].st = "dead_paid" /\ links'[k].st = "dead_sold" /\ ~row.told,
             \A j \in DOMAIN links \ {k} : links'[j] = links[j],
             row.customer = links[k].customer, row.cart = links[k].cart,
             sold' = Append(sold, row)
      PROVE  CheckoutInv'
  <2>1. /\ sold' \in Seq(SaleRow) /\ DOMAIN sold' = DOMAIN sold \cup {Len(sold) + 1}
        /\ Len(sold) + 1 \notin DOMAIN sold
        /\ \A j \in DOMAIN sold : sold'[j] = sold[j]
        /\ sold'[Len(sold) + 1] = row
    BY <1>6, OneAdded
  <2>2. \A c, cart : Sold(c, cart) => Sold(c, cart)'
    BY <2>1 DEF Sold
  <2>3. Len(sold) + 1 \in DOMAIN sold' /\ row.customer = links'[k].customer /\ row.cart = links'[k].cart
    BY <1>6, <2>1 DEF Serves, LinksServed
  <2>4. /\ \A c : c # row.customer => ToldTo(c)' = ToldTo(c)
        /\ \A c : ToldTo(c)' \subseteq ToldTo(c) \cup {Len(sold) + 1}
        /\ ~row.told => \A c : ToldTo(c)' = ToldTo(c)
    BY <2>1 DEF ToldTo, SalesTo
  <2>5. CounterTypes'
    BY <2>1 DEF Serves, LinksServed, CounterTypes
  <2>6. LinksInv'
    <3>1. \A j \in DOMAIN links' : links'[j].st \in LinkSold =>
            \E i \in DOMAIN sold' : sold'[i].customer = links'[j].customer /\ sold'[i].cart = links'[j].cart
      <4>1. \A j \in DOMAIN links : links[j].st \in LinkSold =>
              \E i \in DOMAIN sold : sold[i].customer = links[j].customer /\ sold[i].cart = links[j].cart
        BY <1>1 DEF LinksInv, Sold
      <4>2. \A j \in DOMAIN links \ {k} : links'[j].st \in LinkSold =>
              \E i \in DOMAIN sold' : sold'[i].customer = links'[j].customer /\ sold'[i].cart = links'[j].cart
        <5>1. ASSUME NEW j \in DOMAIN links \ {k}, links'[j].st \in LinkSold
              PROVE  \E i \in DOMAIN sold' : sold'[i].customer = links'[j].customer /\ sold'[i].cart = links'[j].cart
          <6>1. links'[j] = links[j]
            BY <1>6
          <6>2. PICK i \in DOMAIN sold : sold[i].customer = links[j].customer /\ sold[i].cart = links[j].cart
            BY <4>1, <5>1, <6>1
          <6>3. i \in DOMAIN sold' /\ sold'[i] = sold[i]
            BY <2>1
          <6> QED BY <6>1, <6>2, <6>3
        <5> QED BY <5>1
      <4>3. \E i \in DOMAIN sold' : sold'[i].customer = links'[k].customer /\ sold'[i].cart = links'[k].cart
        BY <2>1, <2>3
      <4>4. DOMAIN links' = DOMAIN links
        BY DEF Serves, LinksServed
      <4> QED BY <4>2, <4>3, <4>4
    <3>3. \A c \in pos'.checks : ToldOf(c)'
      BY <1>1, <1>3 DEF Serves, LinksInv
    <3>4. /\ pos'.recording = pos.recording /\ pos'.link = pos.link
          /\ pos'.creating = pos.creating /\ pos'.receipt = pos.receipt
      BY DEF Serves
    <3>5. pos'.link = NoLink \/ ToldOf(pos.link)'
      BY <1>1, <1>3, <3>4 DEF LinksInv
    <3>6. /\ pos'.creating.status \in {"none", "pending", "failed"}
          /\ pos'.creating.status = "pending" => ToldOf(pos.creating)'
      BY <1>1, <1>3, <3>4 DEF LinksInv
    <3>7. /\ pos'.recording.ok => \E j \in DOMAIN sold' : sold'[j].cart = pos'.recording.cart
          /\ pos'.receipt # 0 => \E j \in DOMAIN sold' : sold'[j].cart = pos'.receipt
      <4>1. pos.recording.ok => \E j \in DOMAIN sold : sold[j].cart = pos.recording.cart
        BY <1>1 DEF LinksInv
      <4>2. pos.receipt # 0 => \E j \in DOMAIN sold : sold[j].cart = pos.receipt
        BY <1>1 DEF LinksInv
      <4> QED BY <2>1, <3>4, <4>1, <4>2
    <3> QED BY <3>1, <3>3, <3>5, <3>6, <3>7 DEF LinksInv, Sold
  <2>7. TillInv'
    BY <1>1, <1>2, <2>2 DEF Serves, TillInv
  <2>8. ASSUME PromptInv PROVE PromptInv'
    BY <1>2, <1>4, <2>2, <2>8 DEF Serves, PromptInv
  <2>9. \A c : Live(c)' = Live(c) \ {k}
    <3>1. \A j : j # k /\ j \in DOMAIN links => links'[j] = links[j]
      BY <1>6
    <3>2. DOMAIN links' = DOMAIN links
      BY DEF Serves, LinksServed
    <3>3. links'[k].st \notin {"open", "paid"}
      BY <1>6
    <3>4. \A c, j : j \in Live(c)' <=> j \in Live(c) /\ j # k
      BY <3>1, <3>2, <3>3 DEF Live
    <3> QED BY <3>4
  <2>10. ASSUME SoldOnceInv, LinksInv PROVE SoldOnceInv'
    <3>1. row.customer \in Customers /\ (row.told => k \in Live(row.customer))
      BY <1>6 DEF Live, SaleRow
    <3>2. ASSUME NEW c \in 1..MaxCustomers
          PROVE  /\ \A i, j \in ToldTo(c)' : i = j
                 /\ \A i, j \in Live(c)' : i = j
                 /\ ToldTo(c)' # {} => Live(c)' = {}
      <4>1. CASE c = row.customer /\ row.told
        <5>1. ToldTo(c) = {} /\ Live(c) \subseteq {k}
          BY <2>10, <3>1, <4>1 DEF SoldOnceInv
        <5> QED BY <2>4, <2>9, <5>1
      <4>2. CASE c # row.customer \/ ~row.told
        <5>1. ToldTo(c)' = ToldTo(c)
          BY <2>4, <4>2
        <5> QED BY <2>9, <2>10, <5>1 DEF SoldOnceInv
      <4> QED BY <4>1, <4>2
    <3>3. \A j \in DOMAIN links' : links'[j].customer <= customer
      BY <2>10 DEF Serves, LinksServed, SoldOnceInv
    <3>4. \A j \in DOMAIN sold' : sold'[j].customer <= customer
      BY <1>6, <2>1, <2>10 DEF SoldOnceInv
    <3>5. Unsold => Unsold'
      <4>1. Unsold => row.customer # customer \/ ~row.told
        BY <3>1 DEF Unsold
      <4>2. Unsold => ToldTo(customer)' = ToldTo(customer)
        BY <1>2, <2>4, <4>1
      <4> QED BY <1>2, <2>9, <4>2 DEF Unsold
    <3>6. \A l : l.id \in DOMAIN links /\ OnlyBy(l) => OnlyBy(l)'
      <4>1. ASSUME NEW l, l.id \in DOMAIN links, OnlyBy(l) PROVE OnlyBy(l)'
        <5>1. CASE row.customer = customer /\ row.told
          BY <1>2, <1>6, <2>9, <3>1, <4>1, <5>1 DEF OnlyBy
        <5>2. CASE row.customer # customer \/ ~row.told
          <6>1. ToldTo(customer)' = ToldTo(customer)
            BY <1>2, <2>4, <5>2
          <6> QED BY <1>2, <2>9, <4>1, <6>1 DEF OnlyBy, Serves, LinksServed, LinkSold
        <5> QED BY <5>1, <5>2
      <4> QED BY <4>1
    <3>7. pos.link # NoLink => pos.link.id \in DOMAIN links
      BY <2>10 DEF LinksInv, ToldOf
    <3>8. pos.creating.status = "pending" => pos.creating.id \in DOMAIN links
      BY <2>10 DEF LinksInv, ToldOf
    <3> QED BY <1>2, <2>10, <3>2, <3>3, <3>4, <3>5, <3>6, <3>7, <3>8 DEF SoldOnceInv, Serves
  <2>11. ASSUME Heard PROVE AllTold'
    <3>1. AllTold /\ ~Tap("paid_late")
      BY <2>11 DEF CheckoutInv, Heard
    <3>2. links[k].st = "paid" /\ row.told
      BY <1>6, <3>1 DEF AllTold
    <3> QED BY <2>1, <3>1, <3>2 DEF AllTold, Serves, LinksServed
  <2> QED BY <1>1, <1>2, <2>5, <2>6, <2>7, <2>8, <2>10, <2>11 DEF CheckoutInv
<1> QED BY <1>5, <1>6 DEF Serves, LinksServed

\* A link moves on without a sale.
LEMMA LinkMoves ==
  ASSUME CheckoutInv, NEW k \in DOMAIN links, NEW st \in LinkStates,
         links' = [links EXCEPT ![k].st = st]
  PROVE  /\ links' \in Seq(LinkRow) /\ DOMAIN links' = DOMAIN links
         /\ links'[k].cart = links[k].cart /\ links'[k].customer = links[k].customer
         /\ links'[k].st = st /\ \A i \in DOMAIN links \ {k} : links'[i] = links[i]
<1> USE PosFields
<1>1. [links[k] EXCEPT !.st = st] \in LinkRow
  BY DEF LinkRow
<1>2. links' = [links EXCEPT ![k] = [links[k] EXCEPT !.st = st]]
  OBVIOUS
<1>3. links' \in Seq(LinkRow) /\ DOMAIN links' = DOMAIN links
  BY <1>1, <1>2
<1> QED BY <1>3 DEF LinkRow

\* verify, whether or not the link is paid.
LEMMA VerifyServes ==
  ASSUME CheckoutInv, NEW k \in DOMAIN links, VerifyLink(k)
  PROVE  LinksServed
<1> USE PosFields, CartsAre
<1>1. CASE SellLink(k)
  <2> DEFINE row == [customer |-> links[k].customer, cart |-> links[k].cart,
                     method |-> "paystack", details |-> 0, consent |-> 0, told |-> links[k].st = "paid"]
  <2>1. PICK st \in {"sold", "dead_sold"} :
          /\ links' = [links EXCEPT ![k].st = st] /\ sold' = Append(sold, row)
          /\ \/ links[k].st = "paid" /\ st = "sold"
             \/ links[k].st = "dead_paid" /\ st = "dead_sold"
    BY <1>1 DEF SellLink
  <2>2. row \in SaleRow /\ row.customer = links[k].customer /\ row.cart = links[k].cart
        /\ (row.told <=> links[k].st = "paid")
    BY DEF SaleRow, LinkRow, Methods
  <2> HIDE DEF row
  <2>3. st \in LinkStates
    BY DEF LinkStates
  <2>4. /\ links' \in Seq(LinkRow) /\ DOMAIN links' = DOMAIN links
        /\ links'[k].cart = links[k].cart /\ links'[k].customer = links[k].customer
        /\ links'[k].st = st /\ \A i \in DOMAIN links \ {k} : links'[i] = links[i]
    BY <2>1, <2>3, LinkMoves
  <2>5. \A j \in DOMAIN links :
          /\ links'[j].cart = links[j].cart /\ links'[j].customer = links[j].customer
          /\ links[j].st \in LinkSold => links'[j].st = links[j].st
          /\ links[j].st \in GivenUp => links'[j].st \in GivenUp
          /\ links'[j].st \in {"dead_paid", "dead_sold"} => links[j].st \in {"dead_paid", "dead_sold"}
    <3> TAKE j \in DOMAIN links
    <3>1. CASE j = k
      BY <2>1, <2>4, <3>1 DEF LinkSold, GivenUp
    <3>2. CASE j # k
      BY <2>4, <3>2
    <3> QED BY <3>1, <3>2
  <2>6. /\ \/ links[k].st = "paid" /\ links'[k].st = "sold" /\ row.told
           \/ links[k].st = "dead_paid" /\ links'[k].st = "dead_sold" /\ ~row.told
        /\ sold' = Append(sold, row)
    BY <2>1, <2>2, <2>4
  <2> QED BY <2>2, <2>4, <2>5, <2>6 DEF LinksServed
<1>2. CASE UNCHANGED <<links, sold>>
  BY <1>2 DEF LinksServed
<1> QED BY <1>1, <1>2 DEF VerifyLink

\* Payments, checks of a payment, and links that are given up.
LEMMA ServerServes ==
  ASSUME CheckoutInv, NEW k \in DOMAIN links, PayLink(k) \/ Finalize(k) \/ ExpireLink(k)
  PROVE  Serves
<1> USE PosFields, CartsAre
<1>1. UNCHANGED <<pos, till, counter>>
  BY DEF PayLink, Finalize, ExpireLink
<1>2. CASE Finalize(k)
  BY <1>1, <1>2, VerifyServes DEF Finalize, VerifyLink, Serves
<1>3. CASE PayLink(k) \/ ExpireLink(k)
  <2>1. PICK st \in {"paid", "dead", "dead_paid"} :
          /\ links' = [links EXCEPT ![k].st = st] /\ UNCHANGED sold
          /\ \/ links[k].st = "open" /\ st \in {"paid", "dead"}
             \/ links[k].st \in {"paid", "dead"} /\ st = "dead_paid" /\ Tap("paid_late")
    BY <1>3 DEF PayLink, ExpireLink
  <2>2. st \in LinkStates
    BY DEF LinkStates
  <2>3. /\ links' \in Seq(LinkRow) /\ DOMAIN links' = DOMAIN links
        /\ links'[k].cart = links[k].cart /\ links'[k].customer = links[k].customer
        /\ links'[k].st = st /\ \A i \in DOMAIN links \ {k} : links'[i] = links[i]
    BY <2>1, <2>2, LinkMoves
  <2>4. \A j \in DOMAIN links :
          /\ links'[j].cart = links[j].cart /\ links'[j].customer = links[j].customer
          /\ links[j].st \in LinkSold => links'[j].st = links[j].st
          /\ links'[j].st \in LinkSold => links[j].st \in LinkSold
          /\ links[j].st \in GivenUp => links'[j].st \in GivenUp
          /\ ~Tap("paid_late") /\ links'[j].st \in {"dead_paid", "dead_sold"} =>
               links[j].st \in {"dead_paid", "dead_sold"}
    <3> TAKE j \in DOMAIN links
    <3>1. CASE j = k
      BY <2>1, <2>3, <3>1 DEF LinkSold, GivenUp
    <3>2. CASE j # k
      BY <2>3, <3>2
    <3> QED BY <3>1, <3>2
  <2>5. LinksServed
    BY <2>1, <2>3, <2>4 DEF LinksServed
  <2> QED BY <1>1, <2>5 DEF Serves
<1> QED BY <1>2, <1>3

LEMMA ChecksServe ==
  ASSUME CheckoutInv, CheckNow \/ Poll
  PROVE  Serves
<1> USE PosFields, CartsAre
<1> DEFINE c == [id |-> pos.link.id, status |-> LinkStatus(pos.link.id)]
<1>1. /\ Selling /\ pos.stage = "paystack" /\ pos.link # NoLink
      /\ VerifyLink(pos.link.id) /\ UNCHANGED <<till, counter>>
      /\ pos' = [pos EXCEPT !.confirming = TRUE, !.checks = @ \cup {c}]
  BY DEF CheckNow, Poll, PaymentShown
<1>2. pos.link.id \in DOMAIN links /\ pos.link \in Link
  BY <1>1 DEF CheckoutInv, LinksInv, ToldOf, PosType
<1>3. c \in Link /\ c.id = pos.link.id
  BY <1>2 DEF Link, LinkStatus
<1>4. LinksServed
  BY <1>1, <1>2, VerifyServes
<1>5. c.status = "sold" => links'[c.id].st \in LinkSold
  BY <1>3 DEF LinkStatus, LinkSold
<1>6. c.status = "failed" => links'[c.id].st \in GivenUp
  BY <1>3 DEF LinkStatus, GivenUp
<1>7. DOMAIN links' = DOMAIN links
  BY <1>4 DEF LinksServed
<1>8. PICK d \in Link : d = c /\ d.id = pos.link.id /\ ToldOf(d)'
  BY <1>2, <1>3, <1>5, <1>6, <1>7 DEF ToldOf
<1> HIDE DEF c
<1>9. /\ pos' \in PosType
      /\ pos'.recording = pos.recording /\ pos'.cart = pos.cart
      /\ pos'.link = pos.link /\ pos'.creating = pos.creating
      /\ (pos'.qr <=> pos.qr) /\ pos'.receipt = pos.receipt /\ pos'.stage = pos.stage
      /\ pos'.checks = pos.checks \cup {d}
  BY <1>1, <1>8 DEF PosType
<1> QED BY <1>1, <1>2, <1>4, <1>8, <1>9 DEF Serves

\* The answer to a check of a payment.
LEMMA ChecksKeep ==
  ASSUME CheckoutInv, NEW c \in pos.checks, Checked(c) \/ CheckLost(c)
  PROVE  CheckoutInv'
<1> USE PosFields, CartsAre
<1>1. UNCHANGED <<till, links, sold, counter>> /\ LinksInv /\ ToldOf(c) /\ c \in Link
  BY DEF Checked, CheckLost, CheckoutInv, LinksInv, PosType
<1>2. /\ customer' = customer /\ counter' \in CounterType
      /\ (\A l : ToldOf(l)' <=> ToldOf(l)) /\ (\A d, cart : Sold(d, cart)' <=> Sold(d, cart))
      /\ (\A d : ToldTo(d)' = ToldTo(d) /\ Live(d)' = Live(d))
  BY <1>1 DEF ToldOf, Sold, ToldTo, SalesTo, Live, customer
<1>3. (\A l : OnlyBy(l)' <=> OnlyBy(l)) /\ (Unsold' <=> Unsold)
  BY <1>1 DEF OnlyBy, Unsold, ToldTo, SalesTo, Live, customer
<1> DEFINE done == Checked(c) /\ c.status = "sold"
<1>4. links[c.id].cart \in Carts
  BY <1>1 DEF ToldOf, LinkRow
<1>5. \/ pos' = [pos EXCEPT !.checks = @ \ {c}, !.confirming = FALSE, !.link = c,
                           !.receipt = links[c.id].cart, !.method = "paystack", !.stage = "success"]
         /\ done
      \/ pos' = [pos EXCEPT !.checks = @ \ {c}, !.confirming = FALSE, !.link = c] /\ ~done
      \/ pos' = [pos EXCEPT !.checks = @ \ {c}, !.confirming = FALSE] /\ ~done
  BY DEF Checked, CheckLost
<1>6. /\ pos' \in PosType /\ pos'.recording = pos.recording /\ pos'.cart = pos.cart
      /\ pos'.link \in {pos.link, c} /\ pos'.creating = pos.creating /\ pos'.checks = pos.checks \ {c}
      /\ (pos'.qr <=> pos.qr)
      /\ pos'.receipt = IF done THEN links[c.id].cart ELSE pos.receipt
      /\ pos'.stage = IF done THEN "success" ELSE pos.stage
      /\ done => pos'.link = c
  BY <1>1, <1>4, <1>5 DEF PosType, Methods
<1>7. done => links[c.id].st \in LinkSold /\ Sold(links[c.id].customer, links[c.id].cart)
  BY <1>1 DEF LinksInv, ToldOf
<1> HIDE DEF done
<1>8. LinksInv'
  BY <1>1, <1>2, <1>6, <1>7 DEF LinksInv, Sold
<1>9. ASSUME PromptInv
      PROVE  /\ pos.link # NoLink /\ c # NoLink /\ c.id = pos.link.id /\ Mine(c)
             /\ pos.recording = NoCall /\ pos.creating = NotCreating /\ ~pos.qr
             /\ pos.stage \in {"paystack", "success"}
  <2>1. pos.link # NoLink /\ c.id = pos.link.id /\ Mine(c)
    BY <1>9 DEF PromptInv, Mine
  <2>2. c # NoLink
    BY <1>1 DEF ToldOf, NoLink
  <2> QED BY <1>9, <2>1, <2>2 DEF PromptInv
<1>10. ASSUME PromptInv PROVE PromptInv'
  <2>1. \A l : l.id = c.id => Mine(l)'
    BY <1>1, <1>2, <1>6, <1>9, <1>10 DEF Mine
  <2>2. done => pos'.receipt = pos'.cart /\ Sold(customer, pos.cart)'
    BY <1>2, <1>6, <1>7, <1>9, <1>10 DEF Mine
  <2>3. pos.stage = "success" => pos.receipt = pos.cart /\ Sold(customer, pos.cart)
    BY <1>10 DEF PromptInv
  <2>4. pos'.link # NoLink /\ pos'.link.id = c.id /\ \A d \in pos.checks : d.id = c.id
    BY <1>6, <1>9, <1>10 DEF PromptInv
  <2>5. Mine(pos.link)'
    BY <2>1, <2>4
  <2>6. pos'.stage = "success" => pos'.receipt = pos'.cart /\ Sold(customer, pos.cart)'
    BY <1>2, <1>6, <2>2, <2>3
  <2> QED BY <1>6, <1>9, <1>10, <2>4, <2>5, <2>6 DEF PromptInv
<1>11. ASSUME PromptInv, SoldOnceInv PROVE SoldOnceInv'
  <2>1. pos.stage = "paystack" => OnlyBy(c)
    <3>1. pos.stage = "paystack" => OnlyBy(pos.link)
      BY <1>9, <1>11 DEF SoldOnceInv
    <3> QED BY <1>9, <1>11, <3>1 DEF OnlyBy
  <2>2. pos'.stage = "paystack" => OnlyBy(pos.link)' /\ pos'.link # NoLink
    <3>1. pos'.stage = "paystack" => pos.stage = "paystack"
      BY <1>6
    <3> QED BY <1>3, <1>6, <1>9, <1>11, <2>1, <3>1 DEF SoldOnceInv
  <2>3. pos'.stage \in {"paystack", "success"}
    BY <1>6, <1>9, <1>11
  <2> QED BY <1>1, <1>2, <1>11, <2>2, <2>3 DEF SoldOnceInv
<1> QED BY <1>1, <1>2, <1>6, <1>8, <1>10, <1>11, ScreenMoves DEF CheckoutInv

\* The next customer.
LEMMA FinishKeeps ==
  ASSUME CheckoutInv, FinishSale
  PROVE  CheckoutInv'
<1> USE PosFields, CartsAre
<1>1. /\ Selling /\ PosIdle /\ pos.stage = "success" /\ UNCHANGED <<till, links, sold>>
      /\ pos' = ResetSale(pos) /\ counter' = [counter EXCEPT !.customer = customer + 1]
      /\ customer < MaxCustomers /\ LinksInv
  BY DEF FinishSale, ReceiptShown, NextCustomer, CheckoutInv, customer
<1>2. /\ pos' \in PosType /\ pos'.recording = pos.recording /\ pos'.cart = 0
      /\ pos'.link = NoLink /\ pos'.creating = pos.creating /\ pos'.checks = pos.checks
      /\ (pos'.qr <=> pos.qr) /\ pos'.receipt = 0 /\ pos'.stage = "cart"
  BY <1>1 DEF ResetSale, PosType, Methods
<1>3. /\ counter' \in CounterType /\ customer' = customer + 1 /\ counter'.world = counter.world
      /\ customer \in Nat
  BY <1>1 DEF CounterType, customer
<1>4. CounterTypes'
  BY <1>1, <1>2, <1>3 DEF CounterTypes
<1>5. /\ (Selling' <=> Selling) /\ (AtTill' <=> AtTill) /\ ~AtTill
      /\ \A h : Tap(h)' <=> Tap(h)
  BY <1>1, <1>3 DEF Selling, AtTill, Tap
<1>6. LinksInv'
  BY <1>1, <1>2 DEF LinksInv, ToldOf, Sold
<1>7. TillInv'
  BY <1>1, <1>5 DEF CheckoutInv, TillInv
<1>8. ASSUME ~Tap("late")
      PROVE  /\ pos.recording = NoCall /\ pos.creating = NotCreating /\ pos.checks = {} /\ ~pos.qr
  BY <1>1, <1>8 DEF PosIdle
<1>9. ASSUME ~Tap("late") PROVE PromptInv'
  BY <1>2, <1>8, <1>9 DEF PromptInv
<1>10. ASSUME ~Tap("late"), SoldOnceInv PROVE SoldOnceInv'
  <2>1. \A c : ToldTo(c)' = ToldTo(c) /\ Live(c)' = Live(c)
    BY <1>1 DEF ToldTo, SalesTo, Live
  <2>2. /\ \A k \in DOMAIN sold : sold[k].customer \in Nat /\ sold[k].customer <= customer
        /\ \A k \in DOMAIN links : links[k].customer \in Nat /\ links[k].customer <= customer
    BY <1>10 DEF SoldOnceInv, SaleRow, LinkRow
  <2>3. ToldTo(customer + 1) = {} /\ Live(customer + 1) = {}
    BY <1>3, <2>2 DEF ToldTo, SalesTo, Live
  <2>4. Unsold'
    BY <1>3, <2>1, <2>3 DEF Unsold
  <2>5. /\ \A k \in DOMAIN sold' : sold'[k].customer <= customer'
        /\ \A k \in DOMAIN links' : links'[k].customer <= customer'
    BY <1>1, <1>3, <2>2
  <2> QED BY <1>2, <1>10, <2>1, <2>4, <2>5 DEF SoldOnceInv
<1>11. (Heard' <=> Heard) /\ (AllTold' <=> AllTold)
  BY <1>1, <1>5 DEF Heard, AllTold
<1> QED BY <1>1, <1>4, <1>5, <1>6, <1>7, <1>9, <1>10, <1>11 DEF CheckoutInv

-----------------------------------------------------------------------------
\* Whatever happens at the till.
LEMMA TillMoves ==
  ASSUME CheckoutInv, AtTill, UNCHANGED pos, till' \in TillType,
         links' \in Seq(LinkRow), sold' \in Seq(SaleRow), counter' \in CounterType,
         counter'.world = counter.world, LinksInv', TillInv'
  PROVE  CheckoutInv'
<1>1. CounterTypes'
  BY DEF CheckoutInv, CounterTypes
<1>2. ~Selling'
  BY DEF Selling, AtTill
<1> QED BY <1>1, <1>2 DEF CheckoutInv, Heard

\* The cashier taps, or the answer comes: nothing is sold.
LEMMA TillTaps ==
  ASSUME CheckoutInv,
         \/ ChangeTill \/ AddCustomAmount \/ NextInLine \/ GiveTillDetails \/ FillTillTerms
         \/ Charged \/ NextTillSale \/ \E m \in Methods \ {"none"} : ChooseMethod(m)
  PROVE  CheckoutInv'
<1> USE PosFields, CartsAre
<1>1. UNCHANGED <<pos, links, sold>> /\ LinksInv /\ TillInv
  BY DEF ChangeTill, AddCustomAmount, NextInLine, GiveTillDetails, FillTillTerms, Charged,
     NextTillSale, ChooseMethod, CheckoutInv
<1>2. AtTill
  BY <1>1 DEF ChangeTill, AddCustomAmount, NextInLine, GiveTillDetails, FillTillTerms, Charged,
     NextTillSale, ChooseMethod, TillShown, TillReceiptShown, TillInv
<1>3. LinksInv'
  BY <1>1 DEF LinksInv, ToldOf, Sold
<1>4. \A c, cart : Sold(c, cart)' <=> Sold(c, cart)
  BY <1>1 DEF Sold
<1>5. counter' \in CounterType /\ counter'.world = counter.world
  <2>1. CASE NewCart
    BY <2>1, NewCarts
  <2>2. CASE NextCustomer
    BY <2>2 DEF NextCustomer, CounterType, customer
  <2>3. CASE UNCHANGED counter
    BY <2>3
  <2> QED BY <2>1, <2>2, <2>3 DEF ChangeTill, AddCustomAmount, NextInLine, GiveTillDetails,
          FillTillTerms, Charged, NextTillSale, ChooseMethod
<1>6. AtTill'
  BY <1>2, <1>5 DEF AtTill
<1>7. CASE ChangeTill \/ AddCustomAmount \/ GiveTillDetails \/ FillTillTerms
           \/ \E m \in Methods \ {"none"} : ChooseMethod(m)
  <2>1. counter'.customer = counter.customer
    <3>1. NewCart \/ UNCHANGED counter
      BY <1>7 DEF ChangeTill, AddCustomAmount, GiveTillDetails, FillTillTerms, ChooseMethod
    <3> QED BY <3>1, NewCarts
  <2>2. till' \in TillType /\ till'.charging = till.charging /\ till'.receipt = till.receipt
    <3>1. CASE ChangeTill \/ AddCustomAmount
      BY <3>1, NewCarts DEF ChangeTill, AddCustomAmount, TillType
    <3>2. CASE GiveTillDetails
      BY <3>2 DEF GiveTillDetails, TillType
    <3>3. CASE FillTillTerms
      BY <3>3 DEF FillTillTerms, Terms, TillType
    <3>4. CASE \E m \in Methods \ {"none"} : ChooseMethod(m)
      BY <3>4 DEF ChooseMethod, TillType
    <3> QED BY <1>7, <3>1, <3>2, <3>3, <3>4
  <2>3. TillInv'
    BY <1>1, <1>2, <1>4, <1>6, <2>1, <2>2 DEF TillInv, customer
  <2> QED BY <1>1, <1>2, <1>3, <1>5, <2>2, <2>3, TillMoves
<1>8. CASE NextInLine
  <2>1. till.charging = NoCall /\ till.receipt = 0 /\ UNCHANGED till
    BY <1>8 DEF NextInLine, TillShown
  <2>2. TillInv'
    BY <1>1, <1>2, <1>6, <2>1 DEF TillInv
  <2> QED BY <1>1, <1>2, <1>3, <1>5, <2>1, <2>2, TillMoves
<1>9. CASE NextTillSale
  <2>1. till.receipt # 0 /\ till' = [till EXCEPT !.receipt = 0]
    BY <1>9 DEF NextTillSale, TillReceiptShown
  <2>2. till' \in TillType /\ till'.charging = till.charging /\ till'.receipt = 0
    BY <2>1 DEF TillType
  <2>3. till.charging = NoCall
    BY <1>1, <2>1 DEF TillInv
  <2>4. TillInv'
    BY <2>2, <2>3 DEF TillInv
  <2> QED BY <1>1, <1>2, <1>3, <1>5, <2>2, <2>4, TillMoves
<1>10. CASE Charged
  <2>1. /\ UNCHANGED counter /\ till.charging.cart \in Carts
        /\ till' = IF till.charging.ok
                   THEN [till EXCEPT !.charging = NoCall, !.receipt = till.charging.cart,
                                     !.cart = 0, !.custom = FALSE]
                   ELSE [till EXCEPT !.charging = NoCall]
    BY <1>10 DEF Charged, TillType, PosCall
  <2>2. /\ till' \in TillType /\ till'.charging = NoCall
        /\ till'.receipt = IF till.charging.ok THEN till.charging.cart ELSE till.receipt
    BY <2>1 DEF TillType
  <2>3. TillInv'
    BY <1>1, <1>4, <1>6, <2>1, <2>2 DEF TillInv, customer
  <2> QED BY <1>1, <1>2, <1>3, <1>5, <2>2, <2>3, TillMoves
<1> QED BY <1>7, <1>8, <1>9, <1>10

\* A link is shared, or the sale is recorded.
LEMMA ChargeKeeps ==
  ASSUME CheckoutInv, ChargeTill
  PROVE  CheckoutInv'
<1> USE PosFields, CartsAre
<1>1. /\ AtTill /\ till.receipt = 0 /\ till.charging = NoCall /\ UNCHANGED <<pos, counter>>
      /\ \/ ShareLink
         \/ ChargeSale([till EXCEPT !.terms = FALSE]) /\ UNCHANGED links
      /\ LinksInv /\ TillInv
  BY DEF ChargeTill, TillShown, CheckoutInv
<1>2. AtTill' /\ customer' = customer
  BY <1>1 DEF AtTill, customer
<1>3. CASE ShareLink
  <2> DEFINE row == [cart |-> till.cart, customer |-> customer, st |-> "open"]
  <2>1. row \in LinkRow /\ row.st = "open"
    BY DEF LinkRow, LinkStates, TillType
  <2>2. links' = Append(links, row) /\ UNCHANGED <<till, sold>>
    BY <1>3 DEF ShareLink
  <2> HIDE DEF row
  <2>3. /\ links' \in Seq(LinkRow) /\ DOMAIN links' = DOMAIN links \cup {Len(links) + 1}
        /\ \A k \in DOMAIN links : links'[k] = links[k]
        /\ links'[Len(links) + 1] = row
        /\ \A l : ToldOf(l) => ToldOf(l)'
    BY <2>1, <2>2, LinksGrow
  <2>4. LinksInv'
    <3>1. \A k \in DOMAIN links' : links'[k].st \in LinkSold =>
            \E j \in DOMAIN sold : sold[j].customer = links'[k].customer /\ sold[j].cart = links'[k].cart
      BY <1>1, <2>1, <2>3 DEF LinksInv, Sold, LinkSold
    <3> QED BY <1>1, <2>2, <2>3, <3>1 DEF LinksInv, Sold
  <2>5. TillInv'
    BY <1>1, <1>2, <2>2 DEF TillInv
  <2> QED BY <1>1, <2>2, <2>3, <2>4, <2>5, TillMoves
<1>4. CASE ChargeSale([till EXCEPT !.terms = FALSE]) /\ UNCHANGED links
  <2> DEFINE call(ok) == [cart |-> till.cart, method |-> till.method, details |-> till.details,
                          consent |-> IF till.method = "credit" THEN till.consent ELSE 0, ok |-> ok]
  <2> DEFINE row == Sale(call(FALSE), FALSE)
  <2>2. \A ok \in BOOLEAN : call(ok) \in PosCall /\ call(ok).cart = till.cart /\ (call(ok).ok <=> ok)
    BY DEF TillType, PosCall, Methods
  <2>3. row \in SaleRow /\ row.customer = customer /\ row.cart = till.cart
    BY DEF Sale, SaleRow, TillType
  <2>4. PICK ok \in BOOLEAN :
          /\ till' = [[till EXCEPT !.terms = FALSE] EXCEPT !.charging = call(ok)]
          /\ \/ ~ok /\ sold' = Append(sold, row)
             \/ Booked(call(ok))
    BY <1>4 DEF ChargeSale
  <2> HIDE DEF call, row
  <2>5. till' \in TillType /\ till'.charging = call(ok) /\ till'.receipt = 0
    BY <1>1, <2>2, <2>4 DEF TillType
  <2>6. /\ sold' \in Seq(SaleRow)
        /\ DOMAIN sold \subseteq DOMAIN sold' /\ \A k \in DOMAIN sold : sold'[k] = sold[k]
        /\ ok => \E k \in DOMAIN sold' : sold'[k].customer = customer /\ sold'[k].cart = till.cart
    <3>1. CASE ~ok /\ sold' = Append(sold, row)
      BY <2>3, <3>1, OneAdded
    <3>2. CASE Booked(call(ok))
      <4>1. call(ok) \in PosCall /\ call(ok).cart = till.cart /\ (call(ok).ok <=> ok) /\ call(ok).ok \in BOOLEAN
        BY <2>2 DEF PosCall
      <4>2. Adds(customer, call(ok).cart, call(ok).ok)
        BY <3>2, <4>1, BookedAdds
      <4> QED BY <4>1, <4>2 DEF Adds
    <3> QED BY <2>4, <3>1, <3>2
  <2>7. \A c, cart : Sold(c, cart) => Sold(c, cart)'
    BY <2>6 DEF Sold
  <2>8. \A l : ToldOf(l)' <=> ToldOf(l)
    BY <1>4 DEF ToldOf
  <2>9. LinksInv'
    <3>1. \A k \in DOMAIN links' : links'[k].st \in LinkSold =>
            \E j \in DOMAIN sold' : sold'[j].customer = links'[k].customer /\ sold'[j].cart = links'[k].cart
      BY <1>1, <1>4, <2>6 DEF LinksInv, Sold
    <3>2. /\ pos'.recording.ok => \E j \in DOMAIN sold' : sold'[j].cart = pos'.recording.cart
          /\ pos'.receipt # 0 => \E j \in DOMAIN sold' : sold'[j].cart = pos'.receipt
      BY <1>1, <2>6 DEF LinksInv
    <3> QED BY <1>1, <2>8, <3>1, <3>2 DEF LinksInv, Sold
  <2>10. TillInv'
    <3>1. till'.charging.ok => \E k \in DOMAIN sold' : sold'[k].customer = customer' /\ sold'[k].cart = till'.charging.cart
      BY <1>2, <2>2, <2>5, <2>6
    <3> QED BY <1>2, <2>5, <3>1 DEF TillInv, Sold
  <2> QED BY <1>1, <1>4, <2>5, <2>6, <2>9, <2>10, TillMoves
<1> QED BY <1>1, <1>3, <1>4

-----------------------------------------------------------------------------
LEMMA CheckoutStep == CheckoutInv /\ [CheckoutNext]_checkoutVars => CheckoutInv'
<1> SUFFICES ASSUME CheckoutInv, [CheckoutNext]_checkoutVars PROVE CheckoutInv'
  OBVIOUS
<1>1. CASE UNCHANGED checkoutVars
  <2>1. UNCHANGED <<pos, till, links, sold, counter>>
    BY <1>1 DEF checkoutVars
  <2>2. (CounterTypes' <=> CounterTypes) /\ (LinksInv' <=> LinksInv) /\ (TillInv' <=> TillInv)
    BY <2>1 DEF CounterTypes, LinksInv, TillInv, ToldOf, Sold, AtTill, customer
  <2>3. (PromptInv' <=> PromptInv) /\ (Selling' <=> Selling) /\ \A h : Tap(h)' <=> Tap(h)
    BY <2>1 DEF PromptInv, Mine, Sold, customer, Selling, Tap
  <2>4. SoldOnceInv' <=> SoldOnceInv
    BY <2>1 DEF SoldOnceInv, OnlyBy, Unsold, ToldTo, SalesTo, Live, customer
  <2>5. (Heard' <=> Heard) /\ (AllTold' <=> AllTold)
    BY <2>1, <2>3 DEF Heard, AllTold
  <2> QED BY <2>2, <2>3, <2>4, <2>5 DEF CheckoutInv
<1>2. CASE Sell
  <2>1. CASE \E k \in DOMAIN links : PayLink(k) \/ Finalize(k) \/ ExpireLink(k)
    BY <2>1, ServerServes, ServesKeeps
  <2>2. CASE \E c \in pos.checks : Checked(c) \/ CheckLost(c)
    BY <2>2, ChecksKeep
  <2> QED BY <1>2, <2>1, <2>2, TapsAre, TapsKeep, RecordsKeep, AnswersKeep, CreateLinkKeeps,
          ChecksServe, ServesKeeps, FinishKeeps DEF Sell
<1>3. CASE Till
  BY <1>3, TillTaps, ChargeKeeps DEF Till
<1> QED BY <1>1, <1>2, <1>3 DEF CheckoutNext

\* However the owner and the cashier tap, and whatever answers are late or lost, the
\* screens that sell keep their types.
THEOREM CheckoutTypeCorrect == CheckoutSpec => []CheckoutTypeOK
<1>1. CheckoutInv => CheckoutTypeOK
  BY CheckoutTypes DEF CheckoutInv
<1> QED BY <1>1, CheckoutInitial, CheckoutStep, PTL DEF CheckoutSpec

\* What a customer buys is sold once, but for what is sold behind the screen's back when
\* an answer was lost or a link paid after it was given up, and the receipt shown is of
\* that sale (sell.tsx with its payment links, and the cashier's till), for any number
\* of customers, carts, links and checks in flight.
THEOREM GoodsSoldAsShown == CheckoutSpec => []SoldAsShown
<1>1. CheckoutInv => SoldAsShown
  <2> SUFFICES ASSUME CheckoutInv PROVE SoldAsShown
    OBVIOUS
  <2>1. GoodsSoldOnce
    <3> SUFFICES ASSUME Selling, ~Tap("late"), ~Tap("link_left"), NEW c \in 1..MaxCustomers
                 PROVE  /\ Cardinality(ToldTo(c)) <= 1
                        /\ Tap("lost_reply") \/ Tap("paid_late") \/ ToldTo(c) = SalesTo(c)
      BY DEF GoodsSoldOnce
    <3>1. \A i, j \in ToldTo(c) : i = j
      BY DEF CheckoutInv, SoldOnceInv
    <3>2. Cardinality(ToldTo(c)) <= 1
      <4>1. CASE ToldTo(c) = {}
        BY <4>1, FS_EmptySet
      <4>2. CASE ToldTo(c) # {}
        <5>1. PICK k : ToldTo(c) = {k}
          BY <3>1, <4>2
        <5>2. Cardinality({k}) = 1
          BY FS_Singleton
        <5> QED BY <5>1, <5>2
      <4> QED BY <4>1, <4>2
    <3>3. Heard => ToldTo(c) = SalesTo(c)
      BY DEF CheckoutInv, AllTold, ToldTo, SalesTo
    <3> QED BY <3>2, <3>3 DEF Heard
  <2>2. ReceiptIsOfSale
    <3>1. \A cart : Sold(customer, cart) => \E k \in SalesTo(customer) : sold[k].cart = cart
      BY DEF Sold, SalesTo
    <3> QED BY <3>1 DEF CheckoutInv, LinksInv, PromptInv, TillInv, ReceiptIsOfSale, ReceiptShown, TillReceiptShown
  <2> QED BY <2>1, <2>2 DEF SoldAsShown
<1> QED BY <1>1, CheckoutInitial, CheckoutStep, PTL DEF CheckoutSpec
====
