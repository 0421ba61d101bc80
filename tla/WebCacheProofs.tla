--------------------------- MODULE WebCacheProofs ---------------------------
(***************************************************************************)
(* The tables of the web proxy's caches agree, the free size is accounted  *)
(* for, evictions always find a page, and it is the least recently used    *)
(* one: for any URLs, page lengths, cache size, width of the counts and    *)
(* number of requests.                                                     *)
(***************************************************************************)
EXTENDS WebCache, PowersOfTwoProofs, FiniteSetTheorems, SequenceTheorems, TLAPS

-----------------------------------------------------------------------------
(* The inductive invariant *)

\* A request that is being served is counted at its end, and hits are requests.
Counts ==
    /\ hit_count <= total_count
    /\ request # NoPage => total_count < MaxRequests

\* The page that room is made for is not in the cache.
Wanted == request # NoPage => request.url \notin DOMAIN web_cache

\* Counts that have been given out are below the next one.
Given == NotWrapped => \A k \in DOMAIN lru_table : k < glru_count

\* The halves of TablesAgree.
PageHasEntry(u) ==
    /\ web_cache[u].lru \in DOMAIN lru_table
    /\ lru_table[web_cache[u].lru].url = u
    /\ policy = "minlru" => lru_table[web_cache[u].lru].size = web_cache[u].len
EntryHasPage(k) ==
    /\ lru_table[k].url \in DOMAIN web_cache
    /\ web_cache[lru_table[k].url].lru = k
Agree == (\A u \in DOMAIN web_cache : PageHasEntry(u)) /\ (\A k \in DOMAIN lru_table : EntryHasPage(k))

Inv ==
    /\ TypeOK /\ Counts /\ Wanted /\ Given
    /\ NotWrapped /\ policy # "rand" => Agree

-----------------------------------------------------------------------------
(* Facts about maps and counts *)

LEMMA EraseFacts == \A f, k :
    /\ DOMAIN Erase(f, k) = DOMAIN f \ {k}
    /\ \A x \in DOMAIN f \ {k} : Erase(f, k)[x] = f[x]
    BY DEF Erase, Restrict

\* A set of keys has a smallest one.
LEMMA LeastFacts ==
    ASSUME NEW K \in SUBSET Nat, K # {}
    PROVE  Least(K) \in K
    BY LeastNumber DEF Least

\* The count that is given out next has the width of a key, and is new as long
\* as the counts have not wrapped.
LEMMA KeyFacts ==
    ASSUME TypeOK
    PROVE  /\ Key \in 0 .. Width - 1
           /\ glru_count + 1 <= Width => Key = glru_count
    BY WebCacheAssumption DEF TypeOK, Key

\* Words, and the remainders that make them.
LEMMA WordFacts ==
    /\ Word \in Nat \ {0} /\ Half \in Nat /\ Half < Word /\ CacheSize \in 0 .. Word - 1
    /\ \A n \in Int : n % Word \in 0 .. Word - 1
    BY WebCacheAssumption DEF Word

-----------------------------------------------------------------------------
(* Every step keeps the invariant *)

LEMMA InitInv ==
    ASSUME Init
    PROVE  Inv
<1>1. DOMAIN web_cache = {} /\ DOMAIN lru_table = {}
    BY DEF Init
<1>2. TypeOK
  <2>1. /\ policy \in Policies /\ cache_sz_remaining = CacheSize /\ glru_count = 0
        /\ hit_count = 0 /\ total_count = 0 /\ request = NoPage /\ stuck = FALSE /\ oversized = FALSE
      BY DEF Init
  <2>2. /\ \A u \in DOMAIN web_cache : web_cache[u] \in [lru : 0 .. Width - 1, len : 0 .. Word - 1]
        /\ \A k \in DOMAIN lru_table : lru_table[k] \in [url : Url \union {NoUrl}, size : 0 .. Word - 1]
      BY <1>1
  <2>3. request \in [url : Url, len : 0 .. Word - 1] \union {NoPage}
      BY <2>1
  <2>4. /\ cache_sz_remaining \in 0 .. Word - 1 /\ glru_count \in Nat
        /\ hit_count \in 0 .. MaxRequests /\ total_count \in 0 .. MaxRequests
      BY <2>1, WebCacheAssumption, WordFacts
  <2>5. stuck \in BOOLEAN /\ oversized \in BOOLEAN /\ DOMAIN web_cache \subseteq Url /\ DOMAIN lru_table \subseteq 0 .. Width - 1
      BY <1>1, <2>1
  <2> QED BY <2>1, <2>2, <2>3, <2>4, <2>5 DEF TypeOK
<1>3. Counts /\ Wanted /\ Given /\ Agree
    BY <1>1 DEF Init, Counts, Wanted, Given, Agree
<1> QED BY <1>2, <1>3 DEF Inv

\* A hit moves the page's entry to a count that nothing else has.
LEMMA HitInv ==
    ASSUME Inv, NEW u \in Url, Hit(u)
    PROVE  Inv'
<1> USE DEF Inv
<1>1. /\ u \in DOMAIN web_cache /\ request = NoPage /\ total_count < MaxRequests
      /\ hit_count' = hit_count + 1 /\ total_count' = total_count + 1
      /\ UNCHANGED <<policy, cache_sz_remaining, request, stuck, oversized>>
    BY DEF Hit, Idle
<1>2. Counts' /\ hit_count' \in 0 .. MaxRequests /\ total_count' \in 0 .. MaxRequests
    BY <1>1, WebCacheAssumption DEF Counts, TypeOK
<1>3. CASE policy = "rand"
  <2>1. UNCHANGED <<web_cache, lru_table, glru_count>>
      BY <1>3 DEF Hit
  <2> QED BY <1>1, <1>2, <1>3, <2>1 DEF TypeOK, Wanted, Given, NotWrapped
<1>4. CASE policy # "rand"
  <2> DEFINE old == web_cache[u].lru
             entry == IF policy = "lru" THEN [url |-> u, size |-> 0] ELSE Entry(old)
             rest == Erase(lru_table, old)
  <2>1. /\ lru_table' = Put(rest, Key, entry)
        /\ web_cache' = [web_cache EXCEPT ![u].lru = Key]
        /\ glru_count' = glru_count + 1
      BY <1>4 DEF Hit
  <2>2. entry \in [url : Url \union {NoUrl}, size : 0 .. Word - 1]
      BY WordFacts DEF TypeOK, Entry
  <2> HIDE DEF entry
  <2>3. DOMAIN rest = DOMAIN lru_table \ {old} /\ \A k \in DOMAIN rest : rest[k] = lru_table[k]
      BY DEF Erase, Restrict
  <2>4. Key \in 0 .. Width - 1 /\ (glru_count + 1 <= Width => Key = glru_count)
      BY KeyFacts
  <2> HIDE DEF rest
  <2>5. /\ DOMAIN lru_table' = DOMAIN rest \union {Key} /\ lru_table'[Key] = entry
        /\ \A k \in DOMAIN rest \ {Key} : lru_table'[k] = rest[k]
      BY <2>1 DEF Put
  <2>6. /\ DOMAIN web_cache' = DOMAIN web_cache
        /\ \A v \in DOMAIN web_cache : v # u => web_cache'[v] = web_cache[v]
        /\ web_cache'[u] = [web_cache[u] EXCEPT !.lru = Key]
      BY <1>1, <2>1
  <2>7. /\ web_cache'[u] \in [lru : 0 .. Width - 1, len : 0 .. Word - 1]
        /\ web_cache'[u].lru = Key /\ web_cache'[u].len = web_cache[u].len
      BY <1>1, <2>4, <2>6 DEF TypeOK
  <2>8. \A v \in DOMAIN web_cache' : web_cache'[v] \in [lru : 0 .. Width - 1, len : 0 .. Word - 1]
      BY <2>6, <2>7 DEF TypeOK
  <2>9. \A k \in DOMAIN lru_table' : lru_table'[k] \in [url : Url \union {NoUrl}, size : 0 .. Word - 1]
      BY <2>2, <2>3, <2>5 DEF TypeOK
  <2>10. TypeOK'
      BY <1>1, <1>2, <2>1, <2>3, <2>4, <2>5, <2>6, <2>8, <2>9 DEF TypeOK
  <2>11. Wanted' /\ Given'
      BY <1>1, <2>1, <2>3, <2>4, <2>5, WebCacheAssumption DEF Wanted, Given, NotWrapped, TypeOK
  <2>12. ASSUME NotWrapped' PROVE Agree'
    <3>1. Agree /\ Key = glru_count /\ NotWrapped /\ glru_count \in Nat
        BY <1>4, <2>1, <2>4, <2>12, WebCacheAssumption DEF NotWrapped, TypeOK
    <3>2. Key \notin DOMAIN lru_table
        BY <3>1 DEF Given, TypeOK
    <3>3. entry.url = u /\ (policy = "minlru" => entry.size = web_cache[u].len)
        BY <1>1, <1>4, <3>1 DEF Agree, PageHasEntry, entry, Entry, TypeOK
    <3>4. \A v \in DOMAIN web_cache' : PageHasEntry(v)'
      <4> SUFFICES ASSUME NEW v \in DOMAIN web_cache PROVE PageHasEntry(v)'
          BY <2>6
      <4>1. CASE v = u
          BY <1>1, <2>5, <2>7, <3>3, <4>1 DEF PageHasEntry
      <4>2. CASE v # u
        <5>1. PageHasEntry(v) /\ PageHasEntry(u)
            BY <1>1, <3>1 DEF Agree
        <5>2. web_cache[v].lru # old
            BY <4>2, <5>1 DEF PageHasEntry
        <5>3. web_cache[v].lru # Key /\ web_cache[v].lru \in DOMAIN rest
            BY <2>3, <3>2, <5>1, <5>2 DEF PageHasEntry
        <5>4. lru_table'[web_cache[v].lru] = lru_table[web_cache[v].lru]
            BY <2>3, <2>5, <5>3
        <5> QED BY <1>1, <2>5, <2>6, <4>2, <5>1, <5>3, <5>4 DEF PageHasEntry
      <4> QED BY <4>1, <4>2
    <3>5. \A k \in DOMAIN lru_table' : EntryHasPage(k)'
      <4> SUFFICES ASSUME NEW k \in DOMAIN lru_table' PROVE EntryHasPage(k)'
          OBVIOUS
      <4>1. CASE k = Key
          BY <1>1, <2>5, <2>6, <2>7, <3>3, <4>1 DEF EntryHasPage
      <4>2. CASE k # Key
        <5>1. k \in DOMAIN lru_table /\ k # old /\ lru_table'[k] = lru_table[k] /\ EntryHasPage(k)
            BY <2>3, <2>5, <3>1, <4>2 DEF Agree
        <5>2. lru_table[k].url # u
            BY <5>1 DEF EntryHasPage
        <5> QED BY <2>6, <5>1, <5>2 DEF EntryHasPage
      <4> QED BY <4>1, <4>2
    <3> QED BY <3>4, <3>5 DEF Agree
  <2> QED BY <1>2, <2>10, <2>11, <2>12
<1> QED BY <1>3, <1>4

LEMMA FetchInv ==
    ASSUME Inv, NEW u \in Url, NEW n \in Lengths, Fetch(u, n)
    PROVE  Inv'
<1> USE DEF Inv
<1>1. /\ u \notin DOMAIN web_cache /\ request = NoPage /\ total_count < MaxRequests /\ n \in Nat
      /\ UNCHANGED <<policy, web_cache, lru_table, cache_sz_remaining, glru_count, hit_count,
                     stuck>>
    BY WebCacheAssumption DEF Fetch, Idle, tables
<1> DEFINE w == n % Word
<1>2. CASE Cacheable(w)
  <2>1. request' = [url |-> u, len |-> w] /\ oversized' = (oversized \/ n >= Half) /\ UNCHANGED total_count
      BY <1>2 DEF Fetch
  <2>2. w \in 0 .. Word - 1 /\ oversized' \in BOOLEAN
      BY <1>1, <2>1, WordFacts DEF TypeOK
  <2> HIDE DEF w
  <2> QED BY <1>1, <2>1, <2>2 DEF TypeOK, Counts, Wanted, Given, NotWrapped, Agree, PageHasEntry,
             EntryHasPage
<1>3. CASE ~Cacheable(w)
  <2>1. total_count' = total_count + 1 /\ UNCHANGED <<request, oversized>>
      BY <1>3 DEF Fetch
  <2> QED BY <1>1, <2>1, WebCacheAssumption DEF TypeOK, Counts, Wanted, Given, NotWrapped, Agree,
             PageHasEntry, EntryHasPage
<1> QED BY <1>2, <1>3

\* An eviction takes the page and its entry out together.
LEMMA EvictCountedInv ==
    ASSUME Inv, EvictCounted
    PROVE  Inv'
<1> USE DEF Inv
<1> DEFINE k == Least(Candidates)
           u == lru_table[k].url
<1>1. /\ request # NoPage /\ policy # "rand"
      /\ cache_sz_remaining' = (cache_sz_remaining + Length(u)) % Word
      /\ web_cache' = Erase(web_cache, u)
      /\ lru_table' = Erase(lru_table, k)
      /\ UNCHANGED <<policy, glru_count, hit_count, total_count, request, stuck, oversized>>
    BY DEF EvictCounted, Evicting
<1>2. k \in DOMAIN lru_table
  <2>1. Candidates \subseteq DOMAIN lru_table
      BY DEF Candidates, OfSize
  <2>2. Candidates \in SUBSET Nat /\ Candidates # {}
      BY <2>1, WebCacheAssumption DEF TypeOK, EvictCounted
  <2> QED BY <2>1, <2>2, LeastFacts
<1> HIDE DEF k
<1>3. /\ DOMAIN web_cache' = DOMAIN web_cache \ {u}
      /\ \A v \in DOMAIN web_cache' : web_cache'[v] = web_cache[v]
      /\ DOMAIN lru_table' = DOMAIN lru_table \ {k}
      /\ \A l \in DOMAIN lru_table' : lru_table'[l] = lru_table[l]
    BY <1>1 DEF Erase, Restrict
<1>4. TypeOK'
  <2>1. cache_sz_remaining \in Int /\ Length(u) \in Int
      BY WordFacts DEF TypeOK, Length
  <2>2. cache_sz_remaining' \in 0 .. Word - 1
      BY <1>1, <2>1, WordFacts
  <2> QED BY <1>1, <1>3, <2>2 DEF TypeOK
<1>5. Counts' /\ Wanted' /\ Given'
    BY <1>1, <1>3 DEF Counts, Wanted, Given, NotWrapped
<1>6. ASSUME NotWrapped PROVE Agree'
  <2>1. Agree /\ EntryHasPage(k)
      BY <1>1, <1>2, <1>6 DEF Agree
  <2>2. \A v \in DOMAIN web_cache' : PageHasEntry(v)'
    <3> SUFFICES ASSUME NEW v \in DOMAIN web_cache, v # u PROVE PageHasEntry(v)'
        BY <1>3
    <3>1. PageHasEntry(v) /\ web_cache[v].lru # k
        BY <2>1 DEF Agree, PageHasEntry
    <3> QED BY <1>1, <1>3, <3>1 DEF PageHasEntry
  <2>3. \A l \in DOMAIN lru_table' : EntryHasPage(l)'
    <3> SUFFICES ASSUME NEW l \in DOMAIN lru_table, l # k PROVE EntryHasPage(l)'
        BY <1>3
    <3>1. EntryHasPage(l) /\ lru_table[l].url # u
        BY <2>1 DEF Agree, EntryHasPage
    <3> QED BY <1>3, <3>1 DEF EntryHasPage
  <2> QED BY <2>2, <2>3 DEF Agree
<1> QED BY <1>1, <1>4, <1>5, <1>6 DEF NotWrapped

LEMMA EvictRandomInv ==
    ASSUME Inv, NEW u \in Url, EvictRandom(u)
    PROVE  Inv'
<1> USE DEF Inv
<1>1. /\ policy = "rand" /\ u \in DOMAIN web_cache
      /\ cache_sz_remaining' = (cache_sz_remaining + web_cache[u].len) % Word
      /\ web_cache' = Erase(web_cache, u)
      /\ UNCHANGED <<policy, lru_table, glru_count, hit_count, total_count, request, stuck, oversized>>
    BY DEF EvictRandom
<1>2. /\ DOMAIN web_cache' = DOMAIN web_cache \ {u}
      /\ \A v \in DOMAIN web_cache' : web_cache'[v] = web_cache[v]
    BY <1>1 DEF Erase, Restrict
<1>3. TypeOK'
  <2>1. cache_sz_remaining + web_cache[u].len \in Int
      BY <1>1 DEF TypeOK
  <2>2. cache_sz_remaining' \in 0 .. Word - 1
      BY <1>1, <2>1, WordFacts
  <2> QED BY <1>1, <1>2, <2>2 DEF TypeOK
<1> QED BY <1>1, <1>2, <1>3 DEF Counts, Wanted, Given, NotWrapped

LEMMA EvictNothingInv ==
    ASSUME Inv, EvictNothing
    PROVE  Inv'
    BY DEF Inv, EvictNothing, tables, TypeOK, Counts, Wanted, Given, NotWrapped, Agree,
       PageHasEntry, EntryHasPage

\* A new page and its entry come in together, under a new count.
LEMMA InsertInv ==
    ASSUME Inv, Insert
    PROVE  Inv'
<1> USE DEF Inv
<1>1. /\ request # NoPage /\ request \in [url : Url, len : 0 .. Word - 1] /\ total_count < MaxRequests
      /\ request.url \notin DOMAIN web_cache
      /\ cache_sz_remaining' = (cache_sz_remaining - request.len) % Word
      /\ total_count' = total_count + 1 /\ request' = NoPage
      /\ UNCHANGED <<policy, hit_count, stuck, oversized>>
    BY DEF Insert, TypeOK, Counts, Wanted
<1>2. Counts' /\ Wanted' /\ total_count' \in 0 .. MaxRequests
    BY <1>1, WebCacheAssumption DEF Counts, Wanted, TypeOK
<1>3. cache_sz_remaining' \in 0 .. Word - 1
  <2>1. cache_sz_remaining - request.len \in Int
      BY <1>1 DEF TypeOK
  <2> QED BY <1>1, <2>1, WordFacts
<1>4. CASE policy = "rand"
  <2> DEFINE page == [lru |-> 0, len |-> request.len]
  <2>1. web_cache' = Put(web_cache, request.url, page) /\ UNCHANGED <<lru_table, glru_count>>
      BY <1>4 DEF Insert
  <2>2. page \in [lru : 0 .. Width - 1, len : 0 .. Word - 1]
      BY <1>1, WebCacheAssumption
  <2> HIDE DEF page
  <2>3. /\ DOMAIN web_cache' = DOMAIN web_cache \union {request.url}
        /\ web_cache'[request.url] = page
        /\ \A v \in DOMAIN web_cache \ {request.url} : web_cache'[v] = web_cache[v]
      BY <2>1 DEF Put
  <2>4. TypeOK'
      BY <1>1, <1>2, <1>3, <2>1, <2>2, <2>3 DEF TypeOK
  <2> QED BY <1>1, <1>2, <1>4, <2>1, <2>4 DEF Given, NotWrapped
<1>5. CASE policy # "rand"
  <2> DEFINE page == [lru |-> Key, len |-> request.len]
             entry == [url |-> request.url, size |-> IF policy = "lru" THEN 0 ELSE request.len]
  <2>1. /\ web_cache' = Put(web_cache, request.url, page)
        /\ lru_table' = Put(lru_table, Key, entry)
        /\ glru_count' = glru_count + 1
      BY <1>5 DEF Insert
  <2>2. Key \in 0 .. Width - 1 /\ (glru_count + 1 <= Width => Key = glru_count)
      BY KeyFacts
  <2>3. /\ page \in [lru : 0 .. Width - 1, len : 0 .. Word - 1]
        /\ page.lru = Key /\ page.len = request.len
        /\ entry \in [url : Url \union {NoUrl}, size : 0 .. Word - 1] /\ entry.url = request.url
        /\ policy = "minlru" => entry.size = request.len
      BY <1>1, <2>2, WordFacts
  <2> HIDE DEF page, entry
  <2>4. /\ DOMAIN web_cache' = DOMAIN web_cache \union {request.url}
        /\ web_cache'[request.url] = page
        /\ \A v \in DOMAIN web_cache \ {request.url} : web_cache'[v] = web_cache[v]
      BY <2>1 DEF Put
  <2>5. /\ DOMAIN lru_table' = DOMAIN lru_table \union {Key} /\ lru_table'[Key] = entry
        /\ \A k \in DOMAIN lru_table \ {Key} : lru_table'[k] = lru_table[k]
      BY <2>1 DEF Put
  <2>6. \A v \in DOMAIN web_cache' : web_cache'[v] \in [lru : 0 .. Width - 1, len : 0 .. Word - 1]
      BY <2>3, <2>4 DEF TypeOK
  <2>7. \A k \in DOMAIN lru_table' : lru_table'[k] \in [url : Url \union {NoUrl}, size : 0 .. Word - 1]
      BY <2>3, <2>5 DEF TypeOK
  <2>8. TypeOK'
      BY <1>1, <1>2, <1>3, <2>1, <2>2, <2>4, <2>5, <2>6, <2>7 DEF TypeOK
  <2>9. Given'
      BY <2>1, <2>2, <2>5, WebCacheAssumption DEF Given, NotWrapped, TypeOK
  <2>10. ASSUME NotWrapped' PROVE Agree'
    <3>1. Agree /\ Key = glru_count /\ NotWrapped /\ glru_count \in Nat
        BY <1>5, <2>1, <2>2, <2>10, WebCacheAssumption DEF NotWrapped, TypeOK
    <3>2. Key \notin DOMAIN lru_table
        BY <3>1 DEF Given, TypeOK
    <3>3. \A v \in DOMAIN web_cache' : PageHasEntry(v)'
      <4> SUFFICES ASSUME NEW v \in DOMAIN web_cache' PROVE PageHasEntry(v)'
          OBVIOUS
      <4>1. CASE v = request.url
          BY <1>1, <2>3, <2>4, <2>5, <4>1 DEF PageHasEntry
      <4>2. CASE v # request.url
        <5>1. v \in DOMAIN web_cache /\ web_cache'[v] = web_cache[v] /\ PageHasEntry(v)
            BY <2>4, <3>1, <4>2 DEF Agree
        <5> QED BY <1>1, <2>5, <3>2, <5>1 DEF PageHasEntry
      <4> QED BY <4>1, <4>2
    <3>4. \A k \in DOMAIN lru_table' : EntryHasPage(k)'
      <4> SUFFICES ASSUME NEW k \in DOMAIN lru_table' PROVE EntryHasPage(k)'
          OBVIOUS
      <4>1. CASE k = Key
          BY <2>3, <2>4, <2>5, <4>1 DEF EntryHasPage
      <4>2. CASE k # Key
        <5>1. k \in DOMAIN lru_table /\ lru_table'[k] = lru_table[k] /\ EntryHasPage(k)
            BY <2>5, <3>1, <4>2 DEF Agree
        <5> QED BY <1>1, <2>4, <5>1 DEF EntryHasPage
      <4> QED BY <4>1, <4>2
    <3> QED BY <3>3, <3>4 DEF Agree
  <2> QED BY <1>2, <2>8, <2>9, <2>10
<1> QED BY <1>4, <1>5

\* The invariant holds in every reachable state.
THEOREM Reachable == Spec => []Inv
<1>1. ASSUME Inv, Next PROVE Inv'
    BY <1>1, HitInv, FetchInv, EvictRandomInv, EvictCountedInv, EvictNothingInv,
       InsertInv DEF Next
<1>2. ASSUME Inv, UNCHANGED vars PROVE Inv'
    BY <1>2 DEF Inv, vars, tables, TypeOK, Counts, Wanted, Given, NotWrapped, Agree,
       PageHasEntry, EntryHasPage
<1> QED BY InitInv, <1>1, <1>2, PTL DEF Spec

\* The variables of the cache keep their types: counts that are cut to 32 bits
\* stay keys of lru_table, also when they have wrapped.
THEOREM TypeCorrect == Spec => []TypeOK
    BY Reachable, PTL DEF Inv

\* Until the counts wrap, web_cache and lru_table describe the same pages, for
\* LRU and for LRU-MIN, through every sequence of hits, insertions and
\* evictions.
THEOREM TablesDescribeTheSamePages == Spec => []TablesAgree
<1>1. Inv => TablesAgree
    BY DEF Inv, TablesAgree, Agree, PageHasEntry, EntryHasPage
<1> QED BY <1>1, Reachable, PTL

-----------------------------------------------------------------------------
(***************************************************************************)
(* The free size                                                           *)
(***************************************************************************)
Congruent(a, b) == \E k \in Int : a = b + k * Word

\* Without oversized pages, words are the numbers they stand for.
Small ==
    ~oversized => /\ \A u \in DOMAIN web_cache : web_cache[u].len < Half
                  /\ request.len < Half
Exact == ~oversized => cache_sz_remaining + Cardinality(CachedBytes) = CacheSize

SizeInv ==
    /\ IsFiniteSet(CachedBytes) /\ Small /\ Exact
    /\ Congruent(cache_sz_remaining + Cardinality(CachedBytes), CacheSize)

\* A number and its remainder are congruent, and a word is the remainder of
\* the numbers it is congruent to.
LEMMA RemainderIsCongruent ==
    ASSUME NEW n \in Int
    PROVE  \E k \in Int : n % Word = n + k * Word
<1>1. /\ Word \in Nat \ {0} /\ n \div Word \in Int
      /\ n % Word = n - Word * (n \div Word)
    BY WordFacts
<1> DEFINE k == - (n \div Word)
<1>2. k \in Int /\ n % Word = n + k * Word
    BY <1>1
<1> QED BY <1>2

LEMMA WordIsRemainder ==
    ASSUME NEW n \in Int, NEW w \in 0 .. Word - 1, Congruent(n, w)
    PROVE  n % Word = w
<1>1. PICK k \in Int : n = w + k * Word
    BY DEF Congruent
<1>2. Word \in Nat \ {0} /\ n % Word \in 0 .. Word - 1
    BY WordFacts
<1>3. PICK j \in Int : n % Word = n + j * Word
    BY RemainderIsCongruent
<1>4. (n % Word) - w = (k + j) * Word
    BY <1>1, <1>2, <1>3
<1>5. k + j = 0
  <2> DEFINE i == k + j
  <2>1. i \in Int /\ i * Word > - Word /\ i * Word < Word
      BY <1>2, <1>4
  <2> HIDE DEF i
  <2>2. i >= 1 => i * Word >= Word
      BY <1>2, <2>1
  <2>3. i <= -1 => i * Word <= - Word
      BY <1>2, <2>1
  <2>4. i = 0
      BY <1>2, <2>1, <2>2, <2>3
  <2> QED BY <2>4 DEF i
<1> QED BY <1>1, <1>2, <1>4, <1>5

LEMMA PageBytes ==
    ASSUME NEW u, NEW n \in Nat
    PROVE  IsFiniteSet({u} \X (1 .. n)) /\ Cardinality({u} \X (1 .. n)) = n
<1>1. IsFiniteSet({u}) /\ Cardinality({u}) = 1
    BY FS_Singleton
<1>2. IsFiniteSet(1 .. n) /\ Cardinality(1 .. n) = n
    BY FS_Interval
<1>3. /\ IsFiniteSet({u} \X (1 .. n))
      /\ Cardinality({u} \X (1 .. n)) = Cardinality({u}) * Cardinality(1 .. n)
    BY <1>1, <1>2, FS_Product
<1> QED BY <1>1, <1>2, <1>3

Bytes(f) == UNION {{v} \X (1 .. f[v].len) : v \in DOMAIN f}

\* Two caches that differ in one page differ in its bytes.
LEMMA OnePageMore ==
    ASSUME NEW f, NEW g, NEW u, NEW n \in Nat, u \notin DOMAIN f, DOMAIN g = DOMAIN f \union {u},
           g[u].len = n, \A v \in DOMAIN f : g[v].len = f[v].len,
           IsFiniteSet(Bytes(f)) \/ IsFiniteSet(Bytes(g))
    PROVE  /\ IsFiniteSet(Bytes(f)) /\ IsFiniteSet(Bytes(g))
           /\ Cardinality(Bytes(g)) = Cardinality(Bytes(f)) + n
<1> DEFINE A == Bytes(f)
           B == Bytes(g)
           P == {u} \X (1 .. n)
<1>1. IsFiniteSet(P) /\ Cardinality(P) = n
    BY PageBytes
<1>2. B = A \union P
  <2>1. ASSUME NEW x \in B PROVE x \in A \union P
    <3>1. PICK v \in DOMAIN g : x \in {v} \X (1 .. g[v].len)
        BY DEF Bytes
    <3>2. CASE v = u
        BY <3>1, <3>2
    <3>3. CASE v # u
      <4>1. v \in DOMAIN f /\ x \in {v} \X (1 .. f[v].len)
          BY <3>1, <3>3
      <4> QED BY <4>1 DEF Bytes
    <3> QED BY <3>2, <3>3
  <2>2. ASSUME NEW x \in A PROVE x \in B
    <3>1. PICK v \in DOMAIN f : x \in {v} \X (1 .. f[v].len)
        BY DEF Bytes
    <3>2. v \in DOMAIN g /\ x \in {v} \X (1 .. g[v].len)
        BY <3>1
    <3> QED BY <3>2 DEF Bytes
  <2>3. ASSUME NEW x \in P PROVE x \in B
    <3>1. u \in DOMAIN g /\ x \in {u} \X (1 .. g[u].len)
        OBVIOUS
    <3> QED BY <3>1 DEF Bytes
  <2> HIDE DEF P, A, B
  <2> QED BY <2>1, <2>2, <2>3
<1>3. A \intersect P = {}
  <2> SUFFICES ASSUME NEW x \in A, x \in P PROVE FALSE
      OBVIOUS
  <2>1. PICK v \in DOMAIN f : x \in {v} \X (1 .. f[v].len)
      BY DEF Bytes
  <2>2. x[1] = v /\ x[1] = u
      BY <2>1
  <2> QED BY <2>2
<1> HIDE DEF P, A, B
<1>4. IsFiniteSet(A)
  <2>1. IsFiniteSet(A) \/ IsFiniteSet(B)
      BY DEF A, B
  <2> QED BY <1>2, <2>1, FS_Subset
<1>5. /\ IsFiniteSet(A \union P)
      /\ Cardinality(A \union P) = Cardinality(A) + Cardinality(P) - Cardinality(A \intersect P)
    BY <1>1, <1>4, FS_Union
<1>6. Cardinality(A \intersect P) = 0 /\ Cardinality(A) \in Nat
    BY <1>3, <1>4, FS_EmptySet, FS_CardinalityType
<1>7. IsFiniteSet(A) /\ IsFiniteSet(B) /\ Cardinality(B) = Cardinality(A) + n
    BY <1>1, <1>2, <1>4, <1>5, <1>6
<1> QED BY <1>7 DEF A, B

LEMMA CachedIsBytes == CachedBytes = Bytes(web_cache) /\ CachedBytes' = Bytes(web_cache')
    BY DEF CachedBytes, Bytes

\* What an eviction and an insertion do to the bytes in the cache.
LEMMA PageErased ==
    ASSUME TypeOK, SizeInv, NEW u \in DOMAIN web_cache, web_cache' = Erase(web_cache, u),
           cache_sz_remaining' = (cache_sz_remaining + web_cache[u].len) % Word,
           UNCHANGED <<request, oversized>>
    PROVE  SizeInv'
<1> DEFINE n == web_cache[u].len
           r == cache_sz_remaining
           B == Cardinality(CachedBytes)
           C == Cardinality(CachedBytes')
<1>1. /\ DOMAIN web_cache' = DOMAIN web_cache \ {u}
      /\ \A v \in DOMAIN web_cache' : web_cache'[v] = web_cache[v]
    BY DEF Erase, Restrict
<1>2. n \in 0 .. Word - 1 /\ r \in 0 .. Word - 1
    BY DEF TypeOK
<1>3. IsFiniteSet(CachedBytes)
    BY DEF SizeInv
<1>4. IsFiniteSet(CachedBytes') /\ B = C + n
  <2>1. /\ u \notin DOMAIN web_cache' /\ DOMAIN web_cache = DOMAIN web_cache' \union {u}
        /\ \A v \in DOMAIN web_cache' : web_cache[v].len = web_cache'[v].len
      BY <1>1
  <2>2. n \in Nat
      BY <1>2, WordFacts
  <2> QED BY <1>3, <2>1, <2>2, OnePageMore, CachedIsBytes
<1>5. C \in Nat /\ CacheSize \in 0 .. Word - 1 /\ Word \in Nat \ {0}
    BY <1>4, FS_CardinalityType, WordFacts
<1>6. Small'
    BY <1>1 DEF SizeInv, Small
<1> HIDE DEF n, r, B, C
<1>7. cache_sz_remaining' = (r + n) % Word
    BY DEF r, n
<1>8. Exact'
  <2> SUFFICES ASSUME ~oversized PROVE ((r + n) % Word) + C = CacheSize
      BY <1>7 DEF Exact, C
  <2>1. r + B = CacheSize
      BY DEF SizeInv, Exact, r, B
  <2>2. r + n \in 0 .. Word - 1
      BY <1>2, <1>4, <1>5, <2>1
  <2>3. (r + n) % Word = r + n
      BY <1>5, <2>2
  <2> QED BY <1>2, <1>4, <1>5, <2>1, <2>3
<1>9. Congruent(((r + n) % Word) + C, CacheSize)
  <2>1. PICK k \in Int : r + B = CacheSize + k * Word
      BY DEF SizeInv, Congruent, r, B
  <2>2. PICK j \in Int : (r + n) % Word = (r + n) + j * Word
      BY <1>2, RemainderIsCongruent
  <2>3. ((r + n) % Word) + C = CacheSize + (k + j) * Word
      BY <1>2, <1>4, <1>5, <2>1, <2>2
  <2> QED BY <2>3 DEF Congruent
<1> QED BY <1>4, <1>6, <1>7, <1>8, <1>9 DEF SizeInv, C

LEMMA PagePut ==
    ASSUME TypeOK, SizeInv, NEW u, u \notin DOMAIN web_cache, NEW page,
           page.len = request.len, web_cache' = Put(web_cache, u, page),
           Int32(cache_sz_remaining) >= Int32(request.len),
           cache_sz_remaining' = (cache_sz_remaining - request.len) % Word,
           request' = NoPage, UNCHANGED oversized
    PROVE  SizeInv'
<1> DEFINE n == request.len
           r == cache_sz_remaining
           B == Cardinality(CachedBytes)
           C == Cardinality(CachedBytes')
<1>1. /\ DOMAIN web_cache' = DOMAIN web_cache \union {u} /\ web_cache'[u] = page
      /\ \A v \in DOMAIN web_cache : web_cache'[v] = web_cache[v]
    BY DEF Put
<1>2. /\ n \in 0 .. Word - 1 /\ r \in 0 .. Word - 1 /\ IsFiniteSet(CachedBytes)
      /\ Half \in Nat \ {0} /\ CacheSize \in 0 .. Half - 1
    BY WordFacts, WebCacheAssumption DEF TypeOK, SizeInv, NoPage
<1>3. IsFiniteSet(CachedBytes') /\ C = B + n
  <2>1. web_cache'[u].len = n /\ \A v \in DOMAIN web_cache : web_cache'[v].len = web_cache[v].len
      BY <1>1
  <2>2. n \in Nat
      BY <1>2, WordFacts
  <2>3. /\ n \in Nat /\ u \notin DOMAIN web_cache /\ DOMAIN web_cache' = DOMAIN web_cache \union {u}
        /\ web_cache'[u].len = n /\ \A v \in DOMAIN web_cache : web_cache'[v].len = web_cache[v].len
        /\ IsFiniteSet(Bytes(web_cache))
      BY <1>1, <1>2, <2>1, <2>2, CachedIsBytes
  <2> HIDE DEF n
  <2>4. /\ IsFiniteSet(Bytes(web_cache'))
        /\ Cardinality(Bytes(web_cache')) = Cardinality(Bytes(web_cache)) + n
      BY <2>3, OnePageMore
  <2> QED BY <2>4, CachedIsBytes
<1>4. B \in Nat /\ CacheSize \in 0 .. Word - 1 /\ Word \in Nat \ {0}
    BY <1>2, FS_CardinalityType, WordFacts
<1>5. Small'
    BY <1>1, <1>2 DEF SizeInv, Small, NoPage
<1> HIDE DEF n, r, B, C
<1>6. cache_sz_remaining' = (r - n) % Word
    BY DEF r, n
<1>7. Exact'
  <2> SUFFICES ASSUME ~oversized PROVE ((r - n) % Word) + C = CacheSize
      BY <1>6 DEF Exact, C
  <2>1. r + B = CacheSize /\ n < Half /\ Int32(r) >= Int32(n)
      BY DEF SizeInv, Exact, Small, r, n, B
  <2>2. r - n \in 0 .. Word - 1
      BY <1>2, <1>4, <2>1 DEF Int32
  <2>3. (r - n) % Word = r - n
      BY <1>4, <2>2
  <2>4. r \in Int /\ n \in Int /\ B \in Int
      BY <1>2, <1>4
  <2> QED BY <1>3, <2>1, <2>3, <2>4
<1>8. Congruent(((r - n) % Word) + C, CacheSize)
  <2>1. PICK k \in Int : r + B = CacheSize + k * Word
      BY DEF SizeInv, Congruent, r, B
  <2>2. PICK j \in Int : (r - n) % Word = (r - n) + j * Word
      BY <1>2, RemainderIsCongruent
  <2>3. ((r - n) % Word) + C = CacheSize + (k + j) * Word
      BY <1>2, <1>3, <1>4, <2>1, <2>2
  <2> QED BY <2>3 DEF Congruent
<1> QED BY <1>3, <1>5, <1>6, <1>7, <1>8 DEF SizeInv, C

LEMMA SameBytes ==
    ASSUME SizeInv, UNCHANGED cache_sz_remaining, DOMAIN web_cache' = DOMAIN web_cache,
           \A u \in DOMAIN web_cache : web_cache'[u].len = web_cache[u].len,
           oversized => oversized', ~oversized' => request'.len < Half
    PROVE  SizeInv'
<1>1. CachedBytes' = CachedBytes
    BY DEF CachedBytes
<1>2. Small' /\ Exact'
    BY <1>1 DEF SizeInv, Small, Exact
<1> QED BY <1>1, <1>2 DEF SizeInv

LEMMA StepSize ==
    ASSUME Inv, SizeInv, Next
    PROVE  SizeInv'
<1>1. TypeOK /\ Wanted /\ (~oversized => request.len < Half)
    BY DEF Inv, SizeInv, Small
<1>2. ASSUME NEW u \in Url, Hit(u) PROVE SizeInv'
  <2>1. CASE policy = "rand"
      BY <1>1, <1>2, <2>1, SameBytes DEF Hit
  <2>2. CASE policy # "rand"
    <3>1. web_cache' = [web_cache EXCEPT ![u].lru = Key] /\ UNCHANGED <<cache_sz_remaining, request, oversized>>
        BY <1>2, <2>2 DEF Hit
    <3>2. DOMAIN web_cache' = DOMAIN web_cache
        BY <3>1
    <3>3. ASSUME NEW v \in DOMAIN web_cache PROVE web_cache'[v].len = web_cache[v].len
      <4>1. web_cache[v] \in [lru : 0 .. Width - 1, len : 0 .. Word - 1]
          BY <1>1 DEF TypeOK
      <4> QED BY <3>1, <4>1
    <3> QED BY <1>1, <3>1, <3>2, <3>3, SameBytes
  <2> QED BY <2>1, <2>2
<1>3. ASSUME NEW u \in Url, EvictRandom(u) PROVE SizeInv'
    BY <1>1, <1>3, PageErased DEF EvictRandom
<1>4. ASSUME NEW u \in Url, NEW n \in Lengths, Fetch(u, n) PROVE SizeInv'
  <2> DEFINE w == n % Word
  <2>1. UNCHANGED <<web_cache, cache_sz_remaining>>
      BY <1>4 DEF Fetch, tables
  <2>2. (oversized => oversized') /\ (~oversized' => request'.len < Half)
    <3>1. CASE Cacheable(w)
      <4>1. request' = [url |-> u, len |-> w] /\ oversized' = (oversized \/ n >= Half)
          BY <1>4, <3>1 DEF Fetch
      <4>2. n \in Nat /\ Half \in Nat /\ Half < Word /\ Word \in Nat
          BY WordFacts, WebCacheAssumption
      <4>3. n < Word => n % Word = n
          BY <4>2
      <4>4. n < Half => w = n
          BY <4>2, <4>3
      <4>5. request'.len = w
          BY <4>1
      <4> HIDE DEF w
      <4>6. ~(n >= Half) => request'.len < Half
          BY <4>2, <4>4, <4>5
      <4> QED BY <4>1, <4>6, Zenon
    <3>2. CASE ~Cacheable(w)
        BY <1>1, <1>4, <3>2 DEF Fetch
    <3> QED BY <3>1, <3>2
  <2> QED BY <2>1, <2>2, SameBytes
<1>5. ASSUME EvictCounted PROVE SizeInv'
  <2> DEFINE u == lru_table[Least(Candidates)].url
  <2>1. /\ web_cache' = Erase(web_cache, u) /\ UNCHANGED <<request, oversized>>
        /\ cache_sz_remaining' = (cache_sz_remaining + Length(u)) % Word
      BY <1>5 DEF EvictCounted
  <2> HIDE DEF u
  <2>2. CASE u \in DOMAIN web_cache
      BY <1>1, <2>1, <2>2, PageErased DEF Length
  <2>3. CASE u \notin DOMAIN web_cache
    <3>1. UNCHANGED cache_sz_remaining
        BY <1>1, <2>1, <2>3, WordFacts DEF Length, TypeOK
    <3>2. DOMAIN web_cache' = DOMAIN web_cache /\ \A v \in DOMAIN web_cache : web_cache'[v] = web_cache[v]
        BY <2>1, <2>3 DEF Erase, Restrict
    <3> QED BY <1>1, <2>1, <3>1, <3>2, SameBytes
  <2> QED BY <2>2, <2>3
<1>6. ASSUME EvictNothing PROVE SizeInv'
    BY <1>1, <1>6, SameBytes DEF EvictNothing, tables
<1>7. ASSUME Insert PROVE SizeInv'
  <2>1. /\ request.url \notin DOMAIN web_cache
        /\ Int32(cache_sz_remaining) >= Int32(request.len)
        /\ cache_sz_remaining' = (cache_sz_remaining - request.len) % Word
        /\ request' = NoPage /\ UNCHANGED oversized
      BY <1>1, <1>7 DEF Insert, Wanted
  <2>2. PICK count : web_cache' = Put(web_cache, request.url, [lru |-> count, len |-> request.len])
      BY <1>7 DEF Insert
  <2>3. [lru |-> count, len |-> request.len].len = request.len
      OBVIOUS
  <2> QED BY <1>1, <2>1, <2>2, <2>3, PagePut
<1> QED BY <1>2, <1>3, <1>4, <1>5, <1>6, <1>7 DEF Next

LEMMA InitSize ==
    ASSUME Init
    PROVE  SizeInv
<1>1. CachedBytes = {} /\ DOMAIN web_cache = {} /\ cache_sz_remaining = CacheSize /\ request.len = 0
    BY DEF Init, CachedBytes, NoPage
<1>2. Cardinality(CachedBytes) = 0 /\ IsFiniteSet(CachedBytes) /\ CacheSize \in Int /\ Word \in Int /\ 0 < Half
    BY <1>1, FS_EmptySet, WordFacts, WebCacheAssumption
<1>3. CacheSize + 0 = CacheSize + 0 * Word
    BY <1>2
<1>4. Congruent(CacheSize + 0, CacheSize)
    BY <1>3 DEF Congruent
<1> QED BY <1>1, <1>2, <1>4 DEF SizeInv, Small, Exact

LEMMA StutterSize ==
    ASSUME SizeInv, UNCHANGED vars
    PROVE  SizeInv'
    BY SameBytes DEF vars, tables, SizeInv, Small

\* In 32-bit words the free size is always that of the cache less the lengths
\* of the pages in it, for every policy, any lengths, pages of 2^31 bytes and
\* more included, and also after the counts have wrapped and the tables
\* disagree; until such a page is admitted it is so in numbers, and the free
\* size is not negative.
THEOREM FreeSizeIsAccounted == Spec => []SizeAccounted
<1>1. Init => SizeInv
    BY InitSize
<1>2. ASSUME Inv, SizeInv, [Next]_vars PROVE SizeInv'
    BY <1>2, StepSize, StutterSize
<1>3. Inv /\ SizeInv => SizeAccounted
  <2> SUFFICES ASSUME Inv, SizeInv PROVE SizeAccounted
      OBVIOUS
  <2> DEFINE r == cache_sz_remaining
             B == Cardinality(CachedBytes)
  <2>1. r \in 0 .. Word - 1 /\ B \in Nat /\ CacheSize \in 0 .. Word - 1 /\ CacheSize < Half /\ Half \in Nat
      BY FS_CardinalityType, WordFacts, WebCacheAssumption DEF Inv, TypeOK, SizeInv
  <2>2. Congruent(r + B, CacheSize) /\ (~oversized => r + B = CacheSize)
      BY DEF SizeInv, Exact
  <2> HIDE DEF r, B
  <2>3. (r + B) % Word = CacheSize
      BY <2>1, <2>2, WordIsRemainder
  <2>4. ~oversized => Int32(r) >= 0
      BY <2>1, <2>2 DEF Int32
  <2> QED BY <2>2, <2>3, <2>4 DEF SizeAccounted, r, B
<1>4. Spec => []SizeInv
    BY <1>1, <1>2, Reachable, PTL DEF Spec
<1> QED BY <1>3, <1>4, Reachable, PTL

-----------------------------------------------------------------------------
(***************************************************************************)
(* Evictions                                                               *)
(***************************************************************************)

\* add_to_cache is called for pages that fit, LRU-MIN's not for empty ones.
Fits == request # NoPage => Cacheable(request.len)

\* A set of numbers up to a bound has a largest one.
LEMMA LargestNumber ==
    ASSUME NEW n \in Nat, NEW K \in SUBSET (0 .. n), K # {}
    PROVE  \E x \in K : \A y \in K : y <= x
<1> DEFINE L == {n - k : k \in K}
<1>1. L \in SUBSET Nat /\ L # {}
  <2>1. \A k \in K : k \in 0 .. n /\ n - k \in Nat
      OBVIOUS
  <2> QED BY <2>1
<1>2. PICK z \in L : \A y \in L : z <= y
    BY <1>1, LeastNumber
<1>3. PICK x \in K : z = n - x
    OBVIOUS
<1>4. ASSUME NEW y \in K PROVE y <= x
  <2>1. n - y \in L
      OBVIOUS
  <2>2. n - x <= n - y
      BY <1>2, <1>3, <2>1
  <2>3. x \in Int /\ y \in Int
      OBVIOUS
  <2> QED BY <2>2, <2>3
<1> QED BY <1>4

\* LRU-MIN's search ends: a size of 1 is reached, which every page has.
LEMMA HalvingFinds ==
    ASSUME TypeOK, request # NoPage, request.len # 0, policy # "lru",
           NEW k \in DOMAIN lru_table, lru_table[k].size > 0
    PROVE  Candidates # {}
<1>1. request.len \in Nat
    BY DEF TypeOK
<1>2. 1 \in Halved
  <2>1. PICK i \in 0 .. request.len : request.len \div pow2[i] = 1
      BY <1>1, HalvedToOne
  <2> QED BY <2>1 DEF Halved
<1>3. Halved \in SUBSET (0 .. request.len)
  <2>1. \A n \in Nat : \A d \in Nat : d > 0 => n \div d \in 0 .. n
    <3> SUFFICES ASSUME NEW n \in Nat, NEW d \in Nat, d > 0 PROVE n \div d \in 0 .. n
        OBVIOUS
    <3>1. n \div d \in Nat
        OBVIOUS
    <3>2. n \div d <= n
        OBVIOUS
    <3> QED BY <3>1, <3>2
  <2>2. \A i \in 0 .. request.len : pow2[i] \in Nat /\ pow2[i] > 0
      BY PowerExceeds
  <2> QED BY <1>1, <2>1, <2>2 DEF Halved
<1> DEFINE K == {h \in Halved : OfSize(h) # {}}
<1>4. 1 \in K
  <2>1. lru_table[k].size \in Nat
      BY DEF TypeOK
  <2> QED BY <1>2, <2>1 DEF OfSize
<1>5. PICK h \in K : \A g \in K : g <= h
    BY <1>1, <1>3, <1>4, LargestNumber
<1>6. \A g \in Halved : g > h => OfSize(g) = {}
  <2>1. \A g \in Halved : g \in Int /\ h \in Int
      BY <1>1, <1>3
  <2>2. \A g \in Halved : g > h => g \notin K
      BY <1>5, <2>1
  <2> QED BY <2>2
<1>7. PICK l : l \in OfSize(h)
    BY <1>5
<1>8. l \in Candidates
    BY <1>5, <1>6, <1>7 DEF Candidates
<1> QED BY <1>8

\* While a page that fits does not fit in, some page has bytes to give back.
LEMMA SomethingToEvict ==
    ASSUME Inv, SizeInv, Fits, NotWrapped, Evicting
    PROVE  IF policy = "rand" THEN DOMAIN web_cache # {} ELSE Candidates # {}
<1>1. /\ TypeOK /\ request # NoPage /\ request.len \in 0 .. Word - 1 /\ Int32(request.len) <= CacheSize
      /\ Int32(cache_sz_remaining) < Int32(request.len) /\ (policy = "minlru" => request.len # 0)
    BY DEF Inv, TypeOK, Evicting, Fits, Cacheable
<1>2. CachedBytes # {}
  <2> SUFFICES ASSUME CachedBytes = {} PROVE FALSE
      OBVIOUS
  <2>1. /\ cache_sz_remaining \in 0 .. Word - 1 /\ CacheSize \in 0 .. Word - 1 /\ CacheSize < Half
        /\ Half \in Nat /\ Word \in Nat \ {0} /\ Half < Word
      BY <1>1, WordFacts, WebCacheAssumption DEF TypeOK
  <2>2. Congruent(cache_sz_remaining, CacheSize)
    <3>1. Cardinality(CachedBytes) = 0
        BY FS_EmptySet
    <3> QED BY <2>1, <3>1 DEF SizeInv
  <2>3. cache_sz_remaining % Word = CacheSize
      BY <2>1, <2>2, WordIsRemainder
  <2>4. cache_sz_remaining % Word = cache_sz_remaining
      BY <2>1
  <2>5. Int32(cache_sz_remaining) = CacheSize
      BY <2>1, <2>3, <2>4 DEF Int32
  <2>6. Int32(request.len) \in Int
      BY <1>1, <2>1 DEF Int32, Word
  <2> QED BY <1>1, <2>1, <2>5, <2>6
<1>3. PICK u \in DOMAIN web_cache : {u} \X (1 .. web_cache[u].len) # {}
    BY <1>2 DEF CachedBytes
<1>4. web_cache[u].len > 0 /\ web_cache[u].len \in Nat
  <2>1. web_cache[u].len \in Nat
      BY <1>1, WordFacts DEF TypeOK
  <2>2. 1 .. web_cache[u].len # {}
      BY <1>3
  <2> QED BY <2>1, <2>2
<1>5. CASE policy = "rand"
    BY <1>5
<1>6. CASE policy # "rand"
  <2>1. PageHasEntry(u)
      BY <1>6 DEF Inv, Agree
  <2>2. CASE policy = "lru"
      BY <2>1, <2>2 DEF PageHasEntry, Candidates
  <2>3. CASE policy # "lru"
    <3>1. policy = "minlru"
        BY <1>1, <1>6, <2>3, WebCacheAssumption DEF TypeOK
    <3>2. web_cache[u].lru \in DOMAIN lru_table /\ lru_table[web_cache[u].lru].size > 0
        BY <1>4, <2>1, <3>1 DEF PageHasEntry
    <3>3. Candidates # {}
        BY <1>1, <2>3, <3>1, <3>2, HalvingFinds
    <3> QED BY <1>6, <3>3
  <2> QED BY <1>6, <2>2, <2>3
<1> QED BY <1>5, <1>6

\* The loop of add_to_cache never finds the cache without a page to evict, as
\* long as the counts have not wrapped, for every policy and any lengths.
THEOREM EvictionAlwaysPossible == Spec => []AlwaysEvictable
<1>1. Init => SizeInv /\ Fits /\ AlwaysEvictable
    BY InitSize DEF Init, Fits, AlwaysEvictable
<1>2. ASSUME Inv, SizeInv, Fits, AlwaysEvictable, [Next]_vars
      PROVE  SizeInv' /\ Fits' /\ AlwaysEvictable'
  <2>1. SizeInv'
      BY <1>2, StepSize, StutterSize
  <2>2. CASE UNCHANGED vars
      BY <1>2, <2>1, <2>2 DEF vars, tables, Fits, Cacheable, AlwaysEvictable, NotWrapped
  <2>3. CASE Next
    <3>1. Fits' /\ glru_count \in Nat
      <4>1. glru_count \in Nat
          BY <1>2 DEF Inv, TypeOK
      <4>2. UNCHANGED policy /\ (UNCHANGED request \/ request' = NoPage \/ Cacheable(request'.len))
        <5>1. ASSUME NEW u \in Url, NEW n \in Lengths, Fetch(u, n)
              PROVE  UNCHANGED policy /\ (UNCHANGED request \/ Cacheable(request'.len))
          <6>1. [url |-> u, len |-> n % Word].len = n % Word
              OBVIOUS
          <6> QED BY <5>1, <6>1 DEF Fetch
        <5> QED BY <2>3, <5>1 DEF Next, Hit, EvictRandom, EvictCounted, EvictNothing, Insert
      <4> QED BY <1>2, <4>1, <4>2 DEF Fits, Cacheable
    <3>2. glru_count' \in {glru_count, glru_count + 1}
        BY <2>3 DEF Next, Hit, EvictRandom, Fetch, EvictCounted, EvictNothing, Insert, tables
    <3>3. NotWrapped' => NotWrapped
        BY <3>1, <3>2, WebCacheAssumption DEF NotWrapped
    <3>4. NotWrapped => ~EvictNothing
        BY <1>2, SomethingToEvict DEF EvictNothing
    <3>5. ~EvictNothing => UNCHANGED stuck
        BY <2>3 DEF Next, Hit, EvictRandom, Fetch, EvictCounted, Insert
    <3> QED BY <1>2, <2>1, <3>1, <3>3, <3>4, <3>5 DEF AlwaysEvictable
  <2> QED BY <1>2, <2>2, <2>3
<1>3. Spec => [](SizeInv /\ Fits /\ AlwaysEvictable)
    BY <1>1, <1>2, Reachable, PTL DEF Spec
<1> QED BY <1>3, PTL

-----------------------------------------------------------------------------
(***************************************************************************)
(* The order of use                                                        *)
(***************************************************************************)

\* The members of D that come before u, and how many they are.
Earlier(D, c, u) == {v \in D : c[v] < c[u]}
Rank(D, c, u) == Cardinality(Earlier(D, c, u))

Distinct(D, c) ==
    /\ IsFiniteSet(D)
    /\ \A u \in D : c[u] \in Nat
    /\ \A u, v \in D : c[u] = c[v] => u = v

\* A later member has more before it, and fewer than all.
LEMMA RankGrows ==
    ASSUME NEW D, NEW c, Distinct(D, c)
    PROVE  /\ Cardinality(D) \in Nat
           /\ \A u \in D : Rank(D, c, u) \in 0 .. Cardinality(D) - 1
           /\ \A u, v \in D : c[u] < c[v] => Rank(D, c, u) < Rank(D, c, v)
<1>1. IsFiniteSet(D) /\ Cardinality(D) \in Nat
    BY FS_CardinalityType DEF Distinct
<1>2. ASSUME NEW u \in D
      PROVE  /\ IsFiniteSet(Earlier(D, c, u)) /\ Rank(D, c, u) \in Nat
             /\ Rank(D, c, u) < Cardinality(D)
  <2>1. Earlier(D, c, u) \in SUBSET D /\ u \notin Earlier(D, c, u) /\ Earlier(D, c, u) # D
      BY DEF Earlier, Distinct
  <2>2. IsFiniteSet(Earlier(D, c, u))
      BY <1>1, <2>1, FS_Subset
  <2>3. Rank(D, c, u) \in Nat
      BY <2>2, FS_CardinalityType DEF Rank
  <2>4. Rank(D, c, u) <= Cardinality(D) /\ Cardinality(D) # Rank(D, c, u)
      BY <1>1, <2>1, FS_Subset DEF Rank
  <2> QED BY <1>1, <2>2, <2>3, <2>4
<1>3. ASSUME NEW u \in D, NEW v \in D, c[u] < c[v]
      PROVE  Rank(D, c, u) < Rank(D, c, v)
  <2>1. Earlier(D, c, u) \in SUBSET Earlier(D, c, v) /\ Earlier(D, c, u) # Earlier(D, c, v)
      BY <1>3 DEF Earlier, Distinct
  <2>2. /\ Rank(D, c, u) <= Rank(D, c, v)
        /\ Rank(D, c, v) = Rank(D, c, u) => Earlier(D, c, v) = Earlier(D, c, u)
      BY <1>2, <2>1, FS_Subset DEF Rank
  <2>3. Rank(D, c, u) \in Nat /\ Rank(D, c, v) \in Nat
      BY <1>2
  <2> QED BY <2>1, <2>2, <2>3
<1> QED BY <1>1, <1>2, <1>3

\* Every rank below the number of members is somebody's.
LEMMA RankOnto ==
    ASSUME NEW D, NEW c, Distinct(D, c)
    PROVE  \A i \in 1 .. Cardinality(D) : \E u \in D : Rank(D, c, u) = i - 1
<1> DEFINE n == Cardinality(D)
           f == [u \in D |-> Rank(D, c, u)]
<1>1. n \in Nat /\ \A u \in D : Rank(D, c, u) \in 0 .. n - 1
    BY RankGrows
<1>2. f \in [D -> 0 .. n - 1]
    BY <1>1
<1>3. ASSUME NEW u \in D, NEW v \in D, f[u] = f[v] PROVE u = v
  <2>1. ~(c[u] < c[v]) /\ ~(c[v] < c[u])
    <3>1. Rank(D, c, u) = Rank(D, c, v) /\ Rank(D, c, u) \in Int /\ Rank(D, c, v) \in Int
        BY <1>1, <1>3
    <3> QED BY <3>1, RankGrows
  <2> QED BY <2>1 DEF Distinct
<1>4. f \in Injection(D, 0 .. n - 1)
    BY <1>2, <1>3 DEF Injection, IsInjective
<1>5. IsFiniteSet(0 .. n - 1) /\ Cardinality(0 .. n - 1) = n
    BY <1>1, FS_Interval
<1>6. f \in Surjection(D, 0 .. n - 1)
    BY <1>4, <1>5, FS_Injection
<1>7. \A r \in 0 .. n - 1 : \E u \in D : Rank(D, c, u) = r
    BY <1>6 DEF Surjection
<1>8. \A i \in 1 .. n : i - 1 \in 0 .. n - 1
    BY <1>1
<1> QED BY <1>7, <1>8

\* InOrder lists the members by their ranks.
LEMMA Ordered ==
    ASSUME NEW D, NEW c, Distinct(D, c)
    PROVE  /\ DOMAIN InOrder(D, c) = 1 .. Cardinality(D)
           /\ \A i \in 1 .. Cardinality(D) :
                  InOrder(D, c)[i] \in D /\ Rank(D, c, InOrder(D, c)[i]) = i - 1
           /\ \A u \in D : /\ Rank(D, c, u) + 1 \in 1 .. Cardinality(D)
                           /\ InOrder(D, c)[Rank(D, c, u) + 1] = u
<1> DEFINE n == Cardinality(D)
           s == InOrder(D, c)
<1>1. n \in Nat /\ \A u \in D : Rank(D, c, u) \in 0 .. n - 1
    BY RankGrows
<1>2. DOMAIN s = 1 .. n
    BY DEF InOrder
<1>3. ASSUME NEW i \in 1 .. n PROVE s[i] \in D /\ Rank(D, c, s[i]) = i - 1
  <2>1. s[i] = CHOOSE u \in D : Rank(D, c, u) = i - 1
      BY DEF InOrder, Rank, Earlier
  <2>2. \E u \in D : Rank(D, c, u) = i - 1
      BY RankOnto
  <2> HIDE DEF s
  <2> QED BY <2>1, <2>2
<1>4. ASSUME NEW u \in D PROVE Rank(D, c, u) + 1 \in 1 .. n /\ s[Rank(D, c, u) + 1] = u
  <2> DEFINE i == Rank(D, c, u) + 1
             v == s[i]
  <2>1. Rank(D, c, u) \in 0 .. n - 1
      BY <1>1
  <2>2. i \in 1 .. n
      BY <1>1, <2>1
  <2>3. v \in D /\ Rank(D, c, v) = i - 1
      BY <1>3, <2>2
  <2>4. Rank(D, c, v) = Rank(D, c, u)
      BY <2>1, <2>3
  <2> HIDE DEF v
  <2>5. ~(c[u] < c[v]) /\ ~(c[v] < c[u])
      BY <2>1, <2>3, <2>4, RankGrows
  <2>6. u = v
      BY <2>3, <2>5 DEF Distinct
  <2> QED BY <2>2, <2>6 DEF v
<1> QED BY <1>2, <1>3, <1>4

\* t is s, of n members, without its p-th, and s with x at its end.
Shorter(t, s, n, p) == \A j \in 1 .. n - 1 : t[j] = IF j < p THEN s[j] ELSE s[j + 1]
Longer(t, s, n, x) == (\A j \in 1 .. n : t[j] = s[j]) /\ t[n + 1] = x

\* What is left when a member goes keeps its order.
Loses(D, c, x, e) == Distinct(D, c) /\ x \in D /\ \A v \in D \ {x} : e[v] = c[v]
LEMMA OneLess ==
    ASSUME NEW D, NEW c, NEW x, NEW e, Loses(D, c, x, e), NEW p, p = Rank(D, c, x) + 1
    PROVE  /\ Distinct(D \ {x}, e) /\ Cardinality(D \ {x}) = Cardinality(D) - 1
           /\ p \in 1 .. Cardinality(D)
           /\ Shorter(InOrder(D \ {x}, e), InOrder(D, c), Cardinality(D), p)
<1> DEFINE n == Cardinality(D)
           C == D \ {x}
           s == InOrder(D, c)
<1>0. Distinct(D, c) /\ x \in D /\ \A v \in D \ {x} : e[v] = c[v]
    BY DEF Loses
<1> USE <1>0
<1>1. IsFiniteSet(C) /\ Cardinality(C) = n - 1
    BY FS_RemoveElement DEF Distinct
<1>2. Distinct(C, e)
    BY <1>1 DEF Distinct
<1>3. n \in Nat /\ p \in 1 .. n /\ s[p] = x /\ Rank(D, c, x) \in Nat
    BY RankGrows, Ordered
<1>4. ASSUME NEW v \in C
      PROVE  Rank(C, e, v) = IF c[x] < c[v] THEN Rank(D, c, v) - 1 ELSE Rank(D, c, v)
  <2>1. Earlier(C, e, v) = Earlier(D, c, v) \ {x}
      BY DEF Earlier
  <2>2. IsFiniteSet(Earlier(D, c, v))
      BY FS_Subset DEF Earlier, Distinct
  <2>3. Cardinality(Earlier(D, c, v) \ {x}) =
            IF x \in Earlier(D, c, v) THEN Rank(D, c, v) - 1 ELSE Rank(D, c, v)
      BY <2>2, FS_RemoveElement DEF Rank
  <2>4. x \in Earlier(D, c, v) <=> c[x] < c[v]
      BY DEF Earlier
  <2> QED BY <2>1, <2>3, <2>4 DEF Rank
<1>5. ASSUME NEW i \in 1 .. n, i # p
      PROVE  s[i] \in C /\ Rank(C, e, s[i]) = IF i < p THEN i - 1 ELSE i - 2
  <2> DEFINE v == s[i]
  <2>1. v \in D /\ Rank(D, c, v) = i - 1
      BY Ordered
  <2>2. v # x
      BY <1>3, <1>5, <2>1
  <2> HIDE DEF v
  <2>3. (c[x] < c[v] => p < i) /\ (c[v] < c[x] => i < p)
      BY <1>3, <2>1, RankGrows
  <2>4. c[x] \in Nat /\ c[v] \in Nat /\ c[x] # c[v]
      BY <2>1, <2>2 DEF Distinct
  <2>5. c[x] < c[v] <=> ~(i < p)
      BY <1>3, <1>5, <2>3, <2>4
  <2>6. v \in C /\ Rank(C, e, v) = IF i < p THEN i - 1 ELSE i - 2
    <3>1. Rank(C, e, v) = IF c[x] < c[v] THEN Rank(D, c, v) - 1 ELSE Rank(D, c, v)
        BY <1>4, <2>1, <2>2
    <3>2. Rank(D, c, v) - 1 = i - 2
        BY <2>1
    <3> QED BY <2>1, <2>2, <2>5, <3>1, <3>2
  <2> QED BY <2>6 DEF v
<1>6. ASSUME NEW j \in 1 .. n - 1
      PROVE  InOrder(C, e)[j] = IF j < p THEN s[j] ELSE s[j + 1]
  <2> DEFINE i == IF j < p THEN j ELSE j + 1
  <2>1. i \in 1 .. n /\ i # p /\ (i < p <=> j < p)
      BY <1>3
  <2>2. s[i] \in C /\ Rank(C, e, s[i]) = j - 1
    <3>1. s[i] \in C /\ Rank(C, e, s[i]) = IF i < p THEN i - 1 ELSE i - 2
        BY <1>5, <2>1
    <3>2. (IF i < p THEN i - 1 ELSE i - 2) = j - 1
        BY <1>3
    <3> HIDE DEF i
    <3> QED BY <3>1, <3>2
  <2>3. InOrder(C, e)[Rank(C, e, s[i]) + 1] = s[i]
      BY <1>2, <2>2, Ordered
  <2>4. InOrder(C, e)[j] = s[i]
      BY <2>2, <2>3
  <2> QED BY <2>4
<1>7. Shorter(InOrder(C, e), s, n, p)
    BY <1>6 DEF Shorter
<1> QED BY <1>1, <1>2, <1>3, <1>7

\* A new member with the largest count comes last.
Gains(D, c, x, e) ==
    /\ Distinct(D, c) /\ x \notin D /\ e[x] \in Nat
    /\ \A v \in D : e[v] = c[v] /\ c[v] < e[x]
LEMMA OneMore ==
    ASSUME NEW D, NEW c, NEW x, NEW e, Gains(D, c, x, e)
    PROVE  /\ Distinct(D \union {x}, e) /\ Cardinality(D \union {x}) = Cardinality(D) + 1
           /\ Longer(InOrder(D \union {x}, e), InOrder(D, c), Cardinality(D), x)
<1> DEFINE n == Cardinality(D)
           C == D \union {x}
           s == InOrder(D, c)
<1>0. Distinct(D, c) /\ x \notin D /\ e[x] \in Nat /\ \A v \in D : e[v] = c[v] /\ c[v] < e[x]
    BY DEF Gains
<1> USE <1>0
<1>1. IsFiniteSet(C) /\ Cardinality(C) = n + 1 /\ n \in Nat
    BY FS_AddElement, FS_CardinalityType DEF Distinct
<1>2. Distinct(C, e)
  <2>1. \A u \in C : e[u] \in Nat
      BY DEF Distinct
  <2>2. ASSUME NEW u \in C, NEW v \in C, e[u] = e[v] PROVE u = v
      BY <2>2 DEF Distinct
  <2> QED BY <1>1, <2>1, <2>2 DEF Distinct
<1>3. Rank(C, e, x) = n
  <2>1. Earlier(C, e, x) = D
      BY DEF Earlier
  <2> QED BY <2>1 DEF Rank
<1>4. ASSUME NEW v \in D PROVE Rank(C, e, v) = Rank(D, c, v)
  <2>1. ~(e[x] < e[v])
      BY DEF Distinct
  <2>2. Earlier(C, e, v) = Earlier(D, c, v)
      BY <2>1 DEF Earlier
  <2> QED BY <2>2 DEF Rank
<1>5. ASSUME NEW j \in 1 .. n PROVE InOrder(C, e)[j] = s[j]
  <2>1. s[j] \in D /\ Rank(D, c, s[j]) = j - 1
      BY Ordered
  <2>2. Rank(C, e, s[j]) + 1 = j
    <3>1. Rank(C, e, s[j]) = j - 1
        BY <1>4, <2>1
    <3> QED BY <3>1
  <2>3. InOrder(C, e)[Rank(C, e, s[j]) + 1] = s[j]
      BY <1>2, <2>1, Ordered
  <2> QED BY <2>2, <2>3
<1>6. InOrder(C, e)[n + 1] = x
    BY <1>2, <1>3, Ordered
<1>7. Longer(InOrder(C, e), s, n, x)
    BY <1>5, <1>6 DEF Longer
<1> QED BY <1>1, <1>2, <1>7

\* A sequence without its p-th member, and with one more.
Skips(S, n, s, p, t) ==
    /\ n \in Nat /\ p \in 1 .. n /\ s \in [1 .. n -> S] /\ t \in [1 .. n - 1 -> S]
    /\ Shorter(t, s, n, p)
LEMMA Without ==
    ASSUME NEW S, NEW n, NEW s, NEW p, NEW t, Skips(S, n, s, p, t)
    PROVE  t = SubSeq(s, 1, p - 1) \o SubSeq(s, p + 1, Len(s))
<1> DEFINE a == SubSeq(s, 1, p - 1)
           b == SubSeq(s, p + 1, n)
<1>0. /\ n \in Nat /\ p \in 1 .. n /\ s \in [1 .. n -> S] /\ t \in [1 .. n - 1 -> S]
      /\ \A j \in 1 .. n - 1 : t[j] = IF j < p THEN s[j] ELSE s[j + 1]
    BY DEF Skips, Shorter
<1> USE <1>0
<1>1. s \in Seq(S) /\ Len(s) = n /\ t \in Seq(S) /\ Len(t) = n - 1
    OBVIOUS
<1>2. a \in Seq(S) /\ Len(a) = p - 1 /\ \A i \in 1 .. p - 1 : a[i] = s[i]
  <2>1. \A i \in 1 .. p - 1 : s[i] \in S
      OBVIOUS
  <2> QED BY <2>1, SubSeqProperties
<1>3. b \in Seq(S) /\ Len(b) = n - p /\ \A i \in 1 .. n - p : b[i] = s[p + i]
  <2>1. \A i \in p + 1 .. n : s[i] \in S
      OBVIOUS
  <2> QED BY <2>1, SubSeqProperties
<1> HIDE DEF a, b
<1>4. /\ a \o b \in Seq(S) /\ Len(a \o b) = n - 1
      /\ \A i \in 1 .. n - 1 : (a \o b)[i] = IF i <= p - 1 THEN a[i] ELSE b[i - (p - 1)]
  <2>1. Len(a) + Len(b) = n - 1
      BY <1>2, <1>3
  <2>2. /\ a \o b \in Seq(S) /\ Len(a \o b) = Len(a) + Len(b)
        /\ \A i \in 1 .. Len(a) + Len(b) : (a \o b)[i] = IF i <= Len(a) THEN a[i] ELSE b[i - Len(a)]
      BY <1>2, <1>3, ConcatProperties
  <2> QED BY <1>2, <2>1, <2>2
<1>5. ASSUME NEW i \in 1 .. n - 1 PROVE (a \o b)[i] = t[i]
  <2>1. CASE i < p
      BY <1>2, <1>4, <2>1
  <2>2. CASE ~(i < p)
    <3>1. i - (p - 1) \in 1 .. n - p /\ p + (i - (p - 1)) = i + 1
        BY <2>2
    <3> QED BY <1>3, <1>4, <2>2, <3>1
  <2> QED BY <2>1, <2>2
<1>6. t = a \o b
    BY <1>1, <1>4, <1>5, SeqEqual
<1> QED BY <1>1, <1>6 DEF a, b

LEMMA Appended ==
    ASSUME NEW S, NEW n \in Nat, NEW s \in [1 .. n -> S], NEW x \in S,
           NEW t \in [1 .. n + 1 -> S], Longer(t, s, n, x)
    PROVE  t = Append(s, x)
<1> USE DEF Longer
<1>1. s \in Seq(S) /\ Len(s) = n /\ t \in Seq(S) /\ Len(t) = n + 1
    OBVIOUS
<1>2. /\ Append(s, x) \in Seq(S) /\ Len(Append(s, x)) = n + 1
      /\ \A i \in 1 .. n : Append(s, x)[i] = s[i]
      /\ Append(s, x)[n + 1] = x
    BY <1>1, AppendProperties
<1>3. ASSUME NEW i \in 1 .. n + 1 PROVE Append(s, x)[i] = t[i]
    BY <1>2
<1> QED BY <1>1, <1>2, <1>3, SeqEqual

-----------------------------------------------------------------------------
(***************************************************************************)
(* The pages of a cache f by recency of use, as PageCache sees them        *)
(***************************************************************************)
Page == [url : Url, len : Nat]
CountsOf(f) == [u \in DOMAIN f |-> f[u].lru]
OrderOf(f) == InOrder(DOMAIN f, CountsOf(f))
PageIn(f, u) == [url |-> u, len |-> f[u].len]
PagesOf(f) == [i \in DOMAIN OrderOf(f) |-> PageIn(f, OrderOf(f)[i])]
Place(f, u) == Rank(DOMAIN f, CountsOf(f), u) + 1
RemovedAt(s, p) == SubSeq(s, 1, p - 1) \o SubSeq(s, p + 1, Len(s))

\* No two pages have the same count.
Ordinary(f) ==
    /\ Distinct(DOMAIN f, CountsOf(f))
    /\ \A u \in DOMAIN f : u \in Url /\ f[u].len \in Nat

Listing(f, n) ==
    /\ n \in Nat /\ DOMAIN OrderOf(f) = 1 .. n /\ PagesOf(f) \in [1 .. n -> Page]
    /\ \A i \in 1 .. n : /\ OrderOf(f)[i] \in DOMAIN f /\ Place(f, OrderOf(f)[i]) = i
                         /\ PagesOf(f)[i] = PageIn(f, OrderOf(f)[i])
    /\ \A u \in DOMAIN f : /\ Place(f, u) \in 1 .. n /\ OrderOf(f)[Place(f, u)] = u
                           /\ PagesOf(f)[Place(f, u)] = PageIn(f, u)

LEMMA Listed ==
    ASSUME NEW f, Ordinary(f)
    PROVE  Listing(f, Cardinality(DOMAIN f))
<1> DEFINE n == Cardinality(DOMAIN f)
<1>1. Distinct(DOMAIN f, CountsOf(f))
    BY DEF Ordinary
<1>2. /\ n \in Nat /\ DOMAIN OrderOf(f) = 1 .. n
      /\ \A i \in 1 .. n : OrderOf(f)[i] \in DOMAIN f /\ Place(f, OrderOf(f)[i]) = i
      /\ \A u \in DOMAIN f : Place(f, u) \in 1 .. n /\ OrderOf(f)[Place(f, u)] = u
    BY <1>1, Ordered, RankGrows DEF Place, OrderOf
<1>3. \A u \in DOMAIN f : PageIn(f, u) \in Page
    BY DEF Ordinary, PageIn, Page
<1>4. PagesOf(f) \in [1 .. n -> Page] /\ \A i \in 1 .. n : PagesOf(f)[i] = PageIn(f, OrderOf(f)[i])
    BY <1>2, <1>3 DEF PagesOf
<1> QED BY <1>2, <1>4 DEF Listing

\* The pages are in the order of their counts.
LEMMA PlaceGrows ==
    ASSUME NEW f, Ordinary(f), NEW u \in DOMAIN f, NEW v \in DOMAIN f, f[u].lru < f[v].lru
    PROVE  Place(f, u) < Place(f, v)
<1> DEFINE c == CountsOf(f)
<1>1. Distinct(DOMAIN f, c) /\ c[u] < c[v]
    BY DEF Ordinary, CountsOf
<1> HIDE DEF c
<1>2. /\ Cardinality(DOMAIN f) \in Nat
      /\ Rank(DOMAIN f, c, u) \in 0 .. Cardinality(DOMAIN f) - 1
      /\ Rank(DOMAIN f, c, v) \in 0 .. Cardinality(DOMAIN f) - 1
      /\ Rank(DOMAIN f, c, u) < Rank(DOMAIN f, c, v)
    BY <1>1, RankGrows
<1> QED BY <1>2 DEF Place, c

\* A page leaves the cache: it leaves the list.
LEMMA PageLeaves ==
    ASSUME NEW f, Ordinary(f), NEW u \in DOMAIN f,
           NEW g, DOMAIN g = DOMAIN f \ {u}, \A v \in DOMAIN g : g[v] = f[v]
    PROVE  Ordinary(g) /\ PagesOf(g) = RemovedAt(PagesOf(f), Place(f, u))
<1> DEFINE n == Cardinality(DOMAIN f)
           s == OrderOf(f)
           t == OrderOf(g)
           p == Place(f, u)
<1>1. Distinct(DOMAIN f, CountsOf(f)) /\ \A v \in DOMAIN f \ {u} : CountsOf(g)[v] = CountsOf(f)[v]
    BY DEF Ordinary, CountsOf
<1>2. /\ Distinct(DOMAIN g, CountsOf(g)) /\ Cardinality(DOMAIN g) = n - 1 /\ p \in 1 .. n
      /\ Shorter(t, s, n, p)
  <2> DEFINE c == CountsOf(f)
             e == CountsOf(g)
             D == DOMAIN f
  <2>1. Loses(D, c, u, e) /\ p = Rank(D, c, u) + 1
      BY <1>1 DEF Place, Loses
  <2>2. OrderOf(f) = InOrder(D, c) /\ OrderOf(g) = InOrder(D \ {u}, e) /\ DOMAIN g = D \ {u}
        /\ n = Cardinality(D)
      BY DEF OrderOf
  <2> HIDE DEF c, e, D, p, n
  <2>3. /\ Distinct(D \ {u}, e) /\ Cardinality(D \ {u}) = Cardinality(D) - 1
        /\ p \in 1 .. Cardinality(D)
        /\ Shorter(InOrder(D \ {u}, e), InOrder(D, c), Cardinality(D), p)
      BY <2>1, OneLess
  <2> QED BY <2>2, <2>3 DEF e
<1>3. Ordinary(g)
    BY <1>2 DEF Ordinary
<1>4. /\ n \in Nat /\ PagesOf(f) \in [1 .. n -> Page]
      /\ \A i \in 1 .. n : s[i] \in DOMAIN f /\ PagesOf(f)[i] = PageIn(f, s[i])
    BY Listed DEF Listing
<1>5. /\ PagesOf(g) \in [1 .. n - 1 -> Page]
      /\ \A i \in 1 .. n - 1 : t[i] \in DOMAIN g /\ PagesOf(g)[i] = PageIn(g, t[i])
    BY <1>2, <1>3, Listed DEF Listing
<1>6. \A v \in DOMAIN g : PageIn(g, v) = PageIn(f, v)
    BY DEF PageIn
<1> HIDE DEF n, s, t, p
<1>7. ASSUME NEW j \in 1 .. n - 1
      PROVE  PagesOf(g)[j] = IF j < p THEN PagesOf(f)[j] ELSE PagesOf(f)[j + 1]
  <2>1. j \in 1 .. n /\ j + 1 \in 1 .. n
      BY <1>4
  <2> QED BY <1>2, <1>4, <1>5, <1>6, <2>1 DEF Shorter
<1> DEFINE x == PagesOf(f)
           y == PagesOf(g)
<1>8. Skips(Page, n, x, p, y)
    BY <1>2, <1>4, <1>5, <1>7 DEF Skips, Shorter
<1> HIDE DEF x, y
<1>9. y = SubSeq(x, 1, p - 1) \o SubSeq(x, p + 1, Len(x))
    BY <1>8, Without
<1> QED BY <1>3, <1>9 DEF RemovedAt, x, y, p

\* A page with the largest count comes into the cache: it comes last.
LEMMA PageComes ==
    ASSUME NEW f, Ordinary(f), NEW u \in Url, u \notin DOMAIN f,
           NEW g, DOMAIN g = DOMAIN f \union {u}, \A v \in DOMAIN f : g[v] = f[v],
           g[u].lru \in Nat, g[u].len \in Nat, \A v \in DOMAIN f : f[v].lru < g[u].lru
    PROVE  PagesOf(g) = Append(PagesOf(f), PageIn(g, u))
<1> DEFINE n == Cardinality(DOMAIN f)
           s == OrderOf(f)
           t == OrderOf(g)
<1>1. /\ Distinct(DOMAIN g, CountsOf(g)) /\ Cardinality(DOMAIN g) = n + 1
      /\ Longer(t, s, n, u)
  <2> DEFINE c == CountsOf(f)
             e == CountsOf(g)
             D == DOMAIN f
  <2>1. Gains(D, c, u, e)
      BY DEF Ordinary, CountsOf, Gains
  <2>2. /\ OrderOf(f) = InOrder(D, c) /\ OrderOf(g) = InOrder(D \union {u}, e)
        /\ DOMAIN g = D \union {u} /\ n = Cardinality(D)
      BY DEF OrderOf
  <2> HIDE DEF c, e, D, n
  <2>3. /\ Distinct(D \union {u}, e) /\ Cardinality(D \union {u}) = Cardinality(D) + 1
        /\ Longer(InOrder(D \union {u}, e), InOrder(D, c), Cardinality(D), u)
      BY <2>1, OneMore
  <2> QED BY <2>2, <2>3 DEF e
<1>2. Ordinary(g)
    BY <1>1 DEF Ordinary
<1>3. /\ n \in Nat /\ PagesOf(f) \in [1 .. n -> Page]
      /\ \A i \in 1 .. n : s[i] \in DOMAIN f /\ PagesOf(f)[i] = PageIn(f, s[i])
    BY Listed DEF Listing
<1>4. /\ PagesOf(g) \in [1 .. n + 1 -> Page]
      /\ \A i \in 1 .. n + 1 : t[i] \in DOMAIN g /\ PagesOf(g)[i] = PageIn(g, t[i])
  <2>1. Listing(g, n + 1)
      BY <1>1, <1>2, Listed
  <2> QED BY <2>1 DEF Listing
<1>5. \A v \in DOMAIN f : PageIn(g, v) = PageIn(f, v)
    BY DEF PageIn
<1> HIDE DEF n, s, t
<1>6. n + 1 \in 1 .. n + 1 /\ \A j \in 1 .. n : j \in 1 .. n + 1
    BY <1>3
<1>7. \A j \in 1 .. n : PagesOf(g)[j] = PagesOf(f)[j]
    BY <1>1, <1>3, <1>4, <1>5, <1>6 DEF Longer
<1>8. PagesOf(g)[n + 1] = PageIn(g, u) /\ PageIn(g, u) \in Page
    BY <1>1, <1>4, <1>6 DEF PageIn, Page, Longer
<1> DEFINE x == PagesOf(f)
           y == PagesOf(g)
           z == PageIn(g, u)
<1>9. /\ x \in [1 .. n -> Page] /\ y \in [1 .. n + 1 -> Page] /\ z \in Page
      /\ Longer(y, x, n, z)
    BY <1>3, <1>4, <1>7, <1>8 DEF Longer
<1> HIDE DEF x, y, z
<1>10. y = Append(x, z)
    BY <1>3, <1>9, Appended
<1> QED BY <1>10 DEF x, y, z

\* The position that SelectInSeq finds.
LEMMA FirstPlace ==
    ASSUME NEW I \in SUBSET Nat, NEW p \in I, \A i \in I : p <= i
    PROVE  (IF I # {} THEN CHOOSE x \in I : \A y \in I : x <= y ELSE 0) = p
<1>1. \A x \in I : (\A y \in I : x <= y) => x = p
    OBVIOUS
<1> QED BY <1>1

-----------------------------------------------------------------------------
(***************************************************************************)
(* The steps of the cache are those of PageCache                           *)
(***************************************************************************)
FinitePages == IsFiniteSet(DOMAIN web_cache)

\* What PageCache's list of pages stands for.
Pages == [i \in DOMAIN Recency |-> PageOf(Recency[i])]

LEMMA TheList ==
    /\ PagesOf(web_cache) = [i \in DOMAIN Recency |-> PageOf(Recency[i])]
    /\ PagesOf(web_cache') = [i \in DOMAIN Recency |-> PageOf(Recency[i])]'
    BY DEF PagesOf, OrderOf, CountsOf, Recency, PageOf, PageIn

\* Before any wrap the pages have counts of their own, below the next one.
LEMMA OwnCounts ==
    ASSUME Inv, FinitePages, NotWrapped, policy # "rand"
    PROVE  /\ Ordinary(web_cache)
           /\ \A u \in DOMAIN web_cache : web_cache[u].lru < glru_count
<1>1. TypeOK /\ Agree /\ Given
    BY DEF Inv
<1>2. ASSUME NEW u \in DOMAIN web_cache
      PROVE  /\ web_cache[u].lru \in Nat /\ u \in Url /\ web_cache[u].len \in Nat
             /\ lru_table[web_cache[u].lru].url = u /\ web_cache[u].lru < glru_count
    BY <1>1, WebCacheAssumption DEF TypeOK, Agree, PageHasEntry, Given
<1>3. Distinct(DOMAIN web_cache, CountsOf(web_cache))
    BY <1>2 DEF Distinct, CountsOf, FinitePages
<1> QED BY <1>2, <1>3 DEF Ordinary

\* A hit moves the page to the end of the list.
LEMMA HitIsUse ==
    ASSUME Inv, FinitePages, NEW u \in Url, Hit(u), NotWrapped', policy # "rand"
    PROVE  Abstract!Use(u)
<1> DEFINE f == web_cache
           g == web_cache'
           h == Erase(f, u)
           p == Place(f, u)
<1>1. /\ u \in DOMAIN f /\ glru_count' = glru_count + 1 /\ TypeOK
      /\ g = [f EXCEPT ![u].lru = Key]
    BY DEF Hit, Inv
<1>2. glru_count + 1 <= Width /\ Key = glru_count /\ glru_count \in Nat /\ Width \in Nat
    BY <1>1, KeyFacts, WebCacheAssumption DEF NotWrapped, TypeOK
<1>3. NotWrapped
    BY <1>2 DEF NotWrapped
<1>4. Ordinary(f) /\ \A v \in DOMAIN f : f[v].lru < glru_count
    BY <1>3, OwnCounts
<1>5. f[u] \in [lru : 0 .. Width - 1, len : 0 .. Word - 1]
    BY <1>1 DEF TypeOK
<1>6. DOMAIN h = DOMAIN f \ {u} /\ \A v \in DOMAIN h : h[v] = f[v]
    BY EraseFacts
<1>7. /\ DOMAIN g = DOMAIN f /\ \A v \in DOMAIN f \ {u} : g[v] = f[v]
      /\ g[u].lru = glru_count /\ g[u].len = f[u].len /\ f[u].len \in Nat
    BY <1>1, <1>2, <1>5
<1>8. PagesOf(f) = Pages /\ PagesOf(g) = Pages'
    BY TheList DEF Pages
<1> HIDE DEF f, g, h, p
<1>9. Ordinary(h) /\ PagesOf(h) = RemovedAt(Pages, p)
    BY <1>1, <1>4, <1>6, <1>8, PageLeaves DEF p
<1>10. PagesOf(g) = Append(PagesOf(h), PageIn(g, u))
  <2>1. /\ u \notin DOMAIN h /\ DOMAIN g = DOMAIN h \union {u} /\ \A v \in DOMAIN h : g[v] = h[v]
        /\ g[u].lru \in Nat /\ g[u].len \in Nat /\ \A v \in DOMAIN h : h[v].lru < g[u].lru
      BY <1>1, <1>2, <1>4, <1>6, <1>7
  <2> QED BY <1>9, <2>1, PageComes
<1>11. PageIn(g, u) = PageIn(f, u)
    BY <1>7 DEF PageIn
<1> DEFINE n == Cardinality(DOMAIN f)
<1>12. /\ n \in Nat /\ Pages \in [1 .. n -> Page] /\ p \in 1 .. n /\ Pages[p] = PageIn(f, u)
       /\ \A i \in 1 .. n : Pages[i].url = u => p = i
  <2>1. Listing(f, n)
      BY <1>4, Listed
  <2> QED BY <1>1, <1>8, <2>1 DEF Listing, PageIn, p
<1> HIDE DEF n
<1> DEFINE I == {i \in 1 .. Len(Pages) : Pages[i].url = u}
<1>13. (IF I # {} THEN CHOOSE x \in I : \A y \in I : x <= y ELSE 0) = p
  <2>1. Len(Pages) = n
      BY <1>12
  <2>2. I \in SUBSET Nat /\ p \in I /\ \A i \in I : p <= i
      BY <1>12, <2>1 DEF PageIn
  <2> HIDE DEF I
  <2> QED BY <2>2, FirstPlace
<1>14. p # 0 /\ Pages' = Append(RemovedAt(Pages, p), Pages[p])
    BY <1>8, <1>9, <1>10, <1>11, <1>12
<1> QED BY <1>13, <1>14
        DEF Abstract!Use, Abstract!SelectInSeq, Abstract!Min, Abstract!RemoveAt, RemovedAt, Pages

\* A page comes into the cache at the end of the list.
LEMMA InsertIsStore ==
    ASSUME Inv, FinitePages, Insert, NotWrapped', policy # "rand"
    PROVE  Abstract!Store
<1> DEFINE f == web_cache
           g == web_cache'
           u == request.url
<1>1. /\ request # NoPage /\ glru_count' = glru_count + 1 /\ TypeOK /\ Wanted
      /\ g = Put(f, u, [lru |-> Key, len |-> request.len])
    BY DEF Insert, Inv
<1>2. glru_count + 1 <= Width /\ Key = glru_count /\ glru_count \in Nat /\ Width \in Nat
    BY <1>1, KeyFacts, WebCacheAssumption DEF NotWrapped, TypeOK
<1>3. NotWrapped
    BY <1>2 DEF NotWrapped
<1>4. Ordinary(f) /\ \A v \in DOMAIN f : f[v].lru < glru_count
    BY <1>3, OwnCounts
<1>5. request \in [url : Url, len : 0 .. Word - 1] /\ u \in Url /\ u \notin DOMAIN f
    BY <1>1 DEF TypeOK, Wanted
<1>6. /\ DOMAIN g = DOMAIN f \union {u} /\ \A v \in DOMAIN f : g[v] = f[v]
      /\ g[u].lru = glru_count /\ g[u].len = request.len /\ request.len \in Nat
    BY <1>1, <1>2, <1>5 DEF Put
<1>7. PageIn(g, u) = request
    BY <1>5, <1>6 DEF PageIn
<1> HIDE DEF f, g, u
<1>8. PagesOf(g) = Append(PagesOf(f), PageIn(g, u))
    BY <1>2, <1>4, <1>5, <1>6, PageComes
<1>9. /\ PagesOf(f) = [i \in DOMAIN Recency |-> PageOf(Recency[i])]
      /\ PagesOf(g) = [i \in DOMAIN Recency |-> PageOf(Recency[i])]'
    BY TheList DEF f, g
<1> QED BY <1>7, <1>8, <1>9 DEF Abstract!Store

\* The page of least count among those of h bytes or more is the first of them
\* in the list.
LEMMA FirstLarge ==
    ASSUME Inv, FinitePages, NotWrapped, policy # "rand", NEW h \in Nat,
           NEW K, K = {k \in DOMAIN lru_table : web_cache[lru_table[k].url].len >= h}
    PROVE  /\ K # {} => Abstract!Large(h) = Place(web_cache, lru_table[Least(K)].url)
           /\ Abstract!Large(h) # 0 <=> K # {}
<1> DEFINE f == web_cache
           pages == PagesOf(f)
           n == Cardinality(DOMAIN f)
           I == {i \in 1 .. Len(pages) : pages[i].len >= h}
           first == IF I # {} THEN CHOOSE x \in I : \A y \in I : x <= y ELSE 0
<1>1. Ordinary(f) /\ TypeOK /\ Agree
    BY OwnCounts DEF Inv
<1>2. Listing(f, n)
    BY <1>1, Listed
<1>3. n \in Nat /\ Len(pages) = n
    BY <1>2 DEF Listing
<1>4. Abstract!Large(h) = first
  <2>1. pages = [i \in DOMAIN Recency |-> PageOf(Recency[i])]
      BY TheList
  <2> HIDE DEF pages, f
  <2> QED BY <2>1 DEF Abstract!Large, Abstract!SelectInSeq, Abstract!Min
<1>5. ASSUME K = {} PROVE Abstract!Large(h) = 0
  <2>1. ASSUME NEW i \in I PROVE FALSE
    <3>1. PICK u \in DOMAIN f : pages[i] = PageIn(f, u)
        BY <1>2, <1>3 DEF Listing
    <3>2. f[u].len >= h /\ PageHasEntry(u)
        BY <1>1, <3>1 DEF PageIn, Agree
    <3>3. f[u].lru \in K
        BY <3>2 DEF PageHasEntry
    <3> QED BY <1>5, <3>3
  <2> HIDE DEF I
  <2> QED BY <1>4, <2>1
<1>6. ASSUME K # {}
      PROVE  Abstract!Large(h) = Place(f, lru_table[Least(K)].url) /\ Abstract!Large(h) # 0
  <2> DEFINE k == Least(K)
             u == lru_table[k].url
             p == Place(f, u)
  <2>1. K \in SUBSET Nat
      BY <1>1, WebCacheAssumption DEF TypeOK
  <2>2. k \in K /\ \A l \in K : k <= l
      BY <1>6, <2>1, LeastNumber DEF Least
  <2> HIDE DEF k
  <2>3. u \in DOMAIN f /\ f[u].lru = k /\ f[u].len >= h
      BY <1>1, <2>2 DEF Agree, EntryHasPage
  <2>4. p \in 1 .. n /\ pages[p] = PageIn(f, u)
      BY <1>2, <2>3 DEF Listing
  <2>5. p \in I
      BY <1>3, <2>3, <2>4 DEF PageIn
  <2>6. ASSUME NEW i \in I PROVE p <= i
    <3>1. PICK v \in DOMAIN f : Place(f, v) = i /\ pages[i] = PageIn(f, v)
        BY <1>2, <1>3 DEF Listing
    <3>2. f[v].len >= h /\ PageHasEntry(v)
        BY <1>1, <3>1 DEF PageIn, Agree
    <3>3. f[v].lru \in K
        BY <3>2 DEF PageHasEntry
    <3>4. f[u].lru <= f[v].lru /\ f[u].lru \in Nat /\ f[v].lru \in Nat
        BY <2>1, <2>2, <2>3, <3>3
    <3>5. CASE f[u].lru = f[v].lru
      <4>1. u = v
          BY <1>1, <2>2, <2>3, <3>2, <3>5 DEF PageHasEntry
      <4> QED BY <1>3, <2>4, <3>1, <4>1
    <3>6. CASE f[u].lru < f[v].lru
      <4>1. Place(f, u) < Place(f, v)
          BY <1>1, <2>3, <3>6, PlaceGrows
      <4> QED BY <1>3, <2>4, <3>1, <4>1
    <3> QED BY <3>4, <3>5, <3>6
  <2>7. I \in SUBSET Nat
      BY <1>3
  <2> HIDE DEF I, p
  <2>8. first = p
      BY <2>5, <2>6, <2>7, FirstPlace
  <2>9. Place(f, lru_table[Least(K)].url) = p
      BY DEF p, k
  <2>10. p # 0
      BY <1>3, <2>4
  <2> HIDE DEF f, first
  <2> QED BY <1>4, <2>8, <2>9, <2>10
<1> QED BY <1>5, <1>6

\* An eviction takes the page that PageCache names.
LEMMA EvictIsEvict ==
    ASSUME Inv, FinitePages, EvictCounted, NotWrapped', policy # "rand"
    PROVE  Abstract!Evict
<1> DEFINE f == web_cache
           g == web_cache'
           u == lru_table[Least(Candidates)].url
           Big(h) == {k \in DOMAIN lru_table : f[lru_table[k].url].len >= h}
<1>1. /\ request # NoPage /\ Candidates # {} /\ TypeOK
      /\ g = Erase(f, u) /\ glru_count' = glru_count
    BY DEF EvictCounted, Evicting, Inv
<1>2. NotWrapped /\ Agree
    BY <1>1 DEF NotWrapped, Inv
<1>3. \A h \in Nat : /\ Big(h) # {} => Abstract!Large(h) = Place(f, lru_table[Least(Big(h))].url)
                     /\ Abstract!Large(h) # 0 <=> Big(h) # {}
    BY <1>2, FirstLarge
<1>4. Abstract!Victim = Place(f, u)
  <2>1. CASE policy = "lru"
    <3>1. Abstract!Sizes = {0}
        BY <2>1 DEF Abstract!Sizes
    <3>2. Big(0) = Candidates
      <4>1. \A k \in DOMAIN lru_table : f[lru_table[k].url].len \in Nat
          BY <1>1, <1>2 DEF TypeOK, Agree, EntryHasPage
      <4> QED BY <2>1, <4>1 DEF Candidates
    <3>3. Abstract!Large(0) # 0 /\ Abstract!Large(0) = Place(f, u)
        BY <1>1, <1>3, <3>2
    <3>4. {n \in Abstract!Sizes : Abstract!Large(n) # 0} = {0}
        BY <3>1, <3>3
    <3>5. Abstract!Max({0}) = 0
        BY DEF Abstract!Max
    <3> QED BY <3>3, <3>4, <3>5 DEF Abstract!Victim
  <2>2. CASE policy = "minlru"
    <3>1. Abstract!Sizes = Halved
      <4>1. Abstract!pow2 = pow2
          BY DEF Abstract!pow2, pow2
      <4> QED BY <2>2, <4>1 DEF Abstract!Sizes, Halved
    <3>2. Halved \in SUBSET Nat
      <4>1. request.len \in Nat
          BY <1>1 DEF TypeOK
      <4>2. \A i \in 0 .. request.len : pow2[i] \in Nat /\ pow2[i] > 0
          BY PowerExceeds
      <4>3. \A i \in 0 .. request.len : request.len \div pow2[i] \in Nat
          BY <4>1, <4>2
      <4> QED BY <4>3 DEF Halved
    <3>3. \A h \in Nat : Big(h) = OfSize(h)
      <4>1. \A k \in DOMAIN lru_table : f[lru_table[k].url].len = lru_table[k].size
          BY <1>2, <2>2 DEF Agree, EntryHasPage, PageHasEntry
      <4> QED BY <4>1 DEF OfSize
    <3> DEFINE M == {h \in Halved : OfSize(h) # {}}
               Top(h) == h \in M /\ \A m \in M : m <= h
    <3>4. PICK h \in Halved : OfSize(h) # {} /\ \A m \in Halved : m > h => OfSize(m) = {}
        BY <1>1, <2>2 DEF Candidates
    <3>5. Top(h)
        BY <3>2, <3>4
    <3>6. \A m : Top(m) => m = h
        BY <3>2, <3>5
    <3>7. Candidates = OfSize(h)
      <4>1. \A m \in Halved : (OfSize(m) # {} /\ \A l \in Halved : l > m => OfSize(l) = {}) => m = h
        <5> SUFFICES ASSUME NEW m \in Halved, OfSize(m) # {}, \A l \in Halved : l > m => OfSize(l) = {}
                     PROVE  m = h
            OBVIOUS
        <5>1. Top(m)
            BY <3>2
        <5> QED BY <3>6, <5>1
      <4>2. {m \in Halved : /\ OfSize(m) # {}
                            /\ \A l \in Halved : l > m => OfSize(l) = {}} = {h}
          BY <3>4, <4>1
      <4> QED BY <2>2, <4>2 DEF Candidates
    <3>8. {n \in Abstract!Sizes : Abstract!Large(n) # 0} = M
        BY <1>3, <3>1, <3>2, <3>3
    <3>9. Abstract!Max(M) = h
      <4>1. h \in M /\ (\A m \in M : h >= m) /\ \A x \in M : (\A m \in M : x >= m) => x = h
          BY <3>2, <3>5, <3>6
      <4> HIDE DEF M
      <4> QED BY <4>1 DEF Abstract!Max
    <3>10. Abstract!Large(h) = Place(f, u)
        BY <1>1, <1>3, <3>2, <3>3, <3>7
    <3> HIDE DEF M, f, u
    <3> QED BY <3>8, <3>9, <3>10 DEF Abstract!Victim
  <2> QED BY <1>1, <2>1, <2>2, WebCacheAssumption DEF TypeOK
<1>5. u \in DOMAIN f
  <2>1. Candidates \subseteq DOMAIN lru_table
      BY DEF Candidates, OfSize
  <2>2. Candidates \in SUBSET Nat
      BY <1>1, <2>1, WebCacheAssumption DEF TypeOK
  <2>3. Least(Candidates) \in DOMAIN lru_table
      BY <1>1, <2>1, <2>2, LeastFacts
  <2> QED BY <1>2, <2>3 DEF Agree, EntryHasPage
<1>6. DOMAIN g = DOMAIN f \ {u} /\ \A v \in DOMAIN g : g[v] = f[v]
  <2> HIDE DEF u
  <2> QED BY <1>1, EraseFacts
<1>7. Ordinary(f)
    BY <1>2, OwnCounts
<1>8. /\ PagesOf(f) = [i \in DOMAIN Recency |-> PageOf(Recency[i])]
      /\ PagesOf(g) = [i \in DOMAIN Recency |-> PageOf(Recency[i])]'
    BY TheList
<1> HIDE DEF f, g, u
<1>9. PagesOf(g) = RemovedAt(PagesOf(f), Place(f, u))
    BY <1>5, <1>6, <1>7, PageLeaves
<1> QED BY <1>4, <1>8, <1>9 DEF Abstract!Evict, Abstract!RemoveAt, RemovedAt

LEMMA StepFinite ==
    ASSUME FinitePages, Next
    PROVE  FinitePages'
<1>1. \/ DOMAIN web_cache' = DOMAIN web_cache
      \/ \E u : DOMAIN web_cache' = DOMAIN web_cache \ {u}
      \/ \E u : DOMAIN web_cache' = DOMAIN web_cache \union {u}
  <2>1. ASSUME NEW u \in Url, Hit(u) PROVE DOMAIN web_cache' = DOMAIN web_cache
    <3>1. UNCHANGED web_cache \/ web_cache' = [web_cache EXCEPT ![u].lru = Key]
        BY <2>1 DEF Hit
    <3> QED BY <3>1
  <2>2. ASSUME NEW u \in Url, EvictRandom(u) PROVE DOMAIN web_cache' = DOMAIN web_cache \ {u}
      BY <2>2, EraseFacts DEF EvictRandom
  <2>3. ASSUME NEW u \in Url, NEW n \in Lengths, Fetch(u, n) PROVE UNCHANGED web_cache
      BY <2>3 DEF Fetch, tables
  <2>4. ASSUME EvictCounted PROVE \E u : DOMAIN web_cache' = DOMAIN web_cache \ {u}
      BY <2>4, EraseFacts DEF EvictCounted
  <2>5. ASSUME EvictNothing PROVE UNCHANGED web_cache
      BY <2>5 DEF EvictNothing, tables
  <2>6. ASSUME Insert PROVE DOMAIN web_cache' = DOMAIN web_cache \union {request.url}
    <3>1. PICK page : web_cache' = Put(web_cache, request.url, page)
        BY <2>6 DEF Insert
    <3> QED BY <3>1 DEF Put
  <2> QED BY <2>1, <2>2, <2>3, <2>4, <2>5, <2>6 DEF Next
<1>2. ASSUME NEW u PROVE IsFiniteSet(DOMAIN web_cache \ {u}) /\ IsFiniteSet(DOMAIN web_cache \union {u})
    BY FS_AddElement, FS_RemoveElement DEF FinitePages
<1> QED BY <1>1, <1>2 DEF FinitePages

\* Until the counts wrap, a hit makes a page the most recently used, LRU evicts
\* the page not used for longest, and LRU-MIN the one not used for longest
\* among the pages of the size its halving search reaches, in caches with any
\* pages of any lengths.
THEOREM LeastRecentlyUsedGoes == Spec => EvictsByRecency
<1>1. Init => FinitePages /\ Abstract!Init
  <2> SUFFICES ASSUME Init PROVE FinitePages /\ Abstract!Init
      OBVIOUS
  <2>1. DOMAIN web_cache = {} /\ Cardinality({}) = 0 /\ IsFiniteSet({})
      BY FS_EmptySet DEF Init
  <2>2. DOMAIN Recency = 1 .. 0
      BY <2>1 DEF Recency, InOrder
  <2>3. [i \in DOMAIN Recency |-> PageOf(Recency[i])] = <<>>
      BY <2>2
  <2> QED BY <2>1, <2>3 DEF FinitePages, Abstract!Init
<1>2. ASSUME Inv, FinitePages, [Next]_vars PROVE FinitePages'
    BY <1>2, StepFinite DEF vars, tables, FinitePages
<1>3. ASSUME Inv, FinitePages, NotWrapped', policy # "rand"
      PROVE  /\ \A u \in Url : Hit(u) => Abstract!Use(u)
             /\ EvictCounted => Abstract!Evict
             /\ Insert => Abstract!Store
    BY <1>3, HitIsUse, EvictIsEvict, InsertIsStore
<1> DEFINE Step == NotWrapped' /\ policy # "rand" =>
                       /\ \A u \in Url : Hit(u) => Abstract!Use(u)
                       /\ EvictCounted => Abstract!Evict
                       /\ Insert => Abstract!Store
<1>4. Inv /\ FinitePages => Step
    BY <1>3
<1>5. EvictsByRecency <=> Abstract!Init /\ [][Step]_vars
    BY DEF EvictsByRecency
<1> HIDE DEF Step
<1>6. Spec => []FinitePages
    BY <1>1, <1>2, Reachable, PTL DEF Spec
<1>7. Spec => Abstract!Init
    BY <1>1, PTL DEF Spec
<1>8. Spec => [][Step]_vars
    BY <1>4, <1>6, Reachable, PTL
<1> QED BY <1>5, <1>7, <1>8, PTL

=============================================================================
