------------------------------ MODULE WebCache ------------------------------
(***************************************************************************)
(* The caching web proxy of aos/a3/rpc/gen-cpp: the handler httpget of     *)
(* webproxy_server.cpp, linked with one of lru_cache.cpp, minlru_cache.cpp *)
(* and rand_cache.cpp.  The server (TSimpleServer) serves one request      *)
(* after the other; the evictions of a request are steps of their own.     *)
(*                                                                         *)
(* glru_count has 64 bits; as a key of lru_table, and in a page's lru_cnt, *)
(* it is cut to 32: Width stands for 2^32.  Pages are their lengths, which *)
(* httpget cuts from size_t to int32_t.  A length and the free size are    *)
(* 32-bit words, 0 .. Word - 1, compared as int32_t and searched for as    *)
(* uint32_t (pg_size, min_size); sums of them wrap, as the compiled code's *)
(* do.  Word stands for 2^32 too, apart from Width so that counts and      *)
(* lengths can be made to wrap independently.  The byte counts of the      *)
(* statistics are left out: on a hit httpget adds an uninitialised length  *)
(* to total_bytes_count, so that nothing can be said of it.                *)
(***************************************************************************)
EXTENDS Integers, FiniteSets, Functions, PowersOfTwo

CONSTANTS Url,
          NoUrl,        \* the empty string
          Lengths,      \* the lengths of pages that servers return, of type size_t
          CacheSize,    \* CACHE_SZ
          Policies,     \* the caches the server may be linked with
          Width,        \* the number of values of lru_cnt
          Half,         \* the number of values of int32_t that are not negative
          MaxRequests   \* bound: requests served

ASSUME WebCacheAssumption ==
    /\ NoUrl \notin Url
    /\ Lengths \subseteq Nat
    /\ Width \in Nat \ {0} /\ MaxRequests \in Nat
    /\ Half \in Nat \ {0} /\ CacheSize \in 0 .. Half - 1
    /\ Policies \subseteq {"lru", "minlru", "rand"}

VARIABLES
    policy,              \* the cache this server is linked with
    web_cache,           \* by URL: lru_cnt and length of the page
    lru_table,           \* by count: URL and pg_size (minlru only)
    cache_sz_remaining,
    glru_count,
    hit_count, total_count,
    request,             \* the fetched page that add_to_cache is making room for
    stuck,               \* an eviction found nothing to evict
    oversized            \* history: a page whose length int32_t cannot hold was admitted

tables == <<web_cache, lru_table, cache_sz_remaining, glru_count>>
vars == <<policy, tables, hit_count, total_count, request, stuck, oversized>>

NoPage == [url |-> NoUrl, len |-> 0]

Put(f, k, v) == [x \in DOMAIN f \union {k} |-> IF x = k THEN v ELSE f[x]]
Erase(f, k) == Restrict(f, DOMAIN f \ {k})

\* The value of a word as an int32_t.
Word == 2 * Half
Int32(w) == IF w < Half THEN w ELSE w - Word

\* Mutant: the table is keyed by the 64-bit count.
Key_Wide == glru_count

Key == glru_count % Width

\* std::map's operator[] makes a missing entry, with members 0 or empty.
Entry(k) == IF k \in DOMAIN lru_table THEN lru_table[k] ELSE [url |-> NoUrl, size |-> 0]
Length(u) == IF u \in DOMAIN web_cache THEN web_cache[u].len ELSE 0

Init ==
    /\ policy \in Policies
    /\ web_cache = [u \in {} |-> NoPage]
    /\ lru_table = [k \in {} |-> NoPage]
    /\ cache_sz_remaining = CacheSize
    /\ glru_count = 0
    /\ hit_count = 0 /\ total_count = 0
    /\ request = NoPage
    /\ stuck = FALSE /\ oversized = FALSE

Idle == request = NoPage /\ ~stuck /\ total_count < MaxRequests

\* Mutant: the entry under the old count stays in the table.
Hit_KeepsOld(u) ==
    /\ Idle /\ u \in DOMAIN web_cache
    /\ hit_count' = hit_count + 1 /\ total_count' = total_count + 1
    /\ IF policy = "rand" THEN UNCHANGED <<web_cache, lru_table, glru_count>>
       ELSE /\ lru_table' = Put(lru_table, Key, Entry(web_cache[u].lru))
            /\ web_cache' = [web_cache EXCEPT ![u].lru = Key]
            /\ glru_count' = glru_count + 1
    /\ UNCHANGED <<policy, cache_sz_remaining, request, stuck, oversized>>

\* Mutant: a hit does not count as a use.
Hit_NotUsed(u) ==
    /\ Idle /\ u \in DOMAIN web_cache
    /\ hit_count' = hit_count + 1 /\ total_count' = total_count + 1
    /\ UNCHANGED <<policy, tables, request, stuck, oversized>>

\* httpget of a cached page: get_cached_page gives it the newest count.
Hit(u) ==
    /\ Idle /\ u \in DOMAIN web_cache
    /\ hit_count' = hit_count + 1 /\ total_count' = total_count + 1
    /\ IF policy = "rand" THEN UNCHANGED <<web_cache, lru_table, glru_count>>
       ELSE LET old == web_cache[u].lru
                entry == IF policy = "lru" THEN [url |-> u, size |-> 0] ELSE Entry(old)
            IN /\ lru_table' = Put(Erase(lru_table, old), Key, entry)
               /\ web_cache' = [web_cache EXCEPT ![u].lru = Key]
               /\ glru_count' = glru_count + 1
    /\ UNCHANGED <<policy, cache_sz_remaining, request, stuck, oversized>>

\* Mutant: pages larger than the cache are not refused.
Cacheable_Any(w) == ~(policy = "minlru" /\ w = 0)

\* The early returns of add_to_cache, for a page of length w.
Cacheable(w) == Int32(w) <= CacheSize /\ ~(policy = "minlru" /\ w = 0)

\* httpget of another page, fetched with the length n.
Fetch(u, n) ==
    /\ Idle /\ u \notin DOMAIN web_cache
    /\ LET webpage_len == n % Word
       IN IF Cacheable(webpage_len)
          THEN /\ request' = [url |-> u, len |-> webpage_len]
               /\ oversized' = (oversized \/ n >= Half)
               /\ UNCHANGED total_count
          ELSE total_count' = total_count + 1 /\ UNCHANGED <<request, oversized>>
    /\ UNCHANGED <<policy, tables, hit_count, stuck>>

\* The loop of add_to_cache.  LRU takes the page with the smallest count;
\* LRU-MIN the one with the smallest count among those of at least min_size,
\* which starts at the size wanted and is halved until there is one.
Least(K) == CHOOSE k \in K : \A l \in K : k <= l
OfSize(n) == {k \in DOMAIN lru_table : lru_table[k].size >= n}
Halved == {request.len \div pow2[i] : i \in 0 .. request.len} \ {0}
Candidates ==
    IF policy = "lru" THEN DOMAIN lru_table
    ELSE UNION {OfSize(n) : n \in {h \in Halved : /\ OfSize(h) # {}
                                                  /\ \A g \in Halved : g > h => OfSize(g) = {}}}
Evicting == request # NoPage /\ ~stuck /\ Int32(cache_sz_remaining) < Int32(request.len)

EvictCounted ==
    /\ Evicting /\ policy # "rand" /\ Candidates # {}
    /\ LET k == Least(Candidates)
           u == lru_table[k].url
       IN /\ cache_sz_remaining' = (cache_sz_remaining + Length(u)) % Word
          /\ web_cache' = Erase(web_cache, u)
          /\ lru_table' = Erase(lru_table, k)
    /\ UNCHANGED <<policy, glru_count, hit_count, total_count, request, stuck, oversized>>

EvictRandom(u) ==
    /\ Evicting /\ policy = "rand" /\ u \in DOMAIN web_cache
    /\ cache_sz_remaining' = (cache_sz_remaining + web_cache[u].len) % Word
    /\ web_cache' = Erase(web_cache, u)
    /\ UNCHANGED <<policy, lru_table, glru_count, hit_count, total_count, request, stuck, oversized>>

\* LRU dereferences end(), the random policy divides by 0, LRU-MIN loops for ever.
EvictNothing ==
    /\ Evicting
    /\ IF policy = "rand" THEN DOMAIN web_cache = {} ELSE Candidates = {}
    /\ stuck' = TRUE
    /\ UNCHANGED <<policy, tables, hit_count, total_count, request, oversized>>

\* Mutant: the remaining size is not reduced.
Insert_NotCounted ==
    /\ request # NoPage /\ ~stuck /\ Int32(cache_sz_remaining) >= Int32(request.len)
    /\ web_cache' = Put(web_cache, request.url, [lru |-> Key, len |-> request.len])
    /\ lru_table' = Put(lru_table, Key, [url |-> request.url, size |-> request.len])
    /\ glru_count' = glru_count + 1
    /\ total_count' = total_count + 1 /\ request' = NoPage
    /\ UNCHANGED <<policy, cache_sz_remaining, hit_count, stuck, oversized>>

\* The end of add_to_cache and of httpget.
Insert ==
    /\ request # NoPage /\ ~stuck /\ Int32(cache_sz_remaining) >= Int32(request.len)
    /\ cache_sz_remaining' = (cache_sz_remaining - request.len) % Word
    /\ IF policy = "rand"
       THEN /\ web_cache' = Put(web_cache, request.url, [lru |-> 0, len |-> request.len])
            /\ UNCHANGED <<lru_table, glru_count>>
       ELSE /\ web_cache' = Put(web_cache, request.url, [lru |-> Key, len |-> request.len])
            /\ lru_table' = Put(lru_table, Key,
                   [url |-> request.url, size |-> IF policy = "lru" THEN 0 ELSE request.len])
            /\ glru_count' = glru_count + 1
    /\ total_count' = total_count + 1 /\ request' = NoPage
    /\ UNCHANGED <<policy, hit_count, stuck, oversized>>

Next ==
    \/ \E u \in Url : Hit(u) \/ EvictRandom(u) \/ \E n \in Lengths : Fetch(u, n)
    \/ EvictCounted \/ EvictNothing \/ Insert

Spec == Init /\ [][Next]_vars

-----------------------------------------------------------------------------
\* Type invariant.
TypeOK ==
    /\ policy \in Policies
    /\ DOMAIN web_cache \subseteq Url
    /\ \A u \in DOMAIN web_cache : web_cache[u] \in [lru : 0 .. Width - 1, len : 0 .. Word - 1]
    /\ DOMAIN lru_table \subseteq 0 .. Width - 1
    /\ \A k \in DOMAIN lru_table : lru_table[k] \in [url : Url \union {NoUrl}, size : 0 .. Word - 1]
    /\ cache_sz_remaining \in 0 .. Word - 1 /\ glru_count \in Nat
    /\ hit_count \in 0 .. MaxRequests /\ total_count \in 0 .. MaxRequests
    /\ request \in [url : Url, len : 0 .. Word - 1] \union {NoPage}
    /\ stuck \in BOOLEAN /\ oversized \in BOOLEAN

\* Before the count of accesses exceeds 32 bits.
NotWrapped == glru_count <= Width

\* The bytes of the pages in the cache, by their lengths as words.
CachedBytes == UNION {{u} \X (1 .. web_cache[u].len) : u \in DOMAIN web_cache}

\* The free size is the size of the cache less the lengths of the pages in it,
\* through any sequence of evictions, by any policy, and even when the counts
\* have wrapped and the two tables disagree.  The equation is one of 32-bit
\* words: a page of 2^31 bytes or more has a negative length, passes as one
\* that fits, and takes the free size beyond that of the cache until it is
\* evicted.  As long as no such page was admitted it is one of numbers, and
\* the free size is not negative.
SizeAccounted ==
    /\ (cache_sz_remaining + Cardinality(CachedBytes)) % Word = CacheSize
    /\ ~oversized => /\ Int32(cache_sz_remaining) >= 0
                     /\ cache_sz_remaining + Cardinality(CachedBytes) = CacheSize

\* web_cache and lru_table describe the same pages: every page has its entry,
\* under its own count, and every entry is a page's.
TablesAgree ==
    NotWrapped /\ policy # "rand" =>
        /\ \A u \in DOMAIN web_cache :
               /\ web_cache[u].lru \in DOMAIN lru_table
               /\ lru_table[web_cache[u].lru].url = u
               /\ policy = "minlru" => lru_table[web_cache[u].lru].size = web_cache[u].len
        /\ \A k \in DOMAIN lru_table :
               /\ lru_table[k].url \in DOMAIN web_cache
               /\ web_cache[lru_table[k].url].lru = k

\* The loop of add_to_cache always has a page to evict.
AlwaysEvictable == NotWrapped => ~stuck

\* The members of D in the order of their counts c.
InOrder(D, c) ==
    [i \in 1 .. Cardinality(D) |-> CHOOSE u \in D : Cardinality({v \in D : c[v] < c[u]}) = i - 1]

PageOf(u) == [url |-> u, len |-> web_cache[u].len]
Recency == InOrder(DOMAIN web_cache, [u \in DOMAIN web_cache |-> web_cache[u].lru])
Abstract == INSTANCE PageCache WITH
    pages <- [i \in DOMAIN Recency |-> PageOf(Recency[i])], want <- request

\* With counts that have not wrapped, LRU evicts the page not used for longest,
\* and LRU-MIN the one not used for longest among the pages of the size that
\* its halving search reaches; a hit makes a page the most recent.
EvictsByRecency ==
    /\ Abstract!Init
    /\ [][NotWrapped' /\ policy # "rand" =>
              /\ \A u \in Url : Hit(u) => Abstract!Use(u)
              /\ EvictCounted => Abstract!Evict
              /\ Insert => Abstract!Store]_vars

=============================================================================
