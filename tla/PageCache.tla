------------------------------ MODULE PageCache ------------------------------
(***************************************************************************)
(* What the replacement policies of the web proxy promise, in terms of one *)
(* list of pages, the least recently used first.                           *)
(***************************************************************************)
EXTENDS Integers, SequencesExt, PowersOfTwo

VARIABLES policy,  \* "lru" or "minlru"
          pages,   \* the cached pages, [url, len]
          want     \* the page that room is being made for, [url, len]

\* LRU-MIN looks for pages of at least the size wanted, then of at least half
\* of it, and so on; LRU takes any page.
Large(n) == SelectInSeq(pages, LAMBDA page : page.len >= n)
Sizes == IF policy = "lru" THEN {0}
         ELSE {want.len \div pow2[i] : i \in 0 .. want.len} \ {0}
Victim == Large(Max({n \in Sizes : Large(n) # 0}))

Init == pages = <<>>

Use(u) == LET i == SelectInSeq(pages, LAMBDA page : page.url = u)
          IN i # 0 /\ pages' = Append(RemoveAt(pages, i), pages[i])
Evict == pages' = RemoveAt(pages, Victim)
Store == pages' = Append(pages, want)

=============================================================================
