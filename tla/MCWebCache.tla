----------------------------- MODULE MCWebCache -----------------------------
(***************************************************************************)
(* A small cache, few URLs, and counts of a few values, so that they wrap. *)
(***************************************************************************)
EXTENDS WebCache, TLC

\* URLs are interchangeable: the code compares them for equality only, but for
\* the order of web_cache, of which the random policy takes any member.
UrlSymmetry == Permutations(Url)

=============================================================================
