------------------------------- MODULE Hooks --------------------------------
(***************************************************************************)
(* The shape of a data hook.  Both clients read the server through React    *)
(* Query: a query hook names the key its answer is cached under, a mutation *)
(* hook names the keys it marks out of date when it succeeds.  What a hook   *)
(* does to the cache is a record of sets of keys; one representative stands  *)
(* for every room "r", community "c", user "u", ticket "t" and filter "f".   *)
(***************************************************************************)
EXTENDS Api, SequencesExt

\* useQuery: `expires` is FALSE for staleTime Infinity, `polls` is a refetchInterval,
\* `seeds` the keys the queryFn writes besides its own.
Query(key, endpoint) ==
  [key |-> key, reads |-> endpoint.reads, writes |-> endpoint.writes,
   expires |-> TRUE, polls |-> FALSE, seeds |-> {}]
Pinned(query) == [query EXCEPT !.expires = FALSE]
Polled(query) == [query EXCEPT !.polls = TRUE]
Seeding(query, keys) == [query EXCEPT !.seeds = keys]

\* useMutation: keys invalidated (`drops`), dropped from the cache (`removes`) or
\* overwritten with the answer (`sets`) or edited in place (`patches`) by onSuccess;
\* edited before the call is sent and put back when it fails (`optimistic`);
\* invalidated either way (`settles`).
Mutation(endpoint, drops) ==
  [writes |-> endpoint.writes, drops |-> drops, removes |-> {}, sets |-> {},
   patches |-> {}, optimistic |-> {}, settles |-> {}]
Removing(mutation, keys) == [mutation EXCEPT !.removes = keys]
Setting(mutation, keys) == [mutation EXCEPT !.sets = keys]
Patching(mutation, keys) == [mutation EXCEPT !.patches = keys]
Optimistic(mutation, key, settles) ==
  [mutation EXCEPT !.optimistic = {key}, !.settles = settles]

\* React Query matches an entry by key prefix.
Covers(prefixes, key) == \E p \in prefixes : IsPrefix(p, key)
=============================================================================
