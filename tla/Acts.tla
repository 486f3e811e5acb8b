-------------------------------- MODULE Acts --------------------------------
(***************************************************************************)
(* The shape of a screen.  A screen shows queries and offers acts; an act   *)
(* is a control wired to a mutation.  What is kept of its handler is what    *)
(* decides when it may be pressed again and what its answer does to the      *)
(* page and to the cache; what was typed and how a failure is worded is not. *)
(***************************************************************************)

\* A button that calls `hook`, reports a failure and leaves everything as it is.
Press(hook) ==
  [call |-> hook,
   lock |-> "none",     \* what disables the control while a call is in flight
   asks |-> FALSE,      \* it waits for the confirmation dialog first
   leaves |-> FALSE,    \* a success closes the view it is on or goes elsewhere
   primes |-> {},       \* queries whose cached answer the handler overwrites itself
   refreshes |-> {}]    \* queries the handler refetches by hand on success

\* `disabled` on the mutation's own isPending, or on a flag the handler raises and lowers.
Locked(act) == [act EXCEPT !.lock = "pending"]
Busied(act) == [act EXCEPT !.lock = "busy"]
Asked(act) == [act EXCEPT !.asks = TRUE]
Closing(act) == [act EXCEPT !.leaves = TRUE]
Going(act) == [act EXCEPT !.leaves = TRUE]
Priming(act, hooks) == [act EXCEPT !.primes = hooks]
Refreshing(act, hooks) == [act EXCEPT !.refreshes = hooks]

Screen(shows, acts) == [shows |-> shows, acts |-> acts]
NoActs == <<>>

\* The controls of a view: the handlers it offers, some of them disabled while pending.
Controls(handlers, names, locked) ==
  [n \in names |-> IF n \in locked THEN Locked(handlers[n]) ELSE handlers[n]]
=============================================================================
