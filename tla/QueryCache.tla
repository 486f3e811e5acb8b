----------------------------- MODULE QueryCache -----------------------------
(***************************************************************************)
(* One entry of the client's React Query cache while its user acts.  The    *)
(* entry holds the last answer of a query that a mounted view draws; the     *)
(* user's calls change what the server would answer.  A case says what the  *)
(* act's mutation does to the entry's key.  An answer is the set of the      *)
(* user's calls it reflects, so the entry is up to date when it equals       *)
(* `applied`.  The library's own rules (what a mount, an invalidation or a   *)
(* cancellation does to a fetch in flight) are external.                     *)
(***************************************************************************)
EXTENDS Naturals, FiniteSets

CONSTANTS Cases,   \* the (query, act) pairs, each a record of CaseType
          Calls    \* the calls the user may make

CaseType ==
  [locks : BOOLEAN,        \* the control is disabled while its own call is in flight
   asks : BOOLEAN,         \* the call waits for the confirmation dialog
   leaves : BOOLEAN,       \* a success closes the view
   expires : BOOLEAN,      \* the entry goes stale by age
   polls : BOOLEAN,        \* it is refetched on a timer
   invalidates : BOOLEAN,  \* a success marks it out of date
   settles : BOOLEAN,      \* so does a failure
   overwrites : BOOLEAN,   \* a success writes the answer into it
   patches : BOOLEAN,      \* a success edits it in place, when it is filled
   refreshes : BOOLEAN,    \* the handler refetches it by hand
   optimistic : BOOLEAN,   \* it is patched before the call, and put back on a failure
   removes : BOOLEAN]      \* a success drops it

\* What a success does when its mutation names the query: the entry is marked or
\* fetched again, or dropped for good; and what was patched ahead of the call is
\* marked however the call ends.
Reached(r) ==
  /\ r.invalidates \/ r.settles \/ r.refreshes \/ (r.removes /\ ~r.overwrites)
  /\ r.optimistic => r.settles

ASSUME CasesAssumption ==
  \A c \in Cases : c.rules \in CaseType /\ c.gap \in BOOLEAN /\ (~c.gap => Reached(c.rules))

VARIABLES case,     \* the pair this behaviour is about
          applied,  \* the calls the server has applied
          calls,    \* where each call is
          seen,     \* what the server held when it applied the call
          before,   \* what a patched entry held before the patch
          entry,    \* the cache entry
          here,     \* the calls in flight that this mount of the view made
          mounted   \* whether a view is drawing the entry

cacheVars == <<case, applied, calls, seen, before, entry, here, mounted>>

rules == case.rules
Stages == {"idle", "asking", "sent", "applied", "refused", "done"}

\* `has`: the entry was filled.  `fetch`: none running, asked, or read by the server (`got` is on its way back).
\* `overtaken`: an invalidation met a fetch it leaves running and the server had already
\* answered; the late answer then clears the mark.
EntryType ==
  [has : BOOLEAN, data : SUBSET Calls, invalid : BOOLEAN, failed : BOOLEAN, overtaken : BOOLEAN,
   fetch : {"none", "asked", "read"}, got : SUBSET Calls]

CacheTypeOK ==
  /\ case \in Cases
  /\ applied \subseteq Calls
  /\ calls \in [Calls -> Stages]
  /\ seen \in [Calls -> SUBSET Calls]
  /\ before \in [Calls -> SUBSET Calls]
  /\ entry \in EntryType
  /\ here \subseteq Calls
  /\ mounted \in BOOLEAN

Asking(e) == [e EXCEPT !.fetch = "asked", !.got = {}, !.failed = FALSE, !.overtaken = FALSE]

Overtaking(e) == [e EXCEPT !.overtaken = @ \/ e.fetch = "read"]

\* A running first load is left to finish; any other fetch is cancelled and started again.
Refetch(e) == IF e.fetch = "none" \/ e.has THEN Asking(e) ELSE Overtaking(e)

\* Every entry under the key is marked, and the ones a view draws are fetched again.
\* An undrawn entry's running fetch is left to finish.
Invalidate(e, drawn) ==
  LET marked == [e EXCEPT !.invalid = TRUE] IN IF drawn THEN Refetch(marked) ELSE Overtaking(marked)

Overwrite(e, answer) == [e EXCEPT !.has = TRUE, !.data = answer, !.invalid = FALSE]
Patch(e, c) == IF e.has THEN Overwrite(e, e.data \cup {c}) ELSE e
Cancel(e) == [e EXCEPT !.fetch = "none", !.got = {}]

Blank == [has |-> FALSE, data |-> {}, invalid |-> FALSE, failed |-> FALSE, overtaken |-> FALSE, fetch |-> "none", got |-> {}]

CacheInit ==
  /\ case \in Cases
  /\ applied = {}
  /\ calls = [c \in Calls |-> "idle"]
  /\ seen = [c \in Calls |-> {}]
  /\ before = [c \in Calls |-> {}]
  /\ entry = Asking(Blank)
  /\ here = {}
  /\ mounted = TRUE

(***************************************************************************)
(* The user and the mutation.                                               *)
(***************************************************************************)
\* onMutate: stop a fetch that would undo the patch, remember the entry, patch it.
\* A control that patches the entry is drawn from its rows.
OnMutate(c) ==
  IF rules.optimistic
  THEN /\ entry.has
       /\ before' = [before EXCEPT ![c] = entry.data]
       /\ entry' = [Cancel(entry) EXCEPT !.data = entry.data \cup {c}]
  ELSE UNCHANGED <<before, entry>>

Send(c) ==
  /\ calls' = [calls EXCEPT ![c] = "sent"]
  /\ here' = IF mounted THEN here \cup {c} ELSE here
  /\ OnMutate(c)

\* The dialog is modal, and the lock is only taken when the call is sent.
Press(c) ==
  /\ mounted
  /\ calls[c] = "idle"
  /\ \A d \in Calls : calls[d] # "asking"
  /\ rules.locks => here = {}
  /\ IF rules.asks
     THEN calls' = [calls EXCEPT ![c] = "asking"] /\ UNCHANGED <<before, entry, here>>
     ELSE Send(c)
  /\ UNCHANGED <<case, applied, seen, mounted>>

\* The dialog belongs to the app, so it may be answered after the view has gone.
Confirm(c) ==
  /\ calls[c] = "asking"
  /\ Send(c)
  /\ UNCHANGED <<case, applied, seen, mounted>>

Dismiss(c) ==
  /\ calls[c] = "asking"
  /\ calls' = [calls EXCEPT ![c] = "idle"]
  /\ UNCHANGED <<case, applied, seen, before, entry, here, mounted>>

Serve(c) ==
  /\ calls[c] = "sent"
  /\ calls' = [calls EXCEPT ![c] = "applied"]
  /\ applied' = applied \cup {c}
  /\ seen' = [seen EXCEPT ![c] = applied \cup {c}]
  /\ UNCHANGED <<case, before, entry, here, mounted>>

Refuse(c) ==
  /\ calls[c] = "sent"
  /\ calls' = [calls EXCEPT ![c] = "refused"]
  /\ UNCHANGED <<case, applied, seen, before, entry, here, mounted>>

\* Mutant: a success marks nothing but what settles either way.
OnSuccess_Silent(e, c) == IF rules.settles THEN Invalidate(e, mounted) ELSE e

\* Mutant: an entry with no answer yet is not worth marking.
OnSuccess_FilledOnly(e, c) ==
  IF e.has /\ (rules.invalidates \/ rules.settles) THEN Invalidate(e, mounted) ELSE e

\* onSuccess and the handler's own lines after the call.
OnSuccess(e, c) ==
  LET removed == IF rules.removes THEN Blank ELSE e
      written == IF rules.overwrites THEN Overwrite(removed, seen[c]) ELSE removed
      patched == IF rules.patches THEN Patch(written, c) ELSE written
      marked == IF rules.invalidates \/ rules.settles THEN Invalidate(patched, mounted) ELSE patched
  IN  IF rules.refreshes THEN Refetch(marked) ELSE marked

Succeed(c) ==
  /\ calls[c] = "applied"
  /\ calls' = [calls EXCEPT ![c] = "done"]
  /\ entry' = OnSuccess(entry, c)
  /\ mounted' = (mounted /\ ~rules.leaves)
  /\ here' = IF rules.leaves THEN {} ELSE here \ {c}
  /\ UNCHANGED <<case, applied, seen, before>>

\* onError puts the remembered entry back; onSettled marks it.
OnError(e, previous) ==
  LET restored == IF rules.optimistic THEN Overwrite(e, previous) ELSE e
  IN  IF rules.settles THEN Invalidate(restored, mounted) ELSE restored

Fail(c) ==
  /\ calls[c] = "refused"
  /\ calls' = [calls EXCEPT ![c] = "done"]
  /\ entry' = OnError(entry, before[c])
  /\ here' = here \ {c}
  /\ UNCHANGED <<case, applied, seen, before, mounted>>

(***************************************************************************)
(* Fetching, and the view coming and going.                                 *)
(***************************************************************************)
FetchRead ==
  /\ entry.fetch = "asked"
  /\ entry' = [entry EXCEPT !.fetch = "read", !.got = applied]
  /\ UNCHANGED <<case, applied, calls, seen, before, here, mounted>>

FetchDone ==
  /\ entry.fetch = "read"
  /\ entry' = [entry EXCEPT !.has = TRUE, !.data = entry.got, !.invalid = FALSE, !.failed = FALSE, !.fetch = "none", !.got = {}]
  /\ UNCHANGED <<case, applied, calls, seen, before, here, mounted>>

FetchFail ==
  /\ entry.fetch # "none"
  /\ entry' = [Cancel(entry) EXCEPT !.failed = TRUE]
  /\ UNCHANGED <<case, applied, calls, seen, before, here, mounted>>

Poll ==
  /\ rules.polls /\ mounted /\ entry.fetch = "none"
  /\ entry' = Asking(entry)
  /\ UNCHANGED <<case, applied, calls, seen, before, here, mounted>>

Leave ==
  /\ mounted
  /\ mounted' = FALSE
  /\ here' = {}
  /\ UNCHANGED <<case, applied, calls, seen, before, entry>>

\* A mount fetches what is missing, marked or too old.
Return ==
  /\ ~mounted
  /\ mounted' = TRUE
  /\ \E aged \in BOOLEAN :
       /\ aged => rules.expires
       /\ entry' = IF entry.fetch = "none" /\ (~entry.has \/ entry.invalid \/ aged)
                   THEN Asking(entry) ELSE entry
  /\ UNCHANGED <<case, applied, calls, seen, before, here>>

CacheNext ==
  \/ \E c \in Calls : Press(c) \/ Confirm(c) \/ Dismiss(c) \/ Serve(c) \/ Refuse(c) \/ Succeed(c) \/ Fail(c)
  \/ FetchRead \/ FetchDone \/ FetchFail \/ Poll \/ Leave \/ Return

\* Requests are answered, one way or the other; the user need not act.
CacheFairness ==
  /\ \A c \in Calls : WF_cacheVars(Serve(c) \/ Refuse(c)) /\ WF_cacheVars(Succeed(c) \/ Fail(c))
  /\ WF_cacheVars(FetchRead) /\ WF_cacheVars(FetchDone) /\ WF_cacheVars(Poll)

CacheSpec == CacheInit /\ [][CacheNext]_cacheVars /\ CacheFairness

(***************************************************************************)
(* Properties.                                                              *)
(***************************************************************************)
Quiet == entry.fetch = "none" /\ \A c \in Calls : calls[c] \in {"idle", "asking", "done"}

\* "The sidebar redraws because its data changed" (AppShell), "the rows cannot disagree
\* with the server" (BlockedTab): once every answer is in, a view shows exactly the
\* user's own calls that the server applied, unless its last refetch failed or its
\* fetch was overtaken.  `case.gap` marks the pairs whose mutation names no key
\* of the query.  Types come first.
OwnWritesShow ==
  /\ CacheTypeOK
  /\ Quiet /\ mounted /\ ~entry.failed /\ ~entry.overtaken /\ ~case.gap /\ entry.has
       => entry.data = applied

\* A success is drawn in the end: the entry comes to reflect an applied call, or the
\* view leaves, or a fetch fails, or the fetch was overtaken.
AppliedComesToShow ==
  \A c \in Calls :
    (c \in applied /\ ~rules.removes /\ (~case.gap \/ rules.polls))
      ~> (entry.has /\ c \in entry.data) \/ ~mounted \/ entry.failed \/ entry.overtaken
=============================================================================
