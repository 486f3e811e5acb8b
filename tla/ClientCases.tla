---------------------------- MODULE ClientCases -----------------------------
(***************************************************************************)
(* The pairs of a drawn query and an act that the two clients' hooks and     *)
(* screens give rise to.                                                    *)
(***************************************************************************)
EXTENDS Naturals

Web == INSTANCE WebScreens
Mobile == INSTANCE MobileScreens

Screens == [web |-> Web!WebScreenTable, mobile |-> Mobile!MobileScreenTable]
HookTable == [web |-> Web!WebScreenHooks, mobile |-> Mobile!MobileScreenHooks]

\* What is mounted beside a screen: the shell on the web, the tabs of the mode on mobile.
Beside(app, s) == {s} \cup (IF app = "web" THEN Web!WebShell ELSE Mobile!MainTabs(s))
Drawn(app, s) == UNION {Screens[app][x].shows : x \in Beside(app, s)}

\* What a success does to the entry under `query.key`.
RulesOf(query, mutation, act, hooks, leaves) ==
  LET keysOf(names) == {hooks[h].key : h \in names} IN
  [locks |-> act.lock # "none", asks |-> act.asks, leaves |-> leaves,
   expires |-> query.expires, polls |-> query.polls,
   invalidates |-> Web!Covers(mutation.drops, query.key),
   settles |-> Web!Covers(mutation.settles, query.key),
   overwrites |-> query.key \in mutation.sets \cup keysOf(act.primes),
   patches |-> query.key \in mutation.patches,
   refreshes |-> query.key \in keysOf(act.refreshes),
   optimistic |-> Web!Covers(mutation.optimistic, query.key),
   removes |-> Web!Covers(mutation.removes, query.key)]

PairsOf(app, s, n) ==
  LET hooks == HookTable[app]
      act == Screens[app][s].acts[n]
      mutation == hooks[act.call]
      affected == {q \in Drawn(app, s) : hooks[q].reads \cap mutation.writes # {}}
      \* A push keeps a mobile screen mounted under the next one, and the shell stays.
      leaves(q) == act.leaves /\ app = "web" /\ \A x \in Web!WebShell : q \notin Screens[app][x].shows
  IN  {[app |-> app, screen |-> s, act |-> n, query |-> q,
        rules |-> RulesOf(hooks[q], mutation, act, hooks, leaves(q))] :
         q \in affected}

Pairs ==
  UNION {UNION {UNION {PairsOf(app, s, n) : n \in DOMAIN Screens[app][s].acts} :
                  s \in DOMAIN Screens[app]} : app \in {"web", "mobile"}}
=============================================================================
