------------------------------- MODULE Economy -------------------------------
(***************************************************************************)
(* Points, referrals, the store and the wardrobe:                          *)
(* apps/api/src/routes/gamification.rs over the tables of migration 0014.  *)
(*                                                                         *)
(* A handler is a READ COMMITTED transaction.  What orders two of them is  *)
(* the row locks they hold: SELECT ... FOR UPDATE locks a row that exists, *)
(* an upsert locks its key whether it does or not, and locks are kept to   *)
(* the commit.  The step that takes a transaction's last lock is also the  *)
(* one that commits it.                                                    *)
(***************************************************************************)
EXTENDS Integers, FiniteSets

CONSTANTS
  Users, Items,
  Claimants,        \* the accounts that check in and claim referral codes
  Requests,         \* handlers in flight at the same time
  None,             \* SQL NULL
  Base, Step, MaxBonus,  \* DAILY_CHECKIN_BASE_, STREAK_STEP_POINTS, STREAK_MAX_BONUS
  Cooldown, StreakGrace, \* DAILY_CLAIM_COOLDOWN_, DAILY_STREAK_GRACE_HOURS
  ReferralReward,   \* REFERRAL_REWARD_POINTS
  RungAt, RungBonus, \* a rung of REFERRAL_MILESTONES
  Prices, Limits,   \* price_points and stock_limit an admin may set
  Grants,           \* amounts an admin may grant or take
  MaxTime, MaxPoints \* bounds on the clock and on what admins grant

ASSUME EconomyAssumption ==
  /\ IsFiniteSet(Users) /\ Claimants \subseteq Users
  /\ None \notin Users \union Items \union Int
  /\ {Base, Step, MaxBonus, ReferralReward, RungBonus} \subseteq Nat
  /\ {Cooldown, StreakGrace, MaxTime, MaxPoints} \subseteq Nat
  /\ RungAt \in Nat \ {0}
  /\ Prices \subseteq Nat
  /\ Limits \subseteq Nat \union {None}
  /\ Grants \subseteq Nat \ {0}

VARIABLES
  now,
  bal,       \* bal[u]: the row of user_balances
  ledger,    \* ledger[u]: the entries of balance_transactions, summed
  referrer,  \* referrer[u]: whose code u claimed (referrals)
  rungs,     \* history: rungs[u], milestone bonuses paid to u
  item,      \* item[i]: the row of store_items
  own,       \* user_inventory
  worn,      \* user_equipped_items (one slot)
  tx         \* tx[q]: the transaction handler q is in

vars == <<now, bal, ledger, referrer, rungs, item, own, worn, tx>>

NoBalance == [row |-> FALSE, points |-> 0, lifetime |-> 0, last |-> None, streak |-> 0]
NoItem == [state |-> "none", active |-> FALSE, price |-> 0, limit |-> None]
Idle == [op |-> "idle", user |-> None, other |-> None, item |-> None,
         balances |-> {}, listing |-> NoItem, streak |-> 0, at |-> 0]

Sold(i) == Cardinality({u \in Users : <<u, i>> \in own})
Invites(u) == Cardinality({v \in Users : referrer[v] = u})
BalanceHeld(q, u) == \E p \in Requests \ {q} : u \in tx[p].balances

(* Mutant: SELECT without FOR UPDATE.                                      *)
ItemHeld_Never(i) == FALSE

ItemHeld(i) == \E p \in Requests : tx[p].op = "buy" /\ tx[p].item = i

Begin(q, t) == tx[q] = Idle /\ tx' = [tx EXCEPT ![q] = t]
End(q) == tx' = [tx EXCEPT ![q] = Idle]

-----------------------------------------------------------------------------
(* credit and write_ledger: the balance and the entry that explains it.    *)

Credited(b, amount) ==
  [row |-> TRUE, points |-> b.points + amount, lifetime |-> b.lifetime + amount,
   last |-> b.last, streak |-> b.streak]

(* Mutant: a debit is not entered.                                         *)
Entered_Credits(l, amount) ==
  IF amount > 0 THEN [sum |-> l.sum + amount, credits |-> l.credits + amount] ELSE l

Entered(l, amount) ==
  [sum |-> l.sum + amount, credits |-> l.credits + IF amount > 0 THEN amount ELSE 0]

NextStreak(b) == IF b.last # None /\ now - b.last < StreakGrace THEN b.streak + 1 ELSE 1

Reward(streak) ==
  LET bonus == (streak - 1) * Step IN Base + IF bonus < MaxBonus THEN bonus ELSE MaxBonus

(* claim_daily_checkin: SELECT ... FOR UPDATE, which locks nothing before  *)
(* the first row exists, then the upsert.                                  *)

(* Mutant: the cooldown is not asked for.                                  *)
MayClaim_Always(b) == TRUE

MayClaim(b) == b.last # None => now - b.last >= Cooldown

CheckInRead(q, u) ==
  /\ bal[u].row => ~BalanceHeld(q, u)
  /\ MayClaim(bal[u])
  /\ Begin(q, [Idle EXCEPT !.op = "checkin", !.user = u, !.at = now,
                           !.streak = NextStreak(bal[u]),
                           !.balances = IF bal[u].row THEN {u} ELSE {}])
  /\ UNCHANGED <<now, bal, ledger, referrer, rungs, item, own, worn>>

CheckInWrite(q) ==
  /\ tx[q].op = "checkin"
  /\ LET u == tx[q].user
         reward == Reward(tx[q].streak) IN
     /\ ~BalanceHeld(q, u)
     /\ bal' = [bal EXCEPT ![u] = [Credited(@, reward) EXCEPT
                  !.last = tx[q].at, !.streak = tx[q].streak]]
     /\ ledger' = [ledger EXCEPT ![u] = Entered(@, reward)]
  /\ End(q)
  /\ UNCHANGED <<now, referrer, rungs, item, own, worn>>

-----------------------------------------------------------------------------
(* claim_referral: insert the referral, credit the caller, credit the      *)
(* referrer, count the referrer's invites and pay the rung just reached.   *)

ReferralInsert(q, u, v) ==
  /\ u # v
  /\ referrer[u] = None
  /\ \A p \in Requests : tx[p].op \in {"refer", "credited"} => tx[p].user # u
  /\ Begin(q, [Idle EXCEPT !.op = "refer", !.user = u, !.other = v])
  /\ UNCHANGED <<now, bal, ledger, referrer, rungs, item, own, worn>>

ReferralCaller(q) ==
  /\ tx[q].op = "refer"
  /\ ~BalanceHeld(q, tx[q].user)
  /\ tx' = [tx EXCEPT ![q].op = "credited", ![q].balances = {tx[q].user}]
  /\ UNCHANGED <<now, bal, ledger, referrer, rungs, item, own, worn>>

(* Mutant: the referral just inserted is not counted.                      *)
Reached_Before(invites) == invites - 1 = RungAt

Reached(invites) == invites = RungAt

ReferralReferrer(q) ==
  /\ tx[q].op = "credited"
  /\ LET u == tx[q].user
         v == tx[q].other
         bonus == IF Reached(Invites(v) + 1) THEN RungBonus ELSE 0 IN
     /\ ~BalanceHeld(q, v)
     /\ bal' = [bal EXCEPT ![u] = Credited(@, ReferralReward),
                           ![v] = Credited(@, ReferralReward + bonus)]
     /\ ledger' = [ledger EXCEPT ![u] = Entered(@, ReferralReward),
                                 ![v] = Entered(@, ReferralReward + bonus)]
     /\ referrer' = [referrer EXCEPT ![u] = v]
     /\ rungs' = [rungs EXCEPT ![v] = IF Reached(Invites(v) + 1) THEN @ + 1 ELSE @]
  /\ End(q)
  /\ UNCHANGED <<now, item, own, worn>>

(* admin_grant_points.                                                     *)

(* Mutant: a debit may exceed the balance.                                 *)
Covers_Any(b, amount) == TRUE

Covers(b, amount) == amount < 0 => b.points >= -amount

GrantPoints(u, amount) ==
  /\ ~BalanceHeld(None, u)
  /\ amount > 0 => bal[u].lifetime + amount <= MaxPoints
  /\ Covers(bal[u], amount)
  /\ bal' = [bal EXCEPT ![u] = IF amount > 0 THEN Credited(@, amount)
                               ELSE [bal[u] EXCEPT !.points = @ + amount]]
  /\ ledger' = [ledger EXCEPT ![u] = Entered(@, amount)]
  /\ UNCHANGED <<now, referrer, rungs, item, own, worn, tx>>

-----------------------------------------------------------------------------
(* purchase_store_item: lock the item, look at owner and stock; lock the   *)
(* balance, take the points, insert the inventory row.                     *)

InStock(i) == item[i].limit # None => Sold(i) < item[i].limit

BuyLock(q, u, i) ==
  /\ item[i].state = "listed" /\ item[i].active
  /\ ~ItemHeld(i)
  /\ <<u, i>> \notin own
  /\ InStock(i)
  /\ Begin(q, [Idle EXCEPT !.op = "buy", !.user = u, !.item = i, !.listing = item[i]])
  /\ UNCHANGED <<now, bal, ledger, referrer, rungs, item, own, worn>>

BuyPay(q) ==
  /\ tx[q].op = "buy"
  /\ LET u == tx[q].user
         price == tx[q].listing.price IN
     /\ bal[u].row => ~BalanceHeld(q, u)
     /\ bal[u].points >= price
     /\ bal' = [bal EXCEPT ![u].points = @ - price]
     /\ ledger' = [ledger EXCEPT ![u] = Entered(@, -price)]
     /\ own' = own \union {<<u, tx[q].item>>}
  /\ End(q)
  /\ UNCHANGED <<now, referrer, rungs, item, worn>>

(* admin_grant_item: the foreign key needs the item's row.                 *)
GrantItem(u, i) ==
  /\ item[i].state = "listed"
  /\ ~ItemHeld(i)
  /\ own' = own \union {<<u, i>>}
  /\ UNCHANGED <<now, bal, ledger, referrer, rungs, item, worn, tx>>

(* admin_create_store_item; admin_update_store_item, which reads the row   *)
(* and later writes all of it; admin_delete_store_item, which counts the   *)
(* owners and later deletes, cascading to inventory and wardrobe.          *)
CreateItem(i, price, limit) ==
  /\ item[i].state = "none"
  /\ item' = [item EXCEPT ![i] =
                [state |-> "listed", active |-> TRUE, price |-> price, limit |-> limit]]
  /\ UNCHANGED <<now, bal, ledger, referrer, rungs, own, worn, tx>>

UpdateRead(q, i) ==
  /\ item[i].state = "listed"
  /\ Begin(q, [Idle EXCEPT !.op = "update", !.item = i, !.listing = item[i]])
  /\ UNCHANGED <<now, bal, ledger, referrer, rungs, item, own, worn>>

UpdateWrite(q) ==
  /\ tx[q].op = "update"
  /\ LET i == tx[q].item
         old == tx[q].listing IN
     /\ item[i].state = "listed"
     /\ ~ItemHeld(i)
     /\ \/ \E price \in Prices : item' = [item EXCEPT ![i] = [old EXCEPT !.price = price]]
        \/ \E limit \in Limits : item' = [item EXCEPT ![i] = [old EXCEPT !.limit = limit]]
        \/ item' = [item EXCEPT ![i] = [old EXCEPT !.active = ~@]]
  /\ End(q)
  /\ UNCHANGED <<now, bal, ledger, referrer, rungs, own, worn>>

DeleteRead(q, i) ==
  /\ item[i].state = "listed"
  /\ Sold(i) = 0
  /\ Begin(q, [Idle EXCEPT !.op = "delete", !.item = i])
  /\ UNCHANGED <<now, bal, ledger, referrer, rungs, item, own, worn>>

(* Mutant: the wardrobe is not cleared.                                    *)
Undressed_Not(i) == worn

Undressed(i) == [u \in Users |-> IF worn[u] = i THEN None ELSE worn[u]]

DeleteWrite(q) ==
  /\ tx[q].op = "delete"
  /\ LET i == tx[q].item IN
     /\ ~ItemHeld(i)
     /\ item' = [item EXCEPT ![i] = [NoItem EXCEPT !.state = "deleted"]]
     /\ own' = {o \in own : o[2] # i}
     /\ worn' = Undressed(i)
  /\ End(q)
  /\ UNCHANGED <<now, bal, ledger, referrer, rungs>>

(* equip_cosmetics: ownership is read, then the slot is written; the       *)
(* slot's foreign key fails if the item has gone.                          *)
EquipRead(q, u, i) ==
  /\ <<u, i>> \in own
  /\ Begin(q, [Idle EXCEPT !.op = "equip", !.user = u, !.item = i])
  /\ UNCHANGED <<now, bal, ledger, referrer, rungs, item, own, worn>>

EquipWrite(q) ==
  /\ tx[q].op = "equip"
  /\ item[tx[q].item].state = "listed"
  /\ ~ItemHeld(tx[q].item)
  /\ worn' = [worn EXCEPT ![tx[q].user] = tx[q].item]
  /\ End(q)
  /\ UNCHANGED <<now, bal, ledger, referrer, rungs, item, own>>

Unequip(u) ==
  /\ worn[u] # None
  /\ worn' = [worn EXCEPT ![u] = None]
  /\ UNCHANGED <<now, bal, ledger, referrer, rungs, item, own, tx>>

(* A refusal, a constraint, a deadlock or a dropped handler: rolled back.  *)
Rollback(q) ==
  /\ tx[q] # Idle
  /\ End(q)
  /\ UNCHANGED <<now, bal, ledger, referrer, rungs, item, own, worn>>

Tick ==
  /\ now < MaxTime
  /\ now' = now + 1
  /\ UNCHANGED <<bal, ledger, referrer, rungs, item, own, worn, tx>>

-----------------------------------------------------------------------------
Init ==
  /\ now = 0
  /\ bal = [u \in Users |-> NoBalance]
  /\ ledger = [u \in Users |-> [sum |-> 0, credits |-> 0]]
  /\ referrer = [u \in Users |-> None]
  /\ rungs = [u \in Users |-> 0]
  /\ item = [i \in Items |-> NoItem]
  /\ own = {}
  /\ worn = [u \in Users |-> None]
  /\ tx = [q \in Requests |-> Idle]

Next ==
  \/ \E q \in Requests :
       \/ CheckInWrite(q) \/ ReferralCaller(q) \/ ReferralReferrer(q) \/ BuyPay(q)
       \/ UpdateWrite(q) \/ DeleteWrite(q) \/ EquipWrite(q) \/ Rollback(q)
       \/ \E u \in Claimants : CheckInRead(q, u)
       \/ \E u \in Claimants, v \in Users : ReferralInsert(q, u, v)
       \/ \E i \in Items : UpdateRead(q, i) \/ DeleteRead(q, i)
       \/ \E u \in Users, i \in Items : BuyLock(q, u, i) \/ EquipRead(q, u, i)
  \/ \E u \in Users : Unequip(u)
  \/ \E u \in Users, amount \in Grants \union {-a : a \in Grants} : GrantPoints(u, amount)
  \/ \E u \in Users, i \in Items : GrantItem(u, i)
  \/ \E i \in Items, price \in Prices, limit \in Limits : CreateItem(i, price, limit)
  \/ Tick

Spec == Init /\ [][Next]_vars

-----------------------------------------------------------------------------
TypeOK ==
  /\ now \in 0..MaxTime
  /\ bal \in [Users -> [row : BOOLEAN, points : Nat, lifetime : Nat,
                        last : 0..MaxTime \union {None}, streak : Nat]]
  /\ ledger \in [Users -> [sum : Int, credits : Nat]]
  /\ referrer \in [Users -> Users \union {None}]
  /\ rungs \in [Users -> Nat]
  /\ item \in [Items -> [state : {"none", "listed", "deleted"}, active : BOOLEAN,
                         price : Nat, limit : Nat \union {None}]]
  /\ own \subseteq Users \X Items
  /\ worn \in [Users -> Items \union {None}]
  /\ tx \in [Requests ->
       [op : {"idle", "checkin", "refer", "credited", "buy", "update", "delete", "equip"},
        user : Users \union {None}, other : Users \union {None},
        item : Items \union {None}, balances : SUBSET Users,
        listing : [state : {"none", "listed", "deleted"}, active : BOOLEAN,
                   price : Nat, limit : Nat \union {None}],
        streak : Nat, at : 0..MaxTime]]

(***************************************************************************)
(* The balance is the sum of its ledger and lifetime_earned the sum of the *)
(* credits ("Everything ever credited, ignoring what was spent"), whatever *)
(* check-ins, referrals, purchases and grants run at the same time.        *)
(***************************************************************************)
LedgerExplains ==
  \A u \in Users :
    /\ bal[u].points = ledger[u].sum
    /\ bal[u].lifetime = ledger[u].credits

(***************************************************************************)
(* lifetime_earned is "Everything ever credited, ignoring what was spent", *)
(* and "A debit may not push a balance below zero": whatever handlers      *)
(* interleave, rows appear or transactions roll back, the rows of          *)
(* user_balances move as the purses of the abstract specification do.      *)
(***************************************************************************)
Purses == INSTANCE Purse WITH points <- [u \in Users |-> bal[u].points],
                              earned <- [u \in Users |-> bal[u].lifetime]

ImplementsPurse == Purses!Spec

(***************************************************************************)
(* "Crossing a rung pays its bonus once" (claim_referral): however many    *)
(* referrals of one referrer are claimed at once, none skips or repeats    *)
(* the rung.                                                               *)
(***************************************************************************)
RungPaidOnce == \A u \in Users : rungs[u] = IF Invites(u) >= RungAt THEN 1 ELSE 0

(***************************************************************************)
(* "between reading the price and taking the points, nothing may reprice   *)
(* the row or sell the last of a limited run" (purchase_store_item): what  *)
(* a purchase saw when it began is still so when it pays.                  *)
(***************************************************************************)
LockedForTheDuration ==
  \A q \in Requests :
    tx[q].op = "buy" =>
      LET i == tx[q].item IN
      /\ item[i] = tx[q].listing
      /\ item[i].limit = None \/ Sold(i) < item[i].limit
      /\ <<tx[q].user, i>> \notin own

(***************************************************************************)
(* What somebody wears they own: the endpoint "is what makes that true"    *)
(* (equip_cosmetics), though the item may be deleted between its check and *)
(* its write.                                                              *)
(***************************************************************************)
WornIsOwned == \A u \in Users : worn[u] # None => <<u, worn[u]>> \in own

(***************************************************************************)
(* FOR UPDATE on the balance row "makes a double-tapped button one claim   *)
(* rather than two" (claim_daily_checkin), from the moment there is a row: *)
(* a check-in that found one pays only when the last is a cooldown old.    *)
(***************************************************************************)
ClaimsSpaced ==
  [][\A q \in Requests :
       CheckInWrite(q) /\ tx[q].balances # {} =>
         LET last == bal[tx[q].user].last IN
         last = None \/ tx[q].at - last >= Cooldown]_vars

=============================================================================
