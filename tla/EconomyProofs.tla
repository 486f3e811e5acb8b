---------------------------- MODULE EconomyProofs ----------------------------
(* Machine-checked facts about Economy, for any accounts, items, prices,   *)
(* rewards and number of transactions in flight.                           *)
EXTENDS Economy, FiniteSetTheorems, TLAPS

Balances == [row : BOOLEAN, points : Nat, lifetime : Nat,
             last : 0..MaxTime \union {None}, streak : Nat]
Ledgers == [sum : Int, credits : Nat]

Listings == [state : {"none", "listed", "deleted"}, active : BOOLEAN,
             price : Nat, limit : Nat \union {None}]
Explained(b, l) == b.points = l.sum /\ b.lifetime = l.credits

(* The two operators every movement of points goes through: what the       *)
(* balance gains is what the entry says.                                   *)
LEMMA CreditedIsEntered ==
  ASSUME NEW b \in Balances, NEW l \in Ledgers, NEW amount \in Nat, Explained(b, l)
  PROVE  /\ Credited(b, amount) \in Balances /\ Entered(l, amount) \in Ledgers
         /\ Explained(Credited(b, amount), Entered(l, amount))
BY DEF Balances, Ledgers, Credited, Entered, Explained

LEMMA DebitedIsEntered ==
  ASSUME NEW b \in Balances, NEW l \in Ledgers, NEW amount \in Nat, Explained(b, l),
         b.points >= amount
  PROVE  /\ [b EXCEPT !.points = b.points - amount] \in Balances
         /\ Entered(l, -amount) \in Ledgers
         /\ Explained([b EXCEPT !.points = b.points - amount], Entered(l, -amount))
BY DEF Balances, Ledgers, Entered, Explained

(* daily_reward never takes points away.                                   *)
LEMMA RewardIsNat == \A streak \in Nat \ {0} : Reward(streak) \in Nat
<1> SUFFICES ASSUME NEW streak \in Nat \ {0} PROVE Reward(streak) \in Nat
  OBVIOUS
<1>1. (streak - 1) * Step \in Nat
  BY EconomyAssumption
<1>2. QED
  BY <1>1, EconomyAssumption DEF Reward

-----------------------------------------------------------------------------
(* What a transaction carries between its steps: a check-in has an account *)
(* and a streak that has begun, so its bonus is not negative; a referral   *)
(* has two different accounts; the others an account or an item.           *)
Party(t) ==
  /\ t.op = "checkin" => t.user \in Users /\ t.streak # 0
  /\ t.op \in {"refer", "credited"} => t.user \in Users /\ t.other \in Users /\ t.user # t.other
  /\ t.op = "buy" => t.user \in Users /\ t.item \in Items
  /\ t.op = "equip" => t.user \in Users /\ t.item \in Items
  /\ t.op \in {"update", "delete"} => t.item \in Items

Parties == \A q \in Requests : Party(tx[q])

LedgerInv == TypeOK /\ Parties /\ LedgerExplains

(* The parts of the type invariant the proofs use by name.                 *)
LEMMA TypeParts ==
  TypeOK => bal \in [Users -> Balances] /\ ledger \in [Users -> Ledgers]
            /\ item \in [Items -> Listings]
BY DEF TypeOK, Balances, Ledgers, Listings

(* Every step touches the points of nobody, or of the parties of one       *)
(* transaction, each with the entry that explains it.                      *)
LEMMA NextLedger ==
  ASSUME LedgerInv, [Next]_vars
  PROVE  /\ bal' \in [Users -> Balances] /\ ledger' \in [Users -> Ledgers]
         /\ LedgerExplains'
<1> DEFINE Good == /\ bal' \in [Users -> Balances] /\ ledger' \in [Users -> Ledgers]
                   /\ LedgerExplains'
<1>0. /\ TypeOK /\ Parties
      /\ bal \in [Users -> Balances] /\ ledger \in [Users -> Ledgers]
      /\ \A u \in Users : Explained(bal[u], ledger[u])
  BY TypeParts DEF LedgerInv, LedgerExplains, Explained
<1>1. ASSUME bal' = bal, ledger' = ledger PROVE Good
  BY <1>0, <1>1 DEF LedgerExplains, Explained
<1>2. ASSUME NEW u \in Users, NEW b \in Balances, NEW l \in Ledgers, Explained(b, l),
             bal' = [bal EXCEPT ![u] = b], ledger' = [ledger EXCEPT ![u] = l]
      PROVE  Good
  BY <1>0, <1>2 DEF LedgerExplains, Explained
<1>3. ASSUME NEW q \in Requests, CheckInWrite(q) PROVE Good
  <2> DEFINE u == tx[q].user
             reward == Reward(tx[q].streak)
             b == [Credited(bal[u], reward) EXCEPT !.last = tx[q].at, !.streak = tx[q].streak]
  <2>1. tx[q].op = "checkin" /\ u \in Users /\ tx[q].streak \in Nat \ {0} /\ tx[q].at \in 0..MaxTime
        /\ bal' = [bal EXCEPT ![u] = b] /\ ledger' = [ledger EXCEPT ![u] = Entered(@, reward)]
    BY <1>3, <1>0 DEF CheckInWrite, Parties, Party, TypeOK
  <2>2. reward \in Nat
    BY <2>1, RewardIsNat
  <2> HIDE DEF u, reward
  <2>3. /\ Credited(bal[u], reward) \in Balances /\ Entered(ledger[u], reward) \in Ledgers
        /\ Explained(Credited(bal[u], reward), Entered(ledger[u], reward))
    BY <2>1, <2>2, <1>0, CreditedIsEntered
  <2>4. b \in Balances /\ Explained(b, Entered(ledger[u], reward))
    BY <2>3, <2>1 DEF Balances, Explained
  <2>5. QED
    BY <2>1, <2>3, <2>4, <1>2, <1>0
<1>4. ASSUME NEW q \in Requests, ReferralReferrer(q) PROVE Good
  <2> DEFINE u == tx[q].user
             v == tx[q].other
             gift == ReferralReward + IF Reached(Invites(v) + 1) THEN RungBonus ELSE 0
  <2>1. /\ u \in Users /\ v \in Users /\ u # v
        /\ bal' = [bal EXCEPT ![u] = Credited(bal[u], ReferralReward),
                              ![v] = Credited(bal[v], gift)]
        /\ ledger' = [ledger EXCEPT ![u] = Entered(ledger[u], ReferralReward),
                                    ![v] = Entered(ledger[v], gift)]
    BY <1>4, <1>0 DEF ReferralReferrer, Parties, Party
  <2>2. ReferralReward \in Nat /\ gift \in Nat
    BY EconomyAssumption
  <2> HIDE DEF u, v, gift
  <2>3. /\ Credited(bal[u], ReferralReward) \in Balances
        /\ Entered(ledger[u], ReferralReward) \in Ledgers
        /\ Explained(Credited(bal[u], ReferralReward), Entered(ledger[u], ReferralReward))
    BY <2>1, <2>2, <1>0, CreditedIsEntered
  <2>4. /\ Credited(bal[v], gift) \in Balances /\ Entered(ledger[v], gift) \in Ledgers
        /\ Explained(Credited(bal[v], gift), Entered(ledger[v], gift))
    BY <2>1, <2>2, <1>0, CreditedIsEntered
  <2>5. /\ bal' \in [Users -> Balances] /\ ledger' \in [Users -> Ledgers]
        /\ \A w \in Users : Explained(bal'[w], ledger'[w])
    BY <2>1, <2>3, <2>4, <1>0
  <2>6. QED
    BY <2>5 DEF LedgerExplains, Explained
<1>5. ASSUME NEW u \in Users, NEW amount \in Grants \union {-a : a \in Grants},
             GrantPoints(u, amount)
      PROVE  Good
  <2>1. CASE amount > 0
    <3>1. amount \in Nat
      BY <2>1, EconomyAssumption
    <3>2. bal' = [bal EXCEPT ![u] = Credited(bal[u], amount)]
          /\ ledger' = [ledger EXCEPT ![u] = Entered(ledger[u], amount)]
      BY <1>5, <2>1 DEF GrantPoints
    <3>3. QED
      BY <3>1, <3>2, <1>0, <1>2, CreditedIsEntered
  <2>2. CASE ~(amount > 0)
    <3> DEFINE a == -amount
    <3>1. a \in Nat /\ a > 0 /\ amount = -a /\ amount < 0
      BY <2>2, EconomyAssumption
    <3>2. bal[u].points \in Nat
      BY <1>0 DEF Balances
    <3>3. amount < 0 => bal[u].points >= -amount
      BY <1>5 DEF GrantPoints, Covers
    <3>4. bal' = [bal EXCEPT ![u] = [bal[u] EXCEPT !.points = bal[u].points + amount]]
          /\ ledger' = [ledger EXCEPT ![u] = Entered(ledger[u], amount)]
      BY <2>2, <1>5 DEF GrantPoints
    <3>5. bal[u].points >= a /\ bal[u].points + amount = bal[u].points - a
      BY <3>1, <3>2, <3>3
    <3>6. bal' = [bal EXCEPT ![u] = [bal[u] EXCEPT !.points = bal[u].points - a]]
          /\ ledger' = [ledger EXCEPT ![u] = Entered(ledger[u], -a)]
      BY <3>1, <3>4, <3>5
    <3> HIDE DEF a
    <3>7. QED
      BY <3>1, <3>5, <3>6, <1>0, <1>2, DebitedIsEntered
  <2>3. QED
    BY <2>1, <2>2
<1>6. ASSUME NEW q \in Requests, BuyPay(q) PROVE Good
  <2> DEFINE u == tx[q].user
             price == tx[q].listing.price
  <2>1. /\ u \in Users /\ bal[u].points >= price /\ price \in Nat
        /\ bal' = [bal EXCEPT ![u] = [bal[u] EXCEPT !.points = bal[u].points - price]]
        /\ ledger' = [ledger EXCEPT ![u] = Entered(ledger[u], -price)]
    BY <1>6, <1>0 DEF BuyPay, TypeOK, Parties, Party
  <2> HIDE DEF u, price
  <2>2. QED
    BY <2>1, <1>0, <1>2, DebitedIsEntered
<1>7. QED
  <2>1. CASE \/ \E q \in Requests : CheckInWrite(q) \/ ReferralReferrer(q) \/ BuyPay(q)
             \/ \E u \in Users, amount \in Grants \union {-a : a \in Grants} :
                  GrantPoints(u, amount)
    BY <2>1, <1>3, <1>4, <1>5, <1>6
  <2>2. CASE ~ \/ \E q \in Requests : CheckInWrite(q) \/ ReferralReferrer(q) \/ BuyPay(q)
               \/ \E u \in Users, amount \in Grants \union {-a : a \in Grants} :
                    GrantPoints(u, amount)
    <3>1. bal' = bal /\ ledger' = ledger
      BY <2>2 DEF Next, vars, ReferralCaller, UpdateWrite, DeleteWrite, EquipWrite,
         Rollback, CheckInRead, ReferralInsert, UpdateRead, DeleteRead, BuyLock, EquipRead,
         Unequip, GrantItem, CreateItem, Tick
    <3>2. QED
      BY <3>1, <1>1
  <2>3. QED
    BY <2>1, <2>2

-----------------------------------------------------------------------------
(* The rest of the state.  Each lemma looks at the variables one at a time *)
(* in the steps that write them.                                           *)
Ops == {"idle", "checkin", "refer", "credited", "buy", "update", "delete", "equip"}
Txs == [op : Ops, user : Users \union {None}, other : Users \union {None},
        item : Items \union {None}, balances : SUBSET Users,
        listing : Listings, streak : Nat, at : 0..MaxTime]

(* No step leaves a transaction without what its later steps need.         *)
LEMMA NextTx ==
  ASSUME LedgerInv, [Next]_vars
  PROVE  tx' \in [Requests -> Txs] /\ Parties'
<1> DEFINE Good == tx' \in [Requests -> Txs] /\ Parties'
<1>0. /\ tx \in [Requests -> Txs] /\ \A q \in Requests : Party(tx[q])
      /\ now \in 0..MaxTime /\ now \in Nat /\ item \in [Items -> Listings]
      /\ bal \in [Users -> Balances] /\ 0 \in 0..MaxTime /\ Claimants \subseteq Users
  BY TypeParts, EconomyAssumption
     DEF LedgerInv, TypeOK, Txs, Ops, Listings, Parties, Party
<1>1. NoItem \in Listings
  BY DEF NoItem, Listings
<1>2. Idle \in Txs /\ Party(Idle)
  BY <1>0, <1>1 DEF Idle, Txs, Ops, Party
<1>3. ASSUME tx' = tx PROVE Good
  BY <1>0, <1>3 DEF Parties, Party
<1>4. ASSUME NEW q \in Requests, NEW t \in Txs, Party(t), tx' = [tx EXCEPT ![q] = t]
      PROVE  Good
  BY <1>0, <1>4 DEF Parties, Party
<1>5. ASSUME NEW q \in Requests, End(q) PROVE Good
  BY <1>2, <1>4, <1>5 DEF End
<1>6. ASSUME NEW q \in Requests, ReferralCaller(q) PROVE Good
  <2> DEFINE t == [tx[q] EXCEPT !.op = "credited", !.balances = {tx[q].user}]
  <2>1. tx' = [tx EXCEPT ![q] = t] /\ tx[q].op = "refer"
    BY <1>6, <1>0 DEF ReferralCaller
  <2>2. t \in Txs
    BY <2>1, <1>0 DEF Txs, Ops, Party
  <2>3. Party(t)
    BY <2>1, <1>0 DEF Txs, Ops, Party
  <2>4. QED
    BY <2>1, <2>2, <2>3, <1>4
<1>7. ASSUME NEW q \in Requests, NEW u \in Claimants, CheckInRead(q, u) PROVE Good
  <2> DEFINE t == [Idle EXCEPT !.op = "checkin", !.user = u, !.at = now,
                              !.streak = NextStreak(bal[u]),
                              !.balances = IF bal[u].row THEN {u} ELSE {}]
  <2>1. tx' = [tx EXCEPT ![q] = t]
    BY <1>7 DEF CheckInRead, Begin
  <2>2. NextStreak(bal[u]) \in Nat \ {0}
    BY <1>0 DEF NextStreak, Balances
  <2>3. t \in Txs /\ Party(t)
    BY <2>2, <1>0, <1>2 DEF Txs, Ops, Party
  <2>4. QED
    BY <2>1, <2>3, <1>4
<1>8. ASSUME NEW q \in Requests, NEW u \in Claimants, NEW v \in Users, ReferralInsert(q, u, v)
      PROVE  Good
  <2> DEFINE t == [Idle EXCEPT !.op = "refer", !.user = u, !.other = v]
  <2>1. tx' = [tx EXCEPT ![q] = t] /\ u # v
    BY <1>8 DEF ReferralInsert, Begin
  <2>2. t \in Txs /\ Party(t)
    BY <2>1, <1>0, <1>2 DEF Txs, Ops, Party
  <2>3. QED
    BY <2>1, <2>2, <1>4
<1>9. ASSUME NEW q \in Requests, NEW i \in Items, UpdateRead(q, i) \/ DeleteRead(q, i) PROVE Good
  <2> DEFINE t == [Idle EXCEPT !.op = "update", !.item = i, !.listing = item[i]]
             s == [Idle EXCEPT !.op = "delete", !.item = i]
  <2>1. tx' = [tx EXCEPT ![q] = t] \/ tx' = [tx EXCEPT ![q] = s]
    BY <1>9 DEF UpdateRead, DeleteRead, Begin
  <2>2. t \in Txs /\ Party(t) /\ s \in Txs /\ Party(s)
    BY <1>0, <1>2 DEF Txs, Ops, Party
  <2>3. QED
    BY <2>1, <2>2, <1>4
<1>10. ASSUME NEW q \in Requests, NEW u \in Users, NEW i \in Items,
              BuyLock(q, u, i) \/ EquipRead(q, u, i)
       PROVE  Good
  <2> DEFINE t == [Idle EXCEPT !.op = "buy", !.user = u, !.item = i, !.listing = item[i]]
             s == [Idle EXCEPT !.op = "equip", !.user = u, !.item = i]
  <2>1. tx' = [tx EXCEPT ![q] = t] \/ tx' = [tx EXCEPT ![q] = s]
    BY <1>10 DEF BuyLock, EquipRead, Begin
  <2>2. t \in Txs /\ Party(t) /\ s \in Txs /\ Party(s)
    BY <1>0, <1>2 DEF Txs, Ops, Party
  <2>3. QED
    BY <2>1, <2>2, <1>4
<1>11. QED
  <2> SUFFICES Good
    OBVIOUS
  <2> HIDE DEF Good
  <2>1. CASE \E q \in Requests : End(q)
    BY <2>1, <1>5
  <2>2. CASE \E q \in Requests : ReferralCaller(q)
    BY <2>2, <1>6
  <2>3. CASE \E q \in Requests :
               \/ \E u \in Claimants : CheckInRead(q, u)
               \/ \E u \in Claimants, v \in Users : ReferralInsert(q, u, v)
               \/ \E i \in Items : UpdateRead(q, i) \/ DeleteRead(q, i)
               \/ \E u \in Users, i \in Items : BuyLock(q, u, i) \/ EquipRead(q, u, i)
    BY <2>3, <1>7, <1>8, <1>9, <1>10
  <2>4. CASE tx' = tx
    BY <2>4, <1>3
  <2>5. \/ tx' = tx
        \/ \E q \in Requests : End(q) \/ ReferralCaller(q)
        \/ \E q \in Requests :
               \/ \E u \in Claimants : CheckInRead(q, u)
               \/ \E u \in Claimants, v \in Users : ReferralInsert(q, u, v)
               \/ \E i \in Items : UpdateRead(q, i) \/ DeleteRead(q, i)
               \/ \E u \in Users, i \in Items : BuyLock(q, u, i) \/ EquipRead(q, u, i)
    BY DEF Next, vars, CheckInWrite, ReferralReferrer, BuyPay, UpdateWrite, DeleteWrite,
       EquipWrite, Rollback, Unequip, GrantPoints, GrantItem, CreateItem, Tick
  <2>6. QED
    BY <2>1, <2>2, <2>3, <2>4, <2>5

(* The clock, the referrals, the store and the wardrobe keep their types.  *)
LEMMA NextRest ==
  ASSUME LedgerInv, [Next]_vars
  PROVE  /\ now' \in 0..MaxTime
         /\ referrer' \in [Users -> Users \union {None}]
         /\ rungs' \in [Users -> Nat]
         /\ item' \in [Items -> Listings]
         /\ own' \subseteq Users \X Items
         /\ worn' \in [Users -> Items \union {None}]
<1>0. /\ now \in 0..MaxTime
      /\ referrer \in [Users -> Users \union {None}]
      /\ rungs \in [Users -> Nat]
      /\ item \in [Items -> Listings]
      /\ own \subseteq Users \X Items
      /\ worn \in [Users -> Items \union {None}]
      /\ Parties /\ \A q \in Requests : tx[q].listing \in Listings
  BY TypeParts DEF LedgerInv, TypeOK, Listings
<1>1. now' \in 0..MaxTime
  <2>1. now' = now \/ (now < MaxTime /\ now' = now + 1)
    BY DEF Next, vars, CheckInWrite, ReferralReferrer, ReferralCaller, BuyPay, UpdateWrite,
       DeleteWrite, EquipWrite, Rollback, Unequip, GrantPoints, GrantItem, CreateItem, Tick,
       CheckInRead, ReferralInsert, UpdateRead, DeleteRead, BuyLock, EquipRead
  <2>2. QED
    BY <2>1, <1>0, EconomyAssumption
<1>2. referrer' \in [Users -> Users \union {None}] /\ rungs' \in [Users -> Nat]
  <2>1. CASE \E q \in Requests : ReferralReferrer(q)
    BY <2>1, <1>0 DEF ReferralReferrer, Parties, Party
  <2>2. CASE referrer' = referrer /\ rungs' = rungs
    BY <2>2, <1>0
  <2>3. QED
    BY <2>1, <2>2 DEF Next, vars, CheckInWrite, ReferralCaller, BuyPay, UpdateWrite,
       DeleteWrite, EquipWrite, Rollback, Unequip, GrantPoints, GrantItem, CreateItem, Tick,
       CheckInRead, ReferralInsert, UpdateRead, DeleteRead, BuyLock, EquipRead
<1>3. item' \in [Items -> Listings]
  <2>1. ASSUME NEW q \in Requests, UpdateWrite(q) PROVE item' \in [Items -> Listings]
    <3> DEFINE i == tx[q].item
               old == tx[q].listing
    <3>1. i \in Items /\ old \in Listings
      BY <2>1, <1>0 DEF UpdateWrite, Parties, Party
    <3>2. PICK l : /\ item' = [item EXCEPT ![i] = l]
                   /\ \/ \E price \in Prices : l = [old EXCEPT !.price = price]
                      \/ \E limit \in Limits : l = [old EXCEPT !.limit = limit]
                      \/ l = [old EXCEPT !.active = ~old.active]
      BY <2>1 DEF UpdateWrite
    <3> HIDE DEF i, old
    <3>3. l \in Listings
      BY <3>1, <3>2, EconomyAssumption DEF Listings
    <3>4. QED
      BY <3>1, <3>2, <3>3, <1>0
  <2>2. ASSUME NEW q \in Requests, DeleteWrite(q) PROVE item' \in [Items -> Listings]
    BY <2>2, <1>0 DEF DeleteWrite, Parties, Party, Listings, NoItem
  <2>3. ASSUME NEW i \in Items, NEW price \in Prices, NEW limit \in Limits,
               CreateItem(i, price, limit)
        PROVE  item' \in [Items -> Listings]
    BY <2>3, <1>0, EconomyAssumption DEF CreateItem, Listings
  <2>4. CASE item' = item
    BY <2>4, <1>0
  <2>5. QED
    BY <2>1, <2>2, <2>3, <2>4 DEF Next, vars, CheckInWrite, ReferralReferrer, ReferralCaller,
       BuyPay, EquipWrite, Rollback, Unequip, GrantPoints, GrantItem, Tick,
       CheckInRead, ReferralInsert, UpdateRead, DeleteRead, BuyLock, EquipRead
<1>4. own' \subseteq Users \X Items
  <2>1. CASE \E q \in Requests : BuyPay(q) \/ DeleteWrite(q)
    BY <2>1, <1>0 DEF BuyPay, DeleteWrite, Parties, Party
  <2>2. CASE \E u \in Users, i \in Items : GrantItem(u, i)
    BY <2>2, <1>0 DEF GrantItem
  <2>3. CASE own' = own
    BY <2>3, <1>0
  <2>4. QED
    BY <2>1, <2>2, <2>3 DEF Next, vars, CheckInWrite, ReferralReferrer, ReferralCaller,
       UpdateWrite, EquipWrite, Rollback, Unequip, GrantPoints, CreateItem, Tick,
       CheckInRead, ReferralInsert, UpdateRead, DeleteRead, BuyLock, EquipRead
<1>5. worn' \in [Users -> Items \union {None}]
  <2>1. CASE \E q \in Requests : DeleteWrite(q)
    BY <2>1, <1>0 DEF DeleteWrite, Undressed
  <2>2. CASE \E q \in Requests : EquipWrite(q)
    BY <2>2, <1>0 DEF EquipWrite, Parties, Party
  <2>3. CASE \E u \in Users : Unequip(u)
    BY <2>3, <1>0 DEF Unequip
  <2>4. CASE worn' = worn
    BY <2>4, <1>0
  <2>5. QED
    BY <2>1, <2>2, <2>3, <2>4 DEF Next, vars, CheckInWrite, ReferralReferrer, ReferralCaller,
       BuyPay, UpdateWrite, Rollback, GrantPoints, GrantItem, CreateItem, Tick,
       CheckInRead, ReferralInsert, UpdateRead, DeleteRead, BuyLock, EquipRead
<1>6. QED
  BY <1>1, <1>2, <1>3, <1>4, <1>5

(* Before the first balance row there is nothing to explain.               *)
LEMMA InitLedger == Init => LedgerInv
<1> SUFFICES ASSUME Init PROVE LedgerInv
  OBVIOUS
<1>1. 0 \in 0..MaxTime
  BY EconomyAssumption
<1>2. TypeOK
  BY <1>1 DEF Init, TypeOK, NoBalance, NoItem, Idle
<1>3. Parties /\ LedgerExplains
  BY DEF Init, Parties, Party, LedgerExplains, NoBalance, Idle
<1>4. QED
  BY <1>2, <1>3 DEF LedgerInv

(* The ledger invariant is inductive.                                      *)
LEMMA LedgerInvariant == Spec => []LedgerInv
<1>1. LedgerInv /\ [Next]_vars => LedgerInv'
  <2> SUFFICES ASSUME LedgerInv, [Next]_vars PROVE LedgerInv'
    OBVIOUS
  <2>1. TypeOK'
    BY NextLedger, NextTx, NextRest DEF TypeOK, Balances, Ledgers, Listings, Txs, Ops
  <2>2. QED
    BY <2>1, NextLedger, NextTx DEF LedgerInv
<1>2. QED
  BY <1>1, InitLedger, PTL DEF Spec

(***************************************************************************)
(* The balances, the ledger, the store and the transactions in flight have *)
(* their types, for any number of handlers; in particular no balance goes  *)
(* below zero (points \in Nat), though purchases, debits and credits of    *)
(* one account interleave.                                                 *)
(***************************************************************************)
THEOREM EconomyTypeCorrect == Spec => []TypeOK
BY LedgerInvariant, PTL DEF LedgerInv

(***************************************************************************)
(* user_balances is always the sum of balance_transactions: credit and     *)
(* write_ledger stay in step whatever check-ins, referrals, purchases and  *)
(* grants run at the same time and wherever one of them is rolled back.    *)
(***************************************************************************)
THEOREM LedgerBalances == Spec => []LedgerExplains
BY LedgerInvariant, PTL DEF LedgerInv

-----------------------------------------------------------------------------
(* The refinement.  What a step does to the rows of user_balances is to    *)
(* earn, with the lifetime total rising by what the balance does, or to    *)
(* take from one balance no more than is in it.                            *)
Earns == \A u \in Users : /\ bal'[u].lifetime >= bal[u].lifetime
                          /\ bal'[u].points - bal[u].points = bal'[u].lifetime - bal[u].lifetime
Pays(u) ==
  /\ bal'[u].points <= bal[u].points /\ bal'[u].lifetime = bal[u].lifetime
  /\ \A v \in Users \ {u} : bal'[v] = bal[v]

(* Every step of the handlers earns or pays.                               *)
LEMMA EarnsOrPays ==
  ASSUME LedgerInv, [Next]_vars
  PROVE  Earns \/ \E u \in Users : Pays(u)
<1> DEFINE Good == Earns \/ \E u \in Users : Pays(u)
<1>0. TypeOK /\ Parties /\ bal \in [Users -> Balances]
  BY TypeParts DEF LedgerInv
<1>1. ASSUME bal' = bal PROVE Earns
  BY <1>0, <1>1 DEF Earns, Balances
<1>2. ASSUME NEW u \in Users, NEW price \in Nat, bal[u].points >= price,
             bal' = [bal EXCEPT ![u] = [bal[u] EXCEPT !.points = bal[u].points - price]]
      PROVE  Pays(u)
  BY <1>0, <1>2 DEF Pays, Balances
<1>3. ASSUME NEW u \in Users, NEW amount \in Nat, NEW b \in Balances,
             b.points = bal[u].points + amount, b.lifetime = bal[u].lifetime + amount,
             bal' = [bal EXCEPT ![u] = b]
      PROVE  Earns
  BY <1>0, <1>3 DEF Earns, Balances
<1>4. ASSUME NEW q \in Requests, CheckInWrite(q) PROVE Earns
  <2> DEFINE u == tx[q].user
             reward == Reward(tx[q].streak)
             b == [Credited(bal[u], reward) EXCEPT !.last = tx[q].at, !.streak = tx[q].streak]
  <2>1. u \in Users /\ tx[q].streak \in Nat \ {0} /\ tx[q].at \in 0..MaxTime
        /\ bal' = [bal EXCEPT ![u] = b]
    BY <1>4, <1>0 DEF CheckInWrite, Parties, Party, TypeOK
  <2>2. reward \in Nat
    BY <2>1, RewardIsNat
  <2>3. bal[u] \in Balances
    BY <2>1, <1>0
  <2> HIDE DEF u, reward
  <2> DEFINE c == Credited(bal[u], reward)
  <2>6. c \in Balances /\ c.points = bal[u].points + reward
        /\ c.lifetime = bal[u].lifetime + reward
    BY <2>2, <2>3 DEF Balances, Credited
  <2> HIDE DEF c
  <2>4. b \in Balances /\ b.points = bal[u].points + reward
        /\ b.lifetime = bal[u].lifetime + reward
    <3>1. b = [c EXCEPT !.last = tx[q].at, !.streak = tx[q].streak]
      BY DEF c
    <3>2. QED
      BY <2>1, <2>6, <3>1 DEF Balances
  <2> HIDE DEF b
  <2>5. QED
    BY <2>1, <2>2, <2>4, <1>3
<1>5. ASSUME NEW q \in Requests, ReferralReferrer(q) PROVE Earns
  <2> DEFINE u == tx[q].user
             v == tx[q].other
             gift == ReferralReward + IF Reached(Invites(v) + 1) THEN RungBonus ELSE 0
  <2>1. /\ u \in Users /\ v \in Users /\ u # v
        /\ bal' = [bal EXCEPT ![u] = Credited(bal[u], ReferralReward),
                              ![v] = Credited(bal[v], gift)]
    BY <1>5, <1>0 DEF ReferralReferrer, Parties, Party
  <2>2. ReferralReward \in Nat /\ gift \in Nat
    BY EconomyAssumption
  <2> HIDE DEF u, v, gift
  <2>3. /\ bal'[u] = Credited(bal[u], ReferralReward) /\ bal'[v] = Credited(bal[v], gift)
        /\ \A w \in Users \ {u, v} : bal'[w] = bal[w]
    BY <2>1, <1>0
  <2>4. \A w \in Users : bal[w].points \in Nat /\ bal[w].lifetime \in Nat
    BY <1>0 DEF Balances
  <2>5. ASSUME NEW w \in Users
        PROVE  /\ bal'[w].lifetime >= bal[w].lifetime
               /\ bal'[w].points - bal[w].points = bal'[w].lifetime - bal[w].lifetime
    <3>1. ASSUME NEW amount \in Nat, bal'[w] = Credited(bal[w], amount)
          PROVE  /\ bal'[w].points = bal[w].points + amount
                 /\ bal'[w].lifetime = bal[w].lifetime + amount
      BY <3>1 DEF Credited
    <3>2. CASE w = u
      BY <3>1, <3>2, <2>2, <2>3, <2>4
    <3>3. CASE w = v
      BY <3>1, <3>3, <2>2, <2>3, <2>4
    <3>4. CASE w \notin {u, v}
      BY <3>4, <2>3, <2>4
    <3>5. QED
      BY <3>2, <3>3, <3>4
  <2>6. QED
    BY <2>5 DEF Earns
<1>6. ASSUME NEW u \in Users, NEW amount \in Grants \union {-a : a \in Grants},
             GrantPoints(u, amount)
      PROVE  Good
  <2>0. bal[u] \in Balances /\ bal[u].points \in Nat
    BY <1>0 DEF Balances
  <2>1. CASE amount > 0
    <3> DEFINE b == Credited(bal[u], amount)
    <3>1. amount \in Nat
      BY <2>1, EconomyAssumption
    <3>2. bal' = [bal EXCEPT ![u] = b]
      BY <1>6, <2>1 DEF GrantPoints
    <3>3. b \in Balances /\ b.points = bal[u].points + amount
          /\ b.lifetime = bal[u].lifetime + amount
      BY <3>1, <2>0 DEF Balances, Credited
    <3> HIDE DEF b
    <3>4. Earns
      BY <3>1, <3>2, <3>3, <1>3
    <3>5. QED
      BY <3>4
  <2>2. CASE ~(amount > 0)
    <3> DEFINE a == -amount
    <3>1. a \in Nat /\ amount \in Int /\ amount < 0
      BY <2>2, EconomyAssumption
    <3>2. bal' = [bal EXCEPT ![u] = [bal[u] EXCEPT !.points = bal[u].points + amount]]
          /\ bal[u].points >= -amount
      BY <2>2, <3>1, <1>6 DEF GrantPoints, Covers
    <3>3. bal[u].points + amount = bal[u].points - a /\ bal[u].points >= a
      BY <3>1, <3>2, <2>0
    <3>4. bal' = [bal EXCEPT ![u] = [bal[u] EXCEPT !.points = bal[u].points - a]]
      BY <3>2, <3>3
    <3> HIDE DEF a
    <3>5. Pays(u)
      BY <3>1, <3>3, <3>4, <1>2
    <3>6. QED
      BY <3>5
  <2>3. QED
    BY <2>1, <2>2
<1>7. ASSUME NEW q \in Requests, BuyPay(q) PROVE Good
  <2> DEFINE u == tx[q].user
             price == tx[q].listing.price
  <2>1. /\ u \in Users /\ bal[u].points >= price /\ price \in Nat
        /\ bal' = [bal EXCEPT ![u] = [bal[u] EXCEPT !.points = bal[u].points - price]]
    BY <1>7, <1>0 DEF BuyPay, TypeOK, Parties, Party
  <2> HIDE DEF u, price
  <2>2. Pays(u)
    BY <2>1, <1>2
  <2>3. QED
    BY <2>1, <2>2
<1>8. CASE \/ \E q \in Requests : CheckInWrite(q) \/ ReferralReferrer(q) \/ BuyPay(q)
           \/ \E u \in Users, amount \in Grants \union {-a : a \in Grants} :
                GrantPoints(u, amount)
  BY <1>8, <1>4, <1>5, <1>6, <1>7
<1>9. CASE ~ \/ \E q \in Requests : CheckInWrite(q) \/ ReferralReferrer(q) \/ BuyPay(q)
             \/ \E u \in Users, amount \in Grants \union {-a : a \in Grants} :
                  GrantPoints(u, amount)
  <2>1. bal' = bal
    BY <1>9 DEF Next, vars, ReferralCaller, UpdateWrite, DeleteWrite, EquipWrite,
       Rollback, CheckInRead, ReferralInsert, UpdateRead, DeleteRead, BuyLock, EquipRead,
       Unequip, GrantItem, CreateItem, Tick
  <2>2. QED
    BY <2>1, <1>1
<1>10. QED
  BY <1>8, <1>9

(***************************************************************************)
(* Economy implements Purse under the mapping that reads an account's      *)
(* points and lifetime total off its row of user_balances: for any number  *)
(* of accounts and handlers, every step of a check-in, referral, purchase, *)
(* grant or correction is a step of the purses or leaves them alone.       *)
(***************************************************************************)
THEOREM EconomyImplementsPurse == Spec => ImplementsPurse
<1>1. Init => Purses!Init
  BY DEF Init, NoBalance, Purses!Init
<1>2. LedgerInv /\ LedgerInv' /\ [Next]_vars => [Purses!Next]_(Purses!vars)
  <2> SUFFICES ASSUME LedgerInv, LedgerInv', [Next]_vars PROVE Purses!Next
    OBVIOUS
  <2>1. /\ \A u \in Users : bal[u].points \in Nat /\ bal[u].lifetime \in Nat
        /\ \A u \in Users : bal'[u].points \in Nat /\ bal'[u].lifetime \in Nat
    BY TypeParts, NextLedger DEF LedgerInv, Balances
  <2>2. CASE Earns
    <3>1. Purses!Earn
      BY <2>1, <2>2 DEF Earns, Purses!Earn
    <3>2. QED
      BY <3>1 DEF Purses!Next
  <2>3. ASSUME NEW u \in Users, Pays(u) PROVE Purses!Next
    <3>1. bal'[u].points \in 0..bal[u].points
      BY <2>1, <2>3 DEF Pays
    <3>2. \A v \in Users : bal'[v].points = (IF v = u THEN bal'[u].points ELSE bal[v].points)
                          /\ bal'[v].lifetime = bal[v].lifetime
      BY <2>3 DEF Pays
    <3>3. Purses!Spend(u)
      BY <3>1, <3>2 DEF Purses!Spend
    <3>4. QED
      BY <3>3 DEF Purses!Next
  <2>4. QED
    BY <2>2, <2>3, EarnsOrPays
<1>3. QED
  BY <1>1, <1>2, LedgerInvariant, PTL DEF Spec, ImplementsPurse, Purses!Spec

-----------------------------------------------------------------------------
(* The store's half of Economy: what the lock on an item row, and the      *)
(* foreign keys of inventory and wardrobe, keep true of every purchase,    *)
(* grant, edit, deletion and change of clothes in flight together.         *)

(* A purchase holds the row it read; an edit goes back to a listed row; a  *)
(* check of ownership stays good for as long as the item is listed.        *)
Buying(t) ==
  t.op = "buy" => /\ t.listing.state = "listed" /\ item[t.item] = t.listing
                  /\ InStock(t.item) /\ <<t.user, t.item>> \notin own
Editing(t) == t.op = "update" => t.listing.state = "listed"
Dressing(t) ==
  t.op = "equip" => /\ item[t.item].state # "none"
                    /\ item[t.item].state = "listed" => <<t.user, t.item>> \in own

Buys == /\ \A q \in Requests : Buying(tx[q])
        /\ \A p, q \in Requests :
             tx[p].op = "buy" /\ tx[q].op = "buy" /\ tx[p].item = tx[q].item => p = q
Edits == \A q \in Requests : Editing(tx[q])
Dresses == \A q \in Requests : Dressing(tx[q])
OwnedIsListed == \A u \in Users, i \in Items : <<u, i>> \in own => item[i].state = "listed"

StoreInv == Buys /\ Edits /\ Dresses /\ OwnedIsListed /\ WornIsOwned

-----------------------------------------------------------------------------
LEMMA StoreTypes ==
  ASSUME LedgerInv
  PROVE  /\ item \in [Items -> Listings] /\ own \subseteq Users \X Items
         /\ worn \in [Users -> Items \union {None}] /\ Items \cap {None} = {}
         /\ tx \in [Requests -> Txs] /\ \A q \in Requests : Party(tx[q])
<1>1. /\ item \in [Items -> Listings] /\ own \subseteq Users \X Items
      /\ worn \in [Users -> Items \union {None}]
      /\ tx \in [Requests -> Txs]
  BY DEF LedgerInv, TypeOK, Listings, Txs, Ops
<1>2. Items \cap {None} = {}
  BY EconomyAssumption
<1>3. \A q \in Requests : Party(tx[q])
  BY DEF LedgerInv, Parties
<1> QED
  BY <1>1, <1>2, <1>3

(* What is sold of an item depends on the inventory rows of that item.     *)
LEMMA SoldKept ==
  ASSUME NEW i, \A u \in Users : <<u, i>> \in own' <=> <<u, i>> \in own
  PROVE  Sold(i)' = Sold(i)
<1>1. {u \in Users : <<u, i>> \in own'} = {u \in Users : <<u, i>> \in own}
  OBVIOUS
<1> QED
  BY <1>1 DEF Sold

(* A step that ends transactions and touches one item that no purchase     *)
(* still holds leaves every purchase what it locked.                       *)
LEMMA TouchOne ==
  ASSUME LedgerInv, Buys, NEW i \in Items,
         \A p \in Requests : tx'[p] = tx[p] \/ tx'[p] = Idle,
         \A p \in Requests : tx'[p].op = "buy" => tx'[p].item # i,
         \A j \in Items \ {i} : /\ item'[j] = item[j]
                                /\ \A u \in Users : <<u, j>> \in own' <=> <<u, j>> \in own
  PROVE  Buys'
<1>1. Idle.op # "buy"
  BY DEF Idle
<1>2. ASSUME NEW q \in Requests, tx'[q].op = "buy"
      PROVE  tx'[q] = tx[q] /\ Buying(tx[q])'
  <2>1. tx'[q] = tx[q] /\ tx[q].item # i /\ tx[q].op = "buy" /\ Buying(tx[q])
    BY <1>1, <1>2 DEF Buys
  <2>2. PICK u \in Users, j \in Items \ {i} : u = tx[q].user /\ j = tx[q].item
    BY <2>1, StoreTypes DEF Party
  <2>3. item'[j] = item[j] /\ Sold(j)' = Sold(j) /\ (<<u, j>> \in own' <=> <<u, j>> \in own)
    BY SoldKept
  <2>4. InStock(j) => InStock(j)'
    BY <2>3 DEF InStock
  <2>5. tx[q].listing.state = "listed" /\ item[j] = tx[q].listing /\ InStock(j)
        /\ <<u, j>> \notin own
    BY <2>1, <2>2 DEF Buying
  <2>6. InStock(j)' => InStock(tx[q].item)'
    BY <2>1, <2>2 DEF InStock, Sold
  <2>7. /\ tx'[q].listing.state = "listed" /\ item'[tx'[q].item] = tx'[q].listing
        /\ <<tx'[q].user, tx'[q].item>> \notin own'
    BY <2>1, <2>2, <2>3, <2>5
  <2> QED
    BY <2>1, <2>4, <2>5, <2>6, <2>7 DEF Buying
<1>3. ASSUME NEW p \in Requests, NEW q \in Requests, tx'[p].op = "buy", tx'[q].op = "buy",
             tx'[p].item = tx'[q].item
      PROVE  p = q
  <2>1. tx'[p] = tx[p] /\ tx'[q] = tx[q]
    BY <1>2, <1>3
  <2> QED
    BY <1>3, <2>1 DEF Buys
<1>4. ASSUME NEW q \in Requests PROVE Buying(tx[q])'
  <2>1. CASE tx'[q].op = "buy"
    BY <1>2, <2>1
  <2>2. CASE tx'[q].op # "buy"
    BY <2>2 DEF Buying
  <2> QED
    BY <2>1, <2>2
<1> QED
  BY <1>3, <1>4 DEF Buys

(* A step of one transaction that writes nothing of the store.             *)
LEMMA OneTransaction ==
  ASSUME LedgerInv, StoreInv, NEW q \in Requests, NEW t,
         tx' = [tx EXCEPT ![q] = t], item' = item, own' = own, worn' = worn,
         Buying(t), Editing(t), Dressing(t), t.op = "buy" => ~ItemHeld(t.item)
  PROVE  StoreInv'
<1>1. \A p \in Requests : tx'[p] = IF p = q THEN t ELSE tx[p]
  BY StoreTypes
<1>2. \A i : InStock(i)' <=> InStock(i)
  BY DEF InStock, Sold
<1>3. Buys'
  BY <1>1, <1>2 DEF StoreInv, Buys, Buying, ItemHeld
<1>4. Edits' /\ Dresses' /\ OwnedIsListed' /\ WornIsOwned'
  BY <1>1 DEF StoreInv, Edits, Editing, Dresses, Dressing, OwnedIsListed, WornIsOwned
<1> QED
  BY <1>3, <1>4 DEF StoreInv

LEMMA StoreStep == ASSUME LedgerInv, StoreInv, [Next]_vars PROVE StoreInv'
<1>0. /\ item \in [Items -> Listings] /\ own \subseteq Users \X Items
      /\ worn \in [Users -> Items \union {None}] /\ Items \cap {None} = {}
      /\ tx \in [Requests -> Txs] /\ \A q \in Requests : Party(tx[q])
      /\ Buys /\ Edits /\ Dresses /\ OwnedIsListed /\ WornIsOwned
  BY StoreTypes DEF StoreInv
<1>1. Buying(Idle) /\ Editing(Idle) /\ Dressing(Idle) /\ Idle.op # "buy"
  BY DEF Idle, Buying, Editing, Dressing
(* Ended transactions keep what the living ones rely on.                   *)
<1> DEFINE Ended == \A p \in Requests : tx'[p] = tx[p] \/ tx'[p] = Idle
<1>2. ASSUME Ended PROVE Edits'
  BY <1>0, <1>1, <1>2 DEF Edits, Editing
<1>3. ASSUME Ended,
             \A i \in Items :
               \/ item'[i].state = "deleted"
               \/ item[i].state = "none"
               \/ /\ item'[i].state = item[i].state
                  /\ \A u \in Users : <<u, i>> \in own => <<u, i>> \in own'
      PROVE  Dresses'
  <2>1. ASSUME NEW p \in Requests, tx'[p] = tx[p], tx[p].op = "equip" PROVE Dressing(tx[p])'
    <3>1. tx[p].user \in Users /\ tx[p].item \in Items /\ Dressing(tx[p])
      BY <1>0, <2>1 DEF Party, Dresses
    <3> QED
      BY <1>3, <2>1, <3>1 DEF Dressing
  <2>2. ASSUME NEW p \in Requests PROVE Dressing(tx[p])'
    <3>1. CASE tx'[p] = tx[p] /\ tx[p].op = "equip"
      BY <2>1, <2>2, <3>1
    <3>2. CASE tx'[p].op # "equip"
      BY <3>2 DEF Dressing
    <3>3. Idle.op # "equip"
      BY DEF Idle
    <3> QED
      BY <1>3, <2>2, <3>1, <3>2, <3>3
  <2> QED
    BY <2>2 DEF Dresses
<1>4. ASSUME NEW q \in Requests, End(q)
      PROVE  Ended /\ tx'[q] = Idle /\ \A p \in Requests \ {q} : tx'[p] = tx[p]
  BY <1>0, <1>4 DEF End
<1>5. ASSUME NEW i \in Items, ~ItemHeld(i), Ended
      PROVE  \A p \in Requests : tx'[p].op = "buy" => tx'[p].item # i
  BY <1>1, <1>5 DEF ItemHeld
<1>6. ASSUME NEW q \in Requests, BuyPay(q) PROVE StoreInv'
  <2> DEFINE u == tx[q].user
             i == tx[q].item
  <2>1. /\ u \in Users /\ i \in Items /\ own' = own \union {<<u, i>>} /\ item' = item
        /\ worn' = worn /\ item[i].state = "listed" /\ Ended
        /\ tx'[q] = Idle /\ \A p \in Requests \ {q} : tx'[p] = tx[p]
    BY <1>0, <1>4, <1>6 DEF BuyPay, Party, Buys, Buying
  <2>2. \A p \in Requests : tx'[p].op = "buy" => tx'[p].item # i
    BY <1>0, <1>1, <1>6, <2>1 DEF BuyPay, Buys
  <2> HIDE DEF u, i
  <2>3. Buys'
    BY <1>0, <2>1, <2>2, TouchOne
  <2>4. Dresses' /\ Edits'
    BY <1>2, <1>3, <2>1
  <2>5. OwnedIsListed' /\ WornIsOwned'
    BY <1>0, <2>1 DEF OwnedIsListed, WornIsOwned
  <2> QED
    BY <2>3, <2>4, <2>5 DEF StoreInv
<1>7. ASSUME NEW u \in Users, NEW i \in Items, GrantItem(u, i) PROVE StoreInv'
  <2>1. /\ own' = own \union {<<u, i>>} /\ item' = item /\ worn' = worn
        /\ item[i].state = "listed" /\ Ended /\ ~ItemHeld(i)
    BY <1>7 DEF GrantItem
  <2>2. Buys'
    BY <1>0, <1>5, <2>1, TouchOne
  <2>3. Dresses' /\ Edits'
    BY <1>2, <1>3, <2>1
  <2>4. OwnedIsListed' /\ WornIsOwned'
    BY <1>0, <2>1 DEF OwnedIsListed, WornIsOwned
  <2> QED
    BY <2>2, <2>3, <2>4 DEF StoreInv
<1>8. ASSUME NEW i \in Items, NEW price \in Prices, NEW limit \in Limits,
             CreateItem(i, price, limit)
      PROVE  StoreInv'
  <2>1. /\ own' = own /\ worn' = worn /\ item[i].state = "none" /\ Ended
        /\ \A j \in Items \ {i} : item'[j] = item[j]
    BY <1>0, <1>8 DEF CreateItem
  <2>2. \A p \in Requests : tx'[p].op = "buy" => tx'[p].item # i
    BY <1>0, <1>8, <2>1 DEF CreateItem, Buys, Buying
  <2>3. Buys'
    BY <1>0, <2>1, <2>2, TouchOne
  <2>4. Dresses' /\ Edits'
    BY <1>2, <1>3, <2>1
  <2>5. OwnedIsListed' /\ WornIsOwned'
    BY <1>0, <2>1 DEF OwnedIsListed, WornIsOwned
  <2> QED
    BY <2>3, <2>4, <2>5 DEF StoreInv
<1>9. ASSUME NEW q \in Requests, UpdateWrite(q) PROVE StoreInv'
  <2> DEFINE i == tx[q].item
  <2>1. /\ i \in Items /\ own' = own /\ worn' = worn /\ Ended /\ ~ItemHeld(i)
        /\ item[i].state = "listed" /\ Editing(tx[q])
    BY <1>0, <1>4, <1>9 DEF UpdateWrite, Party, Edits
  <2>2. item'[i].state = "listed" /\ \A j \in Items \ {i} : item'[j] = item[j]
    <3> DEFINE old == tx[q].listing
    <3>1. old \in Listings /\ old.state = "listed"
      BY <1>0, <1>9, <2>1 DEF UpdateWrite, Editing, Txs
    <3>2. PICK l : /\ item' = [item EXCEPT ![i] = l]
                   /\ \/ \E price \in Prices : l = [old EXCEPT !.price = price]
                      \/ \E limit \in Limits : l = [old EXCEPT !.limit = limit]
                      \/ l = [old EXCEPT !.active = ~old.active]
      BY <1>9 DEF UpdateWrite
    <3> HIDE DEF i, old
    <3>3. l.state = "listed"
      BY <3>1, <3>2 DEF Listings
    <3> QED
      BY <1>0, <2>1, <3>2, <3>3
  <2> HIDE DEF i
  <2>3. Buys'
    BY <1>0, <1>5, <2>1, <2>2, TouchOne
  <2>4. Dresses' /\ Edits'
    BY <1>2, <1>3, <2>1, <2>2
  <2>5. OwnedIsListed' /\ WornIsOwned'
    BY <1>0, <2>1, <2>2 DEF OwnedIsListed, WornIsOwned
  <2> QED
    BY <2>3, <2>4, <2>5 DEF StoreInv
<1>10. ASSUME NEW q \in Requests, DeleteWrite(q) PROVE StoreInv'
  <2> DEFINE i == tx[q].item
  <2>1. /\ i \in Items /\ own' = {o \in own : o[2] # i} /\ worn' = Undressed(i) /\ Ended
        /\ ~ItemHeld(i) /\ item'[i].state = "deleted"
        /\ \A j \in Items \ {i} : item'[j] = item[j]
    BY <1>0, <1>4, <1>10 DEF DeleteWrite, Party, NoItem
  <2> HIDE DEF i
  <2>2. \A j \in Items, u \in Users : <<u, j>> \in own' <=> <<u, j>> \in own /\ j # i
    BY <2>1
  <2>3. \A j \in Items :
          \/ item'[j].state = "deleted"
          \/ /\ item'[j].state = item[j].state
             /\ \A u \in Users : <<u, j>> \in own => <<u, j>> \in own'
    BY <2>1, <2>2
  <2>4. Buys'
    BY <1>0, <1>5, <2>1, <2>2, TouchOne
  <2>5. Dresses' /\ Edits'
    BY <1>2, <1>3, <2>1, <2>3
  <2>6. OwnedIsListed'
    BY <1>0, <2>1, <2>2 DEF OwnedIsListed
  <2>7. WornIsOwned'
    BY <1>0, <2>1, <2>2 DEF WornIsOwned, Undressed
  <2> QED
    BY <2>4, <2>5, <2>6, <2>7 DEF StoreInv
<1>11. ASSUME NEW q \in Requests, EquipWrite(q) PROVE StoreInv'
  <2> DEFINE i == tx[q].item
  <2>1. /\ i \in Items /\ own' = own /\ item' = item /\ Ended /\ ~ItemHeld(i)
        /\ tx[q].user \in Users /\ <<tx[q].user, i>> \in own
        /\ worn' = [worn EXCEPT ![tx[q].user] = i]
    BY <1>0, <1>4, <1>11 DEF EquipWrite, Party, Dresses, Dressing
  <2> HIDE DEF i
  <2>2. Buys'
    BY <1>0, <1>5, <2>1, TouchOne
  <2>3. Dresses' /\ Edits'
    BY <1>2, <1>3, <2>1
  <2>4. OwnedIsListed' /\ WornIsOwned'
    BY <1>0, <2>1 DEF OwnedIsListed, WornIsOwned
  <2> QED
    BY <2>2, <2>3, <2>4 DEF StoreInv
<1>12. ASSUME UNCHANGED <<item, own, tx>>,
              \A u \in Users : worn'[u] = worn[u] \/ worn'[u] = None
       PROVE  StoreInv'
  <2>1. \A i : InStock(i)' <=> InStock(i)
    BY <1>12 DEF InStock, Sold
  <2> QED
    BY <1>0, <1>12, <2>1 DEF StoreInv, Buys, Buying, Edits, Editing, Dresses, Dressing,
       OwnedIsListed, WornIsOwned
<1>13. ASSUME NEW q \in Requests, End(q), UNCHANGED <<item, own, worn>> PROVE StoreInv'
  BY <1>1, <1>13, OneTransaction DEF End
<1>14. ASSUME NEW q \in Requests, ReferralCaller(q) PROVE StoreInv'
  <2> DEFINE t == [tx[q] EXCEPT !.op = "credited", !.balances = {tx[q].user}]
  <2>1. tx' = [tx EXCEPT ![q] = t] /\ UNCHANGED <<item, own, worn>>
    BY <1>0, <1>14 DEF ReferralCaller
  <2>2. t.op = "credited"
    BY <1>0 DEF Txs
  <2> HIDE DEF t
  <2> QED
    BY <2>1, <2>2, OneTransaction DEF Buying, Editing, Dressing
<1>15. ASSUME NEW q \in Requests, NEW u \in Users,
              CheckInRead(q, u) \/ \E v \in Users : ReferralInsert(q, u, v)
       PROVE  StoreInv'
  <2>1. PICK t : /\ tx' = [tx EXCEPT ![q] = t] /\ t.op \in {"checkin", "refer"}
                 /\ UNCHANGED <<item, own, worn>>
    BY <1>15 DEF CheckInRead, ReferralInsert, Begin, Idle
  <2> QED
    BY <2>1, OneTransaction DEF Buying, Editing, Dressing
<1>16. ASSUME NEW q \in Requests, NEW i \in Items, UpdateRead(q, i) \/ DeleteRead(q, i)
       PROVE  StoreInv'
  <2>1. PICK t : /\ tx' = [tx EXCEPT ![q] = t] /\ UNCHANGED <<item, own, worn>>
                 /\ t.op \in {"update", "delete"} /\ Editing(t)
    <3> DEFINE t == [Idle EXCEPT !.op = "update", !.item = i, !.listing = item[i]]
               s == [Idle EXCEPT !.op = "delete", !.item = i]
    <3>1. /\ tx' = [tx EXCEPT ![q] = t] \/ tx' = [tx EXCEPT ![q] = s]
          /\ UNCHANGED <<item, own, worn>> /\ item[i].state = "listed"
      BY <1>16 DEF UpdateRead, DeleteRead, Begin
    <3>2. t.op = "update" /\ t.listing = item[i] /\ s.op = "delete"
      BY DEF Idle
    <3> HIDE DEF t, s
    <3> QED
      BY <3>1, <3>2 DEF Editing
  <2> QED
    BY <2>1, OneTransaction DEF Buying, Dressing
<1>17. ASSUME NEW q \in Requests, NEW u \in Users, NEW i \in Items, BuyLock(q, u, i)
       PROVE  StoreInv'
  <2> DEFINE t == [Idle EXCEPT !.op = "buy", !.user = u, !.item = i, !.listing = item[i]]
  <2>1. /\ tx' = [tx EXCEPT ![q] = t] /\ UNCHANGED <<item, own, worn>> /\ ~ItemHeld(i)
        /\ item[i].state = "listed" /\ <<u, i>> \notin own /\ InStock(i)
    BY <1>17 DEF BuyLock, Begin
  <2>2. t.op = "buy" /\ t.user = u /\ t.item = i /\ t.listing = item[i]
    BY DEF Idle
  <2> HIDE DEF t
  <2> QED
    BY <2>1, <2>2, OneTransaction DEF Buying, Editing, Dressing
<1>18. ASSUME NEW q \in Requests, NEW u \in Users, NEW i \in Items, EquipRead(q, u, i)
       PROVE  StoreInv'
  <2> DEFINE t == [Idle EXCEPT !.op = "equip", !.user = u, !.item = i]
  <2>1. /\ tx' = [tx EXCEPT ![q] = t] /\ UNCHANGED <<item, own, worn>> /\ <<u, i>> \in own
        /\ item[i].state = "listed"
    BY <1>0, <1>18 DEF EquipRead, Begin, OwnedIsListed
  <2>2. t.op = "equip" /\ t.user = u /\ t.item = i
    BY DEF Idle
  <2> HIDE DEF t
  <2> QED
    BY <2>1, <2>2, OneTransaction DEF Buying, Editing, Dressing
<1>19. CASE UNCHANGED vars
  BY <1>12, <1>19 DEF vars
<1>20. ASSUME NEW u \in Users,
              \/ Unequip(u)
              \/ \E amount \in Grants \union {-a : a \in Grants} : GrantPoints(u, amount)
       PROVE  StoreInv'
  BY <1>0, <1>12, <1>20 DEF Unequip, GrantPoints
<1>21. CASE Tick
  BY <1>0, <1>12, <1>21 DEF Tick
<1>22. ASSUME NEW q \in Requests, CheckInWrite(q) \/ ReferralReferrer(q) \/ Rollback(q)
       PROVE  StoreInv'
  BY <1>13, <1>22 DEF CheckInWrite, ReferralReferrer, Rollback
<1>23. CASE \E q \in Requests :
              \/ CheckInWrite(q) \/ ReferralCaller(q) \/ ReferralReferrer(q) \/ BuyPay(q)
              \/ UpdateWrite(q) \/ DeleteWrite(q) \/ EquipWrite(q) \/ Rollback(q)
  BY <1>23, <1>6, <1>9, <1>10, <1>11, <1>14, <1>22
<1>24. CASE \E q \in Requests :
              \/ \E u \in Claimants : CheckInRead(q, u)
              \/ \E u \in Claimants, v \in Users : ReferralInsert(q, u, v)
              \/ \E i \in Items : UpdateRead(q, i) \/ DeleteRead(q, i)
              \/ \E u \in Users, i \in Items : BuyLock(q, u, i) \/ EquipRead(q, u, i)
  BY <1>24, <1>15, <1>16, <1>17, <1>18, EconomyAssumption
<1> QED
  BY <1>7, <1>8, <1>19, <1>20, <1>21, <1>23, <1>24 DEF Next

LEMMA StoreInvariant == Spec => []StoreInv
<1>1. Init => StoreInv
  BY DEF Init, Idle, StoreInv, Buys, Buying, Edits, Editing, Dresses, Dressing,
         OwnedIsListed, WornIsOwned
<1>2. LedgerInv /\ StoreInv /\ [Next]_vars => StoreInv'
  BY StoreStep
<1> QED
  BY <1>1, <1>2, LedgerInvariant, PTL DEF Spec

(***************************************************************************)
(* purchase_store_item holds the item row from the read to the payment:    *)
(* until it pays, no edit, grant, deletion or other purchase changes the   *)
(* price it read, the copies left or that the buyer has none.              *)
(***************************************************************************)
THEOREM LockHolds == Spec => []LockedForTheDuration
<1>1. StoreInv => LockedForTheDuration
  BY DEF StoreInv, Buys, Buying, InStock, LockedForTheDuration
<1> QED
  BY <1>1, StoreInvariant, PTL

(***************************************************************************)
(* equip_cosmetics checks ownership and writes the slot later: the foreign *)
(* key on a deleted item, and the cascade of admin_delete_store_item, see  *)
(* to it that nobody ever wears what they do not own.                      *)
(***************************************************************************)
THEOREM WardrobeIsOwned == Spec => []WornIsOwned
<1>1. StoreInv => WornIsOwned
  BY DEF StoreInv
<1> QED
  BY <1>1, StoreInvariant, PTL

-----------------------------------------------------------------------------
(* The referral ladder of Economy: however many claims of one referrer's   *)
(* code are in flight, and whichever roll back, the rung is paid once.     *)

Claiming == {"refer", "credited"}

(* The unique key of referrals: one claim of an account at a time, and     *)
(* none once it has a referrer.                                            *)
ClaimsAlone ==
  /\ \A q \in Requests : tx[q].op \in Claiming => referrer[tx[q].user] = None
  /\ \A p, q \in Requests :
       tx[p].op \in Claiming /\ tx[q].op \in Claiming /\ tx[p].user = tx[q].user => p = q

RungInv == ClaimsAlone /\ RungPaidOnce

Invited(v) == {u \in Users : referrer[u] = v}

-----------------------------------------------------------------------------
LEMMA ClaimTypes ==
  ASSUME LedgerInv
  PROVE  /\ tx \in [Requests -> Txs] /\ \A q \in Requests : Party(tx[q])
         /\ referrer \in [Users -> Users \union {None}] /\ rungs \in [Users -> Nat]
         /\ None \notin Users
<1>1. tx \in [Requests -> Txs] /\ \A q \in Requests : Party(tx[q])
  BY DEF LedgerInv, TypeOK, Listings, Txs, Ops, Parties
<1>2. referrer \in [Users -> Users \union {None}] /\ rungs \in [Users -> Nat]
  BY DEF LedgerInv, TypeOK
<1> QED
  BY <1>1, <1>2, EconomyAssumption

LEMMA InvitesCounted ==
  ASSUME NEW v
  PROVE  IsFiniteSet(Invited(v)) /\ Invites(v) = Cardinality(Invited(v)) /\ Invites(v) \in Nat
<1>1. IsFiniteSet(Invited(v))
  BY EconomyAssumption, FS_Subset DEF Invited
<1> QED
  BY <1>1, FS_CardinalityType DEF Invited, Invites

(* A step that writes neither referrals nor rungs and takes up no claim.   *)
LEMMA NoNewClaim ==
  ASSUME LedgerInv, RungInv, referrer' = referrer, rungs' = rungs,
         \A p \in Requests : tx'[p] = tx[p] \/ tx'[p].op \notin Claiming
  PROVE  RungInv'
<1>1. ClaimsAlone'
  BY DEF RungInv, ClaimsAlone
<1>2. RungPaidOnce'
  BY DEF RungInv, RungPaidOnce, Invites
<1> QED
  BY <1>1, <1>2 DEF RungInv

(* The commit of a claim: the referrer has one invite more, and the rung   *)
(* is paid by the claim that reaches it and by no other.                   *)
LEMMA CommitPaysOnce ==
  ASSUME LedgerInv, RungInv, NEW q \in Requests, ReferralReferrer(q)
  PROVE  RungPaidOnce'
<1>1. PICK u \in Users, v \in Users : u = tx[q].user /\ v = tx[q].other
  BY ClaimTypes DEF ReferralReferrer, Party
<1>2. /\ referrer[u] = None
      /\ referrer' = [referrer EXCEPT ![u] = v]
      /\ rungs' = [rungs EXCEPT ![v] = IF Reached(Invites(v) + 1) THEN rungs[v] + 1 ELSE rungs[v]]
  BY <1>1 DEF ReferralReferrer, RungInv, ClaimsAlone, Claiming
<1>3. ASSUME NEW w \in Users, w # v
      PROVE  Invites(w)' = Invites(w) /\ rungs'[w] = rungs[w]
  <2>1. Invited(w)' = Invited(w)
    BY <1>2, <1>3, ClaimTypes DEF Invited
  <2> QED
    BY <1>2, <1>3, <2>1, ClaimTypes DEF Invites, Invited
<1>4. Invites(v)' = Invites(v) + 1 /\ Invites(v) \in Nat
  <2>1. u \notin Invited(v) /\ Invited(v)' = Invited(v) \union {u}
    BY <1>2, ClaimTypes DEF Invited
  <2>2. Cardinality(Invited(v)') = Cardinality(Invited(v)) + 1
    BY <2>1, InvitesCounted, FS_AddElement
  <2>3. Invites(v)' = Cardinality(Invited(v)')
    BY DEF Invites, Invited
  <2> QED
    BY <2>2, <2>3, InvitesCounted
<1>5. rungs'[v] = IF Invites(v)' >= RungAt THEN 1 ELSE 0
  <2>1. rungs[v] = IF Invites(v) >= RungAt THEN 1 ELSE 0
    BY DEF RungInv, RungPaidOnce
  <2>2. rungs'[v] = IF Invites(v) + 1 = RungAt THEN rungs[v] + 1 ELSE rungs[v]
    BY <1>2, ClaimTypes DEF Reached
  <2> QED
    BY <2>1, <2>2, <1>4, EconomyAssumption
<1>6. ASSUME NEW w \in Users PROVE rungs'[w] = IF Invites(w)' >= RungAt THEN 1 ELSE 0
  <2>1. CASE w = v
    BY <1>5, <2>1
  <2>2. CASE w # v
    BY <1>3, <2>2 DEF RungInv, RungPaidOnce
  <2> QED
    BY <2>1, <2>2
<1> QED
  BY <1>6 DEF RungPaidOnce

LEMMA RungStep == ASSUME LedgerInv, RungInv, [Next]_vars PROVE RungInv'
<1>0. tx \in [Requests -> Txs] /\ Idle.op \notin Claiming
  BY ClaimTypes DEF Idle, Claiming
<1>1. ASSUME NEW q \in Requests, ReferralReferrer(q) PROVE RungInv'
  <2>1. RungPaidOnce'
    BY <1>1, CommitPaysOnce
  <2>2. /\ tx'[q].op \notin Claiming /\ \A p \in Requests \ {q} : tx'[p] = tx[p]
        /\ tx[q].op \in Claiming
        /\ \A w \in Users : w # tx[q].user => referrer'[w] = referrer[w]
    BY <1>0, <1>1, ClaimTypes DEF ReferralReferrer, End, Claiming
  <2>3. \A p \in Requests : tx[p].op \in Claiming => tx[p].user \in Users
    BY ClaimTypes DEF Party, Claiming
  <2>4. ClaimsAlone'
    BY <2>2, <2>3 DEF RungInv, ClaimsAlone
  <2> QED
    BY <2>1, <2>4 DEF RungInv
<1>2. ASSUME NEW q \in Requests, NEW u \in Claimants, NEW v \in Users, ReferralInsert(q, u, v)
      PROVE  RungInv'
  <2> DEFINE t == [Idle EXCEPT !.op = "refer", !.user = u, !.other = v]
  <2>1. /\ tx' = [tx EXCEPT ![q] = t] /\ referrer' = referrer /\ rungs' = rungs
        /\ referrer[u] = None
        /\ \A p \in Requests : tx[p].op \in Claiming => tx[p].user # u
    BY <1>2 DEF ReferralInsert, Begin, Claiming
  <2>2. t.user = u
    BY DEF Idle
  <2> HIDE DEF t
  <2>3. tx'[q] = t /\ \A p \in Requests \ {q} : tx'[p] = tx[p]
    BY <1>0, <2>1
  <2>4. ClaimsAlone'
    BY <2>1, <2>2, <2>3 DEF RungInv, ClaimsAlone
  <2>5. RungPaidOnce'
    BY <2>1 DEF RungInv, RungPaidOnce, Invites
  <2> QED
    BY <2>4, <2>5 DEF RungInv
<1>3. ASSUME NEW q \in Requests, ReferralCaller(q) PROVE RungInv'
  <2>1. /\ tx'[q].user = tx[q].user /\ tx[q].op \in Claiming
        /\ \A p \in Requests \ {q} : tx'[p] = tx[p]
        /\ referrer' = referrer /\ rungs' = rungs
    BY <1>0, <1>3 DEF ReferralCaller, Claiming, Txs
  <2>2. ClaimsAlone'
    BY <2>1 DEF RungInv, ClaimsAlone
  <2>3. RungPaidOnce'
    BY <2>1 DEF RungInv, RungPaidOnce, Invites
  <2> QED
    BY <2>2, <2>3 DEF RungInv
<1>4. ASSUME NEW q \in Requests, NEW t, t.op \notin Claiming, tx' = [tx EXCEPT ![q] = t],
             referrer' = referrer, rungs' = rungs
      PROVE  RungInv'
  BY <1>0, <1>4, NoNewClaim
<1>5. CASE \E q \in Requests : \/ CheckInWrite(q) \/ BuyPay(q) \/ UpdateWrite(q)
                               \/ DeleteWrite(q) \/ EquipWrite(q) \/ Rollback(q)
  BY <1>0, <1>4, <1>5 DEF CheckInWrite, BuyPay, UpdateWrite, DeleteWrite, EquipWrite,
     Rollback, End
<1>6. CASE \E q \in Requests :
             \/ \E u \in Claimants : CheckInRead(q, u)
             \/ \E i \in Items : UpdateRead(q, i) \/ DeleteRead(q, i)
             \/ \E u \in Users, i \in Items : BuyLock(q, u, i) \/ EquipRead(q, u, i)
  <2>1. ASSUME NEW q \in Requests, NEW u \in Claimants, CheckInRead(q, u) PROVE RungInv'
    <3> DEFINE t == [Idle EXCEPT !.op = "checkin", !.user = u, !.at = now,
                                !.streak = NextStreak(bal[u]),
                                !.balances = IF bal[u].row THEN {u} ELSE {}]
    <3>1. tx' = [tx EXCEPT ![q] = t] /\ referrer' = referrer /\ rungs' = rungs
      BY <2>1 DEF CheckInRead, Begin
    <3>2. t.op \notin Claiming
      BY DEF Idle, Claiming
    <3> HIDE DEF t
    <3> QED
      BY <1>4, <3>1, <3>2
  <2>2. ASSUME NEW q \in Requests, NEW u \in Users, NEW i \in Items,
               BuyLock(q, u, i) \/ EquipRead(q, u, i)
        PROVE  RungInv'
    <3>1. \A t \in {[Idle EXCEPT !.op = "buy", !.user = u, !.item = i, !.listing = item[i]],
                    [Idle EXCEPT !.op = "equip", !.user = u, !.item = i]} : t.op \notin Claiming
      BY DEF Idle, Claiming
    <3>2. PICK t : t.op \notin Claiming /\ tx' = [tx EXCEPT ![q] = t]
      BY <2>2, <3>1 DEF BuyLock, EquipRead, Begin
    <3> QED
      BY <1>4, <2>2, <3>2 DEF BuyLock, EquipRead
  <2>3. ASSUME NEW q \in Requests, NEW i \in Items, UpdateRead(q, i) \/ DeleteRead(q, i)
        PROVE  RungInv'
    <3>1. \A t \in {[Idle EXCEPT !.op = "update", !.item = i, !.listing = item[i]],
                    [Idle EXCEPT !.op = "delete", !.item = i]} : t.op \notin Claiming
      BY DEF Idle, Claiming
    <3>2. PICK t : t.op \notin Claiming /\ tx' = [tx EXCEPT ![q] = t]
      BY <2>3, <3>1 DEF UpdateRead, DeleteRead, Begin
    <3> QED
      BY <1>4, <2>3, <3>2 DEF UpdateRead, DeleteRead
  <2> QED
    BY <1>6, <2>1, <2>2, <2>3
<1>7. CASE \/ UNCHANGED vars \/ Tick
           \/ \E u \in Users : Unequip(u)
           \/ \E u \in Users, amount \in Grants \union {-a : a \in Grants} : GrantPoints(u, amount)
           \/ \E u \in Users, i \in Items : GrantItem(u, i)
           \/ \E i \in Items, price \in Prices, limit \in Limits : CreateItem(i, price, limit)
  BY <1>7, NoNewClaim DEF vars, Tick, Unequip, GrantPoints, GrantItem, CreateItem
<1> QED
  BY <1>1, <1>2, <1>3, <1>5, <1>6, <1>7 DEF Next

(***************************************************************************)
(* claim_referral counts the referrer's invites after inserting its own,   *)
(* under the lock of the referrer's balance: the rung's bonus is paid by   *)
(* the claim that reaches it, never skipped and never twice.               *)
(***************************************************************************)
THEOREM RungIsPaidOnce == Spec => []RungPaidOnce
<1>1. Init => RungInv
  <2> SUFFICES ASSUME Init PROVE RungInv
    OBVIOUS
  <2>1. ClaimsAlone
    BY DEF Init, Idle, ClaimsAlone, Claiming
  <2>2. ASSUME NEW u \in Users PROVE Invites(u) = 0
    <3>1. {v \in Users : referrer[v] = u} = {}
      BY EconomyAssumption DEF Init
    <3> QED
      BY <3>1, FS_EmptySet DEF Invites
  <2>3. RungPaidOnce
    BY <2>2, EconomyAssumption DEF Init, RungPaidOnce
  <2> QED
    BY <2>1, <2>3 DEF RungInv
<1>2. LedgerInv /\ RungInv /\ [Next]_vars => RungInv'
  BY RungStep
<1>3. RungInv => RungPaidOnce
  BY DEF RungInv
<1> QED
  BY <1>1, <1>2, <1>3, LedgerInvariant, PTL DEF Spec

-----------------------------------------------------------------------------
(* Check-ins of an account that has a row: the lock taken at the read      *)
(* keeps every other check-in from moving the last claim in between.       *)

Spaced(t) ==
  t.op = "checkin" /\ t.balances # {} =>
    /\ t.balances = {t.user}
    /\ bal[t.user].last = None \/ t.at - bal[t.user].last >= Cooldown

SpacedInv == \A q \in Requests : Spaced(tx[q])

(* Only a check-in moves the time of the last claim.                       *)
LEMMA LastMoves ==
  ASSUME LedgerInv, [Next]_vars, NEW w \in Users
  PROVE  \/ bal'[w].last = bal[w].last
         \/ \E p \in Requests : CheckInWrite(p) /\ tx[p].user = w
<1>0. Parties /\ bal \in [Users -> Balances]
  BY TypeParts DEF LedgerInv
<1>1. ASSUME NEW p \in Requests, CheckInWrite(p), tx[p].user # w
      PROVE  bal'[w] = bal[w]
  BY <1>0, <1>1 DEF CheckInWrite
<1>2. ASSUME NEW p \in Requests, ReferralReferrer(p)
      PROVE  bal'[w].last = bal[w].last
  <2>0. PICK u \in Users, v \in Users : u # v /\ \E x :
          bal' = [bal EXCEPT ![u] = Credited(bal[u], ReferralReward), ![v] = Credited(bal[v], x)]
    BY <1>0, <1>2 DEF ReferralReferrer, Parties, Party
  <2>1. PICK x :
          bal' = [bal EXCEPT ![u] = Credited(bal[u], ReferralReward), ![v] = Credited(bal[v], x)]
    BY <2>0
  <2>2. bal'[w] \in {bal[w], Credited(bal[w], ReferralReward), Credited(bal[w], x)}
    BY <1>0, <2>0, <2>1
  <2> QED
    BY <2>2 DEF Credited
<1>3. ASSUME NEW u \in Users, NEW amount, GrantPoints(u, amount)
      PROVE  bal'[w].last = bal[w].last
  <2>1. bal[w] \in Balances /\ bal'[w] \in {bal[w], Credited(bal[w], amount),
                          [bal[w] EXCEPT !.points = bal[w].points + amount]}
    BY <1>0, <1>3 DEF GrantPoints
  <2> QED
    BY <2>1 DEF Credited, Balances
<1>4. ASSUME NEW p \in Requests, BuyPay(p)
      PROVE  bal'[w].last = bal[w].last
  <2>1. PICK x : bal[w] \in Balances /\ bal'[w] \in {bal[w], [bal[w] EXCEPT !.points = x]}
    BY <1>0, <1>4 DEF BuyPay
  <2> QED
    BY <2>1 DEF Balances
<1>5. CASE \E p \in Requests : CheckInWrite(p) \/ ReferralReferrer(p) \/ BuyPay(p)
  BY <1>1, <1>2, <1>4, <1>5
<1>6. CASE \E u \in Users, amount \in Grants \union {-a : a \in Grants} : GrantPoints(u, amount)
  BY <1>3, <1>6
<1>7. CASE /\ ~ \E p \in Requests : CheckInWrite(p) \/ ReferralReferrer(p) \/ BuyPay(p)
           /\ ~ \E u \in Users, amount \in Grants \union {-a : a \in Grants} :
                  GrantPoints(u, amount)
  <2>1. bal' = bal
    BY <1>7, Zenon DEF Next, vars, ReferralCaller, UpdateWrite, DeleteWrite, EquipWrite,
       Rollback, CheckInRead, ReferralInsert, UpdateRead, DeleteRead, BuyLock, EquipRead,
       Unequip, GrantItem, CreateItem, Tick
  <2> QED
    BY <2>1
<1> QED
  BY <1>5, <1>6, <1>7

(* A transaction in a check-in was so before, or begins it.                *)
LEMMA CheckInBegins ==
  ASSUME LedgerInv, [Next]_vars, NEW q \in Requests, tx'[q].op = "checkin"
  PROVE  \/ tx'[q] = tx[q] /\ ~CheckInWrite(q)
         \/ \E u \in Claimants : CheckInRead(q, u)
<1>0. tx \in [Requests -> Txs] /\ Idle \in Txs /\ Idle.op = "idle"
  BY TypeParts, EconomyAssumption
     DEF LedgerInv, TypeOK, Txs, Ops, Listings, Idle, NoItem
<1>1. ASSUME NEW p \in Requests, End(p) PROVE tx'[q] = tx[q] /\ p # q
  BY <1>0, <1>1 DEF End
<1>2. ASSUME NEW p \in Requests, ReferralCaller(p) PROVE tx'[q] = tx[q] /\ p # q
  <2>1. tx[p].op = "refer" /\ tx' = [tx EXCEPT ![p] = [[tx[p] EXCEPT !.op = "credited"]
                                       EXCEPT !.balances = {tx[p].user}]]
    BY <1>0, <1>2 DEF ReferralCaller, Txs
  <2>2. p = q => tx'[q].op = "credited"
    BY <1>0, <2>1 DEF Txs
  <2> QED
    BY <1>0, <2>1, <2>2
<1>3. ASSUME NEW p \in Requests, NEW u \in Users, NEW v \in Users, ReferralInsert(p, u, v)
      PROVE  tx'[q] = tx[q]
  <2> DEFINE t == [Idle EXCEPT !.op = "refer", !.user = u, !.other = v]
  <2>1. t.op = "refer" /\ tx' = [tx EXCEPT ![p] = t]
    BY <1>0, <1>3 DEF ReferralInsert, Begin, Txs
  <2> HIDE DEF t
  <2> QED
    BY <1>0, <2>1
<1>4. ASSUME NEW p \in Requests, NEW i \in Items, UpdateRead(p, i) \/ DeleteRead(p, i)
      PROVE  tx'[q] = tx[q]
  <2> DEFINE t == [Idle EXCEPT !.op = "update", !.item = i, !.listing = item[i]]
             s == [Idle EXCEPT !.op = "delete", !.item = i]
  <2>1. tx' = [tx EXCEPT ![p] = t] \/ tx' = [tx EXCEPT ![p] = s]
    BY <1>4 DEF UpdateRead, DeleteRead, Begin
  <2>2. t.op = "update" /\ s.op = "delete"
    BY DEF Idle
  <2> HIDE DEF t, s
  <2> QED
    BY <1>0, <2>1, <2>2
<1>5. ASSUME NEW p \in Requests, NEW u \in Users, NEW i \in Items,
             BuyLock(p, u, i) \/ EquipRead(p, u, i)
      PROVE  tx'[q] = tx[q]
  <2> DEFINE t == [Idle EXCEPT !.op = "buy", !.user = u, !.item = i, !.listing = item[i]]
             s == [Idle EXCEPT !.op = "equip", !.user = u, !.item = i]
  <2>1. tx' = [tx EXCEPT ![p] = t] \/ tx' = [tx EXCEPT ![p] = s]
    BY <1>5 DEF BuyLock, EquipRead, Begin
  <2>2. t.op = "buy" /\ s.op = "equip"
    BY DEF Idle
  <2> HIDE DEF t, s
  <2> QED
    BY <1>0, <2>1, <2>2
<1>6. ASSUME NEW p \in Requests, NEW u \in Claimants, CheckInRead(p, u), p # q
      PROVE  tx'[q] = tx[q]
  BY <1>0, <1>6 DEF CheckInRead, Begin
<1>7. CheckInWrite(q) => End(q)
  BY DEF CheckInWrite
<1>8. ~CheckInWrite(q)
  BY <1>1, <1>7
<1>9. \/ tx' = tx
      \/ \E p \in Requests : End(p) \/ ReferralCaller(p)
      \/ \E p \in Requests :
             \/ \E u \in Claimants : CheckInRead(p, u)
             \/ \E u \in Claimants, v \in Users : ReferralInsert(p, u, v)
             \/ \E i \in Items : UpdateRead(p, i) \/ DeleteRead(p, i)
             \/ \E u \in Users, i \in Items : BuyLock(p, u, i) \/ EquipRead(p, u, i)
  BY DEF Next, vars, CheckInWrite, ReferralReferrer, BuyPay, UpdateWrite, DeleteWrite,
     EquipWrite, Rollback, Unequip, GrantPoints, GrantItem, CreateItem, Tick
<1> QED
  BY <1>1, <1>2, <1>3, <1>4, <1>5, <1>6, <1>8, <1>9, EconomyAssumption

LEMMA SpacedStep == ASSUME LedgerInv, SpacedInv, [Next]_vars PROVE SpacedInv'
<1> SUFFICES ASSUME NEW q \in Requests, tx'[q].op = "checkin", tx'[q].balances # {}
             PROVE  Spaced(tx[q])'
  BY DEF SpacedInv, Spaced
<1>0. /\ Parties /\ bal \in [Users -> Balances] /\ tx \in [Requests -> Txs]
      /\ now \in 0..MaxTime /\ Idle \in Txs /\ Claimants \subseteq Users
  BY TypeParts, EconomyAssumption
     DEF LedgerInv, TypeOK, Txs, Ops, Listings, Idle, NoItem
<1>1. CASE tx'[q] = tx[q] /\ ~CheckInWrite(q)
  <2>1. PICK u \in Users : u = tx[q].user /\ u = tx'[q].user
    BY <1>0, <1>1 DEF Parties, Party
  <2>2. Spaced(tx[q]) /\ tx[q].balances = {u}
    BY <1>1, <2>1 DEF SpacedInv, Spaced
  <2>3. ASSUME NEW p \in Requests, CheckInWrite(p), tx[p].user = u PROVE FALSE
    BY <1>1, <2>2, <2>3 DEF CheckInWrite, BalanceHeld
  <2>4. bal'[u].last = bal[u].last
    BY <2>3, LastMoves
  <2> QED
    BY <1>1, <2>1, <2>2, <2>4 DEF Spaced
<1>2. ASSUME NEW u \in Claimants, CheckInRead(q, u) PROVE Spaced(tx[q])'
  <2> DEFINE t == [Idle EXCEPT !.op = "checkin", !.user = u, !.at = now,
                              !.streak = NextStreak(bal[u]),
                              !.balances = IF bal[u].row THEN {u} ELSE {}]
  <2>1. tx'[q] = t /\ bal' = bal /\ MayClaim(bal[u])
    BY <1>0, <1>2 DEF CheckInRead, Begin
  <2>2. t.user = u /\ t.at = now /\ t.balances \subseteq {u}
    BY <1>0 DEF Txs
  <2> HIDE DEF t
  <2> QED
    BY <2>1, <2>2 DEF Spaced, MayClaim
<1> QED
  BY <1>1, <1>2, CheckInBegins

(***************************************************************************)
(* claim_daily_checkin: the row lock makes a double-tapped button one      *)
(* claim; a check-in that found a row is paid only a cooldown after the    *)
(* last one, whatever else is written to the balance meanwhile.            *)
(***************************************************************************)
THEOREM CheckInsAreSpaced == Spec => ClaimsSpaced
<1> DEFINE Waits == \A q \in Requests :
             CheckInWrite(q) /\ tx[q].balances # {} =>
               LET last == bal[tx[q].user].last IN
               last = None \/ tx[q].at - last >= Cooldown
<1>1. Init => SpacedInv
  BY DEF Init, SpacedInv, Spaced, Idle
<1>2. LedgerInv /\ SpacedInv /\ [Next]_vars => SpacedInv'
  BY SpacedStep
<1>3. SpacedInv => Waits
  BY DEF SpacedInv, Spaced, CheckInWrite
<1>4. SpacedInv /\ [Next]_vars => [Waits]_vars
  BY <1>3
<1> QED
  BY <1>1, <1>2, <1>4, LedgerInvariant, PTL DEF Spec, ClaimsSpaced

=============================================================================
