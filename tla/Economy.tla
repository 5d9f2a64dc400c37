------------------------------- MODULE Economy -------------------------------
(***************************************************************************)
(* The chip accounts and what spends and fills them: gifts, drinks, bets,  *)
(* reward claims, the shop and quests.  Every operation is a transaction   *)
(* of PostgreSQL under READ COMMITTED.  Its statements lock rows (or an    *)
(* advisory key, or a key that must be unique) and keep them to the end;   *)
(* one that must wait waits for the holder.  What a transaction writes is  *)
(* seen by others when it commits, so its writes are one step, and until   *)
(* then it can fail and leave no trace.                                    *)
(*                                                                         *)
(* Users have logged in before, so each has a row of chips.                *)
(***************************************************************************)
EXTENDS Integers, Sequences, FiniteSets, FiniteSetsExt

CONSTANTS
    Users, Items, Assignments, None,
    Price,                                \* price_chips of an item
    Slotted, Fish, Repeatable, Limited,   \* items of one slot; kinds of items; daily_limit
    Aquarium, PetFood, AquariumFood,      \* the items of these SKUs
    DayOf, Daily, Target, Highest,        \* period_start, cadence, target of assignments,
                                          \* and those that count the best value
    OpeningBalance, OpeningShelf,         \* what users have at first
    ChipFloor, MaxFish, Reward,           \* the reward of a claim or a quest
    BonusChipsPerLevel, MaxBonusLevel,    \* of the streak of daily quests
    LastDay,                              \* bounds the days of a behaviour
    Instances                             \* each a sequence of requests to explore

Kinds == {"gift", "drink", "debit", "credit", "restore", "daily", "cooldown", "purchase",
          "fish", "treat", "pinch", "equip", "unequip", "quest"}

(* A request is about an item or an assignment, and names a recipient or   *)
(* an event.  Those of one sender, a task that takes one at a time, are    *)
(* made in turn.                                                           *)
Requests ==
    [kind : Kinds, user : Users, about : Items \cup Assignments \cup {None},
     other : Users \cup Nat \cup {None}, amount : Int, sender : Nat]

Shelves == [have : BOOLEAN, quantity : Nat, active : Nat, equipped : BOOLEAN]

(* No more fish swim than are owned and fit in the tank, and one item of   *)
(* the slot is worn.                                                       *)
Swimming(own) == SumFunctionOnSet([i \in Items |-> own[i].active], Fish)

FitsAndIsWorn(own) ==
    /\ Swimming(own) <= MaxFish
    /\ \A i \in Items : own[i].active <= own[i].quantity
    /\ \A i, j \in Slotted : own[i].equipped /\ own[j].equipped => i = j

ASSUME EconomyAssumption ==
    /\ Price \in [Items -> Nat] /\ OpeningBalance \in [Users -> Nat]
    /\ OpeningShelf \in [Users -> [Items -> Shelves]]
    /\ IsFiniteSet(Fish) /\ \A u \in Users : FitsAndIsWorn(OpeningShelf[u])
    /\ DayOf \in [Assignments -> Nat] /\ Target \in [Assignments -> Nat]
    /\ {ChipFloor, MaxFish, Reward, BonusChipsPerLevel, MaxBonusLevel, LastDay} \subseteq Nat
    /\ Slotted \cup Fish \cup Repeatable \cup Limited \subseteq Items
    /\ {Aquarium, PetFood, AquariumFood} \subseteq Items
    /\ Instances \subseteq Seq(Requests)
    /\ \A request \in Instances : \A t \in DOMAIN request :
        LET r == request[t] IN
        /\ r.kind \in {"gift", "drink", "debit", "credit"} => r.amount \in Nat
        /\ r.kind = "gift" => r.other \in Users \ {r.user}
        /\ r.kind = "purchase" => r.about \in Items
        /\ r.kind = "fish" => r.about \in Fish
        /\ r.kind = "treat" => r.about = PetFood
        /\ r.kind = "pinch" => r.about = AquariumFood
        /\ r.kind = "equip" => r.about \in Slotted
        /\ r.kind = "quest" => r.about \in Assignments

VARIABLES
    request,     \* the instance: what is asked, by transaction
    tx,          \* the transactions: where each is, and what it holds and has read
    today,
    balance,     \* user_chips
    ledger,      \* the sum of a user's rows in chip_ledger
    shelf,       \* user_purchases
    bought,      \* the purchases in chip_ledger: user, item and day
    treated,     \* the day a pet was last treated, or 0
    claims,      \* game_payout_claims: user, kind and day
    applied,     \* quest_progress_events: assignment and event
    progress,    \* user_quest_progress
    streak,      \* user_daily_quest_streaks: the last completed day, or 0, and the run
    grants,      \* history: what was granted and by which transaction
    late         \* history: users with a daily quest completed after one of a later day

accounts == <<balance, ledger>>
shop == <<shelf, bought, treated>>
rewards == <<claims, applied, progress, streak>>
vars == <<request, tx, today, accounts, shop, rewards, grants, late>>

Transactions == DOMAIN request
Free == [state |-> "asked", at |-> 0, held |-> {}, day |-> 0, clock |-> 0, balance |-> 0]
Ended == [Free EXCEPT !.state = "ended"]
Open(t) == tx[t].state = "open"

-------------------------------------------------------------------------------
(* The statements of each kind of transaction, and the rows they lock.     *)

(* Mutant: the purchase row is locked before the balance. *)
PurchaseStatementsSwapped(i) ==
    IF i \in Slotted THEN <<"item", "owned", "chips", "slot">> ELSE <<"item", "owned", "chips">>

PurchaseStatements(i) ==
    IF i \in Slotted THEN <<"item", "chips", "owned", "slot">> ELSE <<"item", "chips", "owned">>

Statements(t) ==
    LET r == request[t] IN
    CASE r.kind = "gift" -> <<"chips", "other">>
      [] r.kind = "drink" -> <<"chips", "tab">>
      [] r.kind \in {"debit", "credit", "restore"} -> <<"chips">>
      [] r.kind = "daily" -> <<"claim", "chips">>
      [] r.kind = "cooldown" -> <<"key", "recent", "chips">>
      [] r.kind = "purchase" -> PurchaseStatements(r.about)
      [] r.kind = "fish" -> <<"chips", "owned">>
      [] r.kind = "treat" -> <<"item", "owned", "pet">>
      [] r.kind = "pinch" -> <<"item", "owned">>
      [] r.kind = "equip" -> <<"owned", "slot">>
      [] r.kind = "unequip" -> <<"worn">>
      [] r.kind = "quest" -> <<"quests", "progress", "chips", "streak">>

(* What an event makes of the progress on an assignment, and whether the   *)
(* reward is due.                                                          *)
NewProgress(r) ==
    LET count == progress[r.user][r.about].count IN
    IF r.about \in Highest THEN Max({count, r.amount}) ELSE count + r.amount

Completes(r) == progress[r.user][r.about].completed \/ NewProgress(r) >= Target[r.about]

(* Mutant: the reward is paid whenever the target is met. *)
QuestPaysAgain(r) == NewProgress(r) >= Target[r.about]

QuestPays(r) == Completes(r) /\ ~progress[r.user][r.about].rewarded

(* Mutant: a purchase reads the balance and does not lock it. *)
ChipRowUnlocked(r) ==
    IF r.kind = "purchase" \/ (r.kind = "quest" /\ ~QuestPays(r))
      THEN {} ELSE {<<"chips", r.user>>}

ChipRow(r) == IF r.kind = "quest" /\ ~QuestPays(r) THEN {} ELSE {<<"chips", r.user>>}

(* Mutant: two grants with a cooldown do not wait for each other. *)
NoCooldownKey(r) == {}

CooldownKey(r) == {<<"cooldown", r.user>>}

OwnedRows(u, items) == {<<"owned", u, i>> : i \in {j \in items : shelf[u][j].have}}

Rows(t, statement) ==
    LET r == request[t] IN
    CASE statement = "chips" -> ChipRow(r)
      [] statement = "other" -> {<<"chips", r.other>>}
      [] statement = "claim" -> {<<"daily", r.user, tx[t].day>>}
      [] statement = "key" -> CooldownKey(r)
      [] statement = "recent" -> {}
      [] statement = "item" -> {<<"item", r.about>>}
      [] statement = "owned" -> OwnedRows(r.user, {r.about})
      [] statement = "slot" -> OwnedRows(r.user, Slotted)
      [] statement = "worn" -> OwnedRows(r.user, {i \in Slotted : shelf[r.user][i].equipped})
      [] statement = "progress" -> {<<"progress", r.user, r.about>>}
      [] statement = "streak" -> IF QuestPays(r) /\ streak[r.user].last # 0
                                   THEN {<<"streak", r.user>>} ELSE {}
      [] statement \in {"tab", "pet", "quests"} -> {<<statement, r.user>>}

Runs(t, statement) ==
    tx[t].at < Len(Statements(t)) /\ Statements(t)[tx[t].at + 1] = statement

Missing(t) ==
    IF Open(t) /\ tx[t].at < Len(Statements(t))
      THEN Rows(t, Statements(t)[tx[t].at + 1]) \ tx[t].held
      ELSE {}

Available(row) == \A s \in Transactions : row \notin tx[s].held

-------------------------------------------------------------------------------
(* Where the code returns early: the guard of an UPDATE, a claim that      *)
(* exists, or a check of what was read.                                    *)
HasReachedDailyLimit(u, i, day) ==
    i \in Limited /\ \E purchase \in bought : /\ purchase[1] = u /\ purchase[2] = i
                                              /\ purchase[3] >= day

PurchaseRefused(t) ==
    LET r == request[t]  own == shelf[r.user][r.about] IN
    \/ r.about \in Fish /\ ~shelf[r.user][Aquarium].have
    \/ own.have /\ r.about \notin Repeatable
    \/ HasReachedDailyLimit(r.user, r.about, tx[t].day)
    \/ tx[t].balance < Price[r.about]

ActiveFish(u) == Swimming(shelf[u])

(* The fish of a kind that will swim, of those that are owned.             *)
NextActive(r) ==
    LET own == shelf[r.user][r.about] IN
    Min({Max({own.active + r.amount, 0}), own.quantity})

(* Mutant: only the fish that swim already count. *)
FishRefusedLate(r) ==
    LET own == shelf[r.user][r.about] IN
    \/ ~own.have
    \/ r.amount < 0 /\ own.active = 0
    \/ r.amount > 0 /\ own.active >= own.quantity
    \/ r.amount > 0 /\ ActiveFish(r.user) > MaxFish

FishRefused(r) ==
    LET own == shelf[r.user][r.about] IN
    \/ ~own.have
    \/ r.amount < 0 /\ own.active = 0
    \/ r.amount > 0 /\ own.active >= own.quantity
    \/ r.amount > 0 /\ ActiveFish(r.user) - own.active + NextActive(r) > MaxFish

Refused(t) ==
    LET r == request[t]  own == shelf[r.user][r.about]  at == tx[t].at IN
    CASE r.kind \in {"gift", "drink"} -> at = 0 /\ balance[r.user] - r.amount < ChipFloor
      [] r.kind = "debit" -> at = 0 /\ balance[r.user] < r.amount
      [] r.kind = "daily" -> at = 0 /\ <<r.user, "daily", tx[t].day>> \in claims
      [] r.kind = "cooldown" -> at = 1 /\ <<r.user, "cooldown", today>> \in claims
      [] r.kind = "purchase" -> at = 3 /\ PurchaseRefused(t)
      [] r.kind = "fish" -> at = 2 /\ FishRefused(r)
      [] r.kind = "pinch" -> at = 2 /\ (~own.have \/ own.quantity = 0)
      [] r.kind = "treat" -> \/ at = 2 /\ (~own.have \/ own.quantity = 0)
                             \/ at = 3 /\ treated[r.user] >= tx[t].day
      [] r.kind = "equip" -> at = 1 /\ (~own.have \/ own.equipped)
      [] r.kind = "quest" -> at = 1 /\ <<r.about, r.other>> \in applied
      [] OTHER -> FALSE

-------------------------------------------------------------------------------
(* A transaction is opened, runs its statements, and is committed or fails. *)
Begin(t) ==
    /\ tx[t].state = "asked"
    /\ \A s \in Transactions :
        s < t /\ request[s].sender = request[t].sender => tx[s].state = "ended"
    /\ request[t].kind = "quest" => today >= DayOf[request[t].about]
    /\ tx' = [tx EXCEPT ![t].state = "open", ![t].day = today]
    /\ UNCHANGED <<request, today, accounts, shop, rewards, grants, late>>

(* An UPDATE of several rows locks one after the other, in any order.  The *)
(* balance is read with its lock, and the time after the cooldown's key.   *)
Execute(t) ==
    /\ Open(t) /\ tx[t].at < Len(Statements(t)) /\ ~Refused(t)
    /\ \E taken \in IF Missing(t) = {} THEN {{}} ELSE {{row} : row \in Missing(t)} :
        /\ \A row \in taken : Available(row)
        /\ tx' = [tx EXCEPT ![t].held = @ \cup taken,
                            ![t].at = IF Missing(t) = taken THEN @ + 1 ELSE @,
                            ![t].clock = IF Runs(t, "recent") THEN today ELSE @,
                            ![t].balance = IF Runs(t, "chips")
                                             THEN balance[request[t].user] ELSE @]
    /\ UNCHANGED <<request, today, accounts, shop, rewards, grants, late>>

Refuse(t) ==
    /\ Open(t) /\ Refused(t)
    /\ tx' = [tx EXCEPT ![t] = Ended]
    /\ UNCHANGED <<request, today, accounts, shop, rewards, grants, late>>

(* A statement fails, the connection or the process is lost, or the        *)
(* database chooses the transaction to end a deadlock.                     *)
Fail(t) ==
    /\ Open(t)
    /\ tx' = [tx EXCEPT ![t] = Ended]
    /\ UNCHANGED <<request, today, accounts, shop, rewards, grants, late>>

(* A quest that was completed when the event came is skipped.              *)
Skip(t) ==
    /\ tx[t].state = "asked" /\ request[t].kind = "quest"
    /\ progress[request[t].user][request[t].about].completed
    /\ tx' = [tx EXCEPT ![t] = Ended]
    /\ UNCHANGED <<request, today, accounts, shop, rewards, grants, late>>

NextDay ==
    /\ today < LastDay
    /\ today' = today + 1
    /\ UNCHANGED <<request, tx, accounts, shop, rewards, grants, late>>

-------------------------------------------------------------------------------
(* What each kind of transaction writes.                                   *)
Commits(t, kind) ==
    /\ Open(t) /\ request[t].kind = kind
    /\ tx[t].at = Len(Statements(t)) /\ ~Refused(t)
    /\ tx' = [tx EXCEPT ![t] = Ended]
    /\ UNCHANGED <<request, today>>

Post(u, delta) ==
    /\ balance' = [balance EXCEPT ![u] = @ + delta]
    /\ ledger' = [ledger EXCEPT ![u] = @ + delta]

Grants(t, what) == grants' = grants \cup {<<grant, t>> : grant \in what}

TransferGift(t) ==
    LET r == request[t] IN
    /\ Commits(t, "gift")
    /\ balance' = [balance EXCEPT ![r.user] = @ - r.amount, ![r.other] = @ + r.amount]
    /\ ledger' = [ledger EXCEPT ![r.user] = @ - r.amount, ![r.other] = @ + r.amount]
    /\ UNCHANGED <<shop, rewards, grants, late>>

BuyDrink(t) ==
    /\ Commits(t, "drink") /\ Post(request[t].user, -request[t].amount)
    /\ UNCHANGED <<shop, rewards, grants, late>>

Deduct(t) ==
    /\ Commits(t, "debit") /\ Post(request[t].user, -request[t].amount)
    /\ UNCHANGED <<shop, rewards, grants, late>>

AddBonus(t) ==
    /\ Commits(t, "credit") /\ Post(request[t].user, request[t].amount)
    /\ UNCHANGED <<shop, rewards, grants, late>>

RestoreFloor(t) ==
    LET missing == ChipFloor - balance[request[t].user] IN
    /\ Commits(t, "restore") /\ Post(request[t].user, IF missing > 0 THEN missing ELSE 0)
    /\ UNCHANGED <<shop, rewards, grants, late>>

Claim(t, kind, day) ==
    LET u == request[t].user IN
    /\ Commits(t, kind) /\ Post(u, Reward)
    /\ claims' = claims \cup {<<u, kind, day>>}
    /\ Grants(t, {<<kind, u, day>>})
    /\ UNCHANGED <<shop, applied, progress, streak, late>>

GrantDaily(t) == Claim(t, "daily", tx[t].day)
GrantCooldown(t) == Claim(t, "cooldown", tx[t].clock)

(* The balance is written from the one that was read.  A new item is worn, *)
(* and the rest of its slot is not.                                        *)
Worn(own, i) ==
    [j \in Items |-> [own[j] EXCEPT !.equipped = IF j \in Slotted THEN j = i ELSE @]]

PurchaseItem(t) ==
    LET u == request[t].user  i == request[t].about  own == shelf[u][i]
        bag == [shelf[u] EXCEPT ![i].have = TRUE, ![i].quantity = @ + 1] IN
    /\ Commits(t, "purchase")
    /\ balance' = [balance EXCEPT ![u] = tx[t].balance - Price[i]]
    /\ ledger' = [ledger EXCEPT ![u] = @ - Price[i]]
    /\ bought' = bought \cup {<<u, i, tx[t].day>>}
    /\ shelf' = [shelf EXCEPT ![u] = IF i \in Slotted THEN Worn(bag, i) ELSE bag]
    /\ Grants(t, {<<"unlocked", u, j>> : j \in {i} \ Repeatable}
                    \cup {<<"limited", u, j, tx[t].day>> : j \in {i} \cap Limited})
    /\ UNCHANGED <<treated, rewards, late>>

AdjustFish(t) ==
    LET r == request[t] IN
    /\ Commits(t, "fish")
    /\ shelf' = [shelf EXCEPT ![r.user][r.about].active = NextActive(r)]
    /\ UNCHANGED <<accounts, bought, treated, rewards, grants, late>>

Consume(u, i) ==
    LET left == shelf[u][i].quantity - 1 IN
    shelf' = [shelf EXCEPT ![u][i].quantity = left, ![u][i].active = Min({@, left})]

ConsumePetTreat(t) ==
    LET u == request[t].user IN
    /\ Commits(t, "treat") /\ Consume(u, PetFood)
    /\ treated' = [treated EXCEPT ![u] = tx[t].day]
    /\ Grants(t, {<<"treat", u, tx[t].day>>})
    /\ UNCHANGED <<accounts, bought, rewards, late>>

ConsumeAquariumFood(t) ==
    /\ Commits(t, "pinch") /\ Consume(request[t].user, AquariumFood)
    /\ UNCHANGED <<accounts, bought, treated, rewards, grants, late>>

EquipItem(t) ==
    LET r == request[t] IN
    /\ Commits(t, "equip")
    /\ shelf' = [shelf EXCEPT ![r.user] = Worn(@, r.about)]
    /\ UNCHANGED <<accounts, bought, treated, rewards, grants, late>>

UnequipSlot(t) ==
    /\ Commits(t, "unequip")
    /\ shelf' = [shelf EXCEPT ![request[t].user] = Worn(@, None)]
    /\ UNCHANGED <<accounts, bought, treated, rewards, grants, late>>

(* The streak after a daily quest of a day is completed: unchanged for the *)
(* second quest of a day, one longer the day after, and 1 otherwise.       *)
NextDailyStreak(u, day) ==
    CASE streak[u].last = day -> streak[u]
      [] streak[u].last # 0 /\ streak[u].last = day - 1 ->
            [last |-> day, run |-> Max({streak[u].run, 1}) + 1]
      [] OTHER -> [last |-> day, run |-> 1]

StreakBonus(u, day) ==
    IF streak[u].last = day THEN 0
    ELSE BonusChipsPerLevel * Min({NextDailyStreak(u, day).run - 1, MaxBonusLevel})

ApplyProgressEvent(t) ==
    LET r == request[t]  u == r.user  a == r.about  day == DayOf[a]
        advances == /\ Completes(r) /\ ~progress[u][a].completed /\ a \in Daily
        bonus == IF advances THEN StreakBonus(u, day) ELSE 0 IN
    /\ Commits(t, "quest")
    /\ applied' = applied \cup {<<a, r.other>>}
    /\ progress' = [progress EXCEPT ![u][a] =
            [count |-> NewProgress(r), completed |-> Completes(r),
             rewarded |-> @.rewarded \/ QuestPays(r)]]
    /\ Post(u, (IF QuestPays(r) THEN Reward ELSE 0) + bonus)
    /\ streak' = IF advances THEN [streak EXCEPT ![u] = NextDailyStreak(u, day)] ELSE streak
    /\ late' = IF advances /\ day < streak[u].last THEN late \cup {u} ELSE late
    /\ Grants(t, {<<"quest", u, a>> : x \in {y \in {r} : QuestPays(y)}}
                    \cup {<<"streak", u, day>> : x \in {bonus} \ {0}})
    /\ UNCHANGED <<shop, claims>>

-------------------------------------------------------------------------------
Init ==
    /\ request \in Instances
    /\ tx = [t \in DOMAIN request |-> Free]
    /\ today = 1
    /\ balance = OpeningBalance /\ ledger = [u \in Users |-> 0]
    /\ shelf = OpeningShelf /\ bought = {} /\ treated = [u \in Users |-> 0]
    /\ claims = {} /\ applied = {}
    /\ progress = [u \in Users |-> [a \in Assignments |->
                     [count |-> 0, completed |-> FALSE, rewarded |-> FALSE]]]
    /\ streak = [u \in Users |-> [last |-> 0, run |-> 0]]
    /\ grants = {} /\ late = {}

Next ==
    \/ NextDay
    \/ \E t \in Transactions :
        \/ Begin(t) \/ Skip(t) \/ Execute(t) \/ Refuse(t) \/ Fail(t)
        \/ TransferGift(t) \/ BuyDrink(t) \/ Deduct(t) \/ AddBonus(t) \/ RestoreFloor(t)
        \/ GrantDaily(t) \/ GrantCooldown(t) \/ PurchaseItem(t) \/ AdjustFish(t)
        \/ ConsumePetTreat(t) \/ ConsumeAquariumFood(t) \/ EquipItem(t) \/ UnequipSlot(t)
        \/ ApplyProgressEvent(t)

Spec == Init /\ [][Next]_vars

-------------------------------------------------------------------------------
(* Every chip is accounted for and none is owed: whatever runs at once and *)
(* fails half way, a balance is the opening one with the ledger's rows,    *)
(* also when a purchase writes a balance that it has read before.          *)
BalanceIsLedger ==
    \A u \in Users : balance[u] = OpeningBalance[u] + ledger[u] /\ balance[u] >= 0

(* What is to be had once is had once: a daily claim and a treat a day, a  *)
(* claim with a cooldown, an unlocked item, a limited one a day, a quest's *)
(* reward, and a day's streak bonus, unless an earlier day was completed   *)
(* late.  And what is on a shelf fits in the tank and in the slot.         *)
LimitsHold ==
    /\ \A g, h \in grants :
        g[1] = h[1] => g[2] = h[2] \/ (g[1][1] = "streak" /\ g[1][2] \in late)
    /\ \A u \in Users : FitsAndIsWorn(shelf[u])

(* The transactions of one circle of waits.                                *)
Blocked(t) == Missing(t) # {} /\ \A row \in Missing(t) : ~Available(row)
WaitsFor(t, s) == tx[s].held \cap Missing(t) # {}

Deadlocked(D) ==
    \E next \in [D -> D] :
        /\ \A t \in D : WaitsFor(t, next[t])
        /\ \A E \in SUBSET D \ {{}} : (\A t \in E : next[t] \in E) => E = D

(* Purchases, claims and quests order their locks, so they never wait for  *)
(* each other in a circle, and neither for games: only gifts do, or what   *)
(* one user wears when several sessions change it, and one of them fails.  *)
DeadlocksAreKnown ==
    \A D \in SUBSET {t \in Transactions : Blocked(t)} \ {{}} :
        Deadlocked(D) =>
            \/ \A t \in D : request[t].kind = "gift"
            \/ \A t \in D : /\ Runs(t, "slot")
                             /\ \A s \in D : request[s].user = request[t].user
===============================================================================
