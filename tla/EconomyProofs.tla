---------------------------- MODULE EconomyProofs ----------------------------
(***************************************************************************)
(* Every chip is accounted for, whatever the users, the items, the quests  *)
(* and the transactions that run at once.  A purchase writes the balance   *)
(* that it has read, so the proof is about locks: no row has two holders,  *)
(* a transaction holds the rows of chips that it has passed, and a balance *)
(* changes only under its holder's hand.  Hence what a holder has read or  *)
(* checked still is so when it commits.                                    *)
(***************************************************************************)
EXTENDS Economy, SumFacts, TLAPS

AnyRow ==
    ({"chips", "tab", "cooldown", "pet", "quests", "streak"} \X Users)
      \cup ({"daily"} \X Users \X Nat)
      \cup ({"item"} \X (Items \cup Assignments \cup {None}))
      \cup ({"owned", "progress"} \X Users \X (Items \cup Assignments \cup {None}))

TxType ==
    [state : {"asked", "open", "ended"}, at : Nat, held : SUBSET AnyRow,
     day : Nat, clock : Nat, balance : Nat]

ProgressType == [count : Int, completed : BOOLEAN, rewarded : BOOLEAN]

Types ==
    /\ request \in Instances /\ tx \in [Transactions -> TxType] /\ today \in Nat
    /\ balance \in [Users -> Nat] /\ ledger \in [Users -> Int]
    /\ progress \in [Users -> [Assignments -> ProgressType]]
    /\ streak \in [Users -> [last : Int, run : Nat]]

Exclusive == \A s, t \in Transactions : s # t => tx[s].held \cap tx[t].held = {}

(* What a transaction holds of the rows its statements so far have named.  *)
Holds(t) ==
    /\ tx[t].at <= Len(Statements(t))
    /\ \A k \in 1 .. tx[t].at :
        /\ Statements(t)[k] = "chips" => ChipRow(request[t]) \subseteq tx[t].held
        /\ Statements(t)[k] = "other" => <<"chips", request[t].other>> \in tx[t].held
        /\ Statements(t)[k] = "progress" =>
            <<"progress", request[t].user, request[t].about>> \in tx[t].held

(* What it has read or checked, and still may rely on.                     *)
Relies(t) ==
    LET r == request[t] IN
    /\ r.kind \in {"gift", "drink"} /\ tx[t].at >= 1 => balance[r.user] - r.amount >= ChipFloor
    /\ r.kind = "debit" /\ tx[t].at >= 1 => balance[r.user] >= r.amount
    /\ r.kind = "purchase" /\ tx[t].at >= 2 => tx[t].balance = balance[r.user]
    /\ r.kind = "purchase" /\ tx[t].at >= 4 => tx[t].balance >= Price[r.about]

Idle(t) == tx[t].held = {} /\ tx[t].at = 0

LocksInv ==
    /\ Exclusive
    /\ \A t \in Transactions : IF Open(t) THEN Holds(t) /\ Relies(t) ELSE Idle(t)

RewardedIsCompleted ==
    \A u \in Users, a \in Assignments : progress[u][a].rewarded => progress[u][a].completed

IInv == Types /\ LocksInv /\ RewardedIsCompleted /\ BalanceIsLedger

-------------------------------------------------------------------------------
(* Every request is one the instances may hold.                            *)
LEMMA RequestFacts ==
    ASSUME Types, NEW t \in Transactions
    PROVE  /\ request[t] \in Requests
           /\ request[t].kind \in {"gift", "drink", "debit", "credit"} => request[t].amount \in Nat
           /\ request[t].kind = "gift" => request[t].other \in Users \ {request[t].user}
           /\ request[t].kind \in {"purchase", "fish", "treat", "pinch", "equip"}
                => request[t].about \in Items
           /\ request[t].kind = "fish" => request[t].about \in Fish
           /\ request[t].kind = "treat" => request[t].about = PetFood
           /\ request[t].kind = "pinch" => request[t].about = AquariumFood
           /\ request[t].kind = "equip" => request[t].about \in Slotted
           /\ request[t].kind = "quest" => request[t].about \in Assignments
<1>1. request \in Seq(Requests)
  BY EconomyAssumption DEF Types
<1>2. request[t] \in Requests
  BY <1>1 DEF Transactions
<1> QED
  BY <1>2, EconomyAssumption DEF Types, Transactions

StatementNames ==
    {"chips", "other", "tab", "claim", "key", "recent", "item", "owned", "slot", "worn",
     "pet", "quests", "progress", "streak"}

(* The statements of each kind, one by one.                                *)
LEMMA StatementFacts ==
    ASSUME Types, NEW t \in Transactions
    PROVE  /\ Len(Statements(t)) \in Nat
           /\ Len(Statements(t)) >= 1
           /\ request[t].kind \in {"gift", "drink", "debit", "credit", "restore", "fish"}
                => Statements(t)[1] = "chips"
           /\ request[t].kind = "gift" => Len(Statements(t)) = 2 /\ Statements(t)[2] = "other"
           /\ request[t].kind = "daily" => Len(Statements(t)) = 2 /\ Statements(t)[2] = "chips"
           /\ request[t].kind = "cooldown" => Len(Statements(t)) = 3 /\ Statements(t)[3] = "chips"
           /\ request[t].kind = "purchase" =>
                /\ Len(Statements(t)) \in {3, 4}
                /\ Statements(t)[1] = "item" /\ Statements(t)[2] = "chips"
                /\ Statements(t)[3] = "owned"
                /\ Len(Statements(t)) = 4 => Statements(t)[4] = "slot"
           /\ request[t].kind = "quest" =>
                /\ Len(Statements(t)) = 4
                /\ Statements(t)[2] = "progress" /\ Statements(t)[3] = "chips"
           /\ \A k \in 1 .. Len(Statements(t)) :
                /\ Statements(t)[k] \in StatementNames
                /\ Statements(t)[k] = "other" => request[t].kind = "gift"
                /\ Statements(t)[k] = "progress" => request[t].kind = "quest"
                /\ Statements(t)[k] = "chips" =>
                    k = CASE request[t].kind \in {"daily", "purchase"} -> 2
                          [] request[t].kind \in {"cooldown", "quest"} -> 3
                          [] OTHER -> 1
<1>1. request[t].kind \in Kinds
  BY RequestFacts DEF Requests
<1>2. CASE request[t].kind = "purchase" /\ request[t].about \in Slotted
  <2>1. Statements(t) = <<"item", "chips", "owned", "slot">>
    BY <1>2 DEF Statements, PurchaseStatements
  <2> QED
    BY <1>2, <2>1 DEF StatementNames
<1>3. CASE request[t].kind = "purchase" /\ request[t].about \notin Slotted
  <2>1. Statements(t) = <<"item", "chips", "owned">>
    BY <1>3 DEF Statements, PurchaseStatements
  <2> QED
    BY <1>3, <2>1 DEF StatementNames
<1>4. CASE request[t].kind = "gift"
  <2>1. Statements(t) = <<"chips", "other">>
    BY <1>4 DEF Statements
  <2> QED
    BY <1>4, <2>1 DEF StatementNames
<1>5. CASE request[t].kind = "drink"
  <2>1. Statements(t) = <<"chips", "tab">>
    BY <1>5 DEF Statements
  <2> QED
    BY <1>5, <2>1 DEF StatementNames
<1>6. CASE request[t].kind = "fish"
  <2>1. Statements(t) = <<"chips", "owned">>
    BY <1>6 DEF Statements
  <2> QED
    BY <1>6, <2>1 DEF StatementNames
<1>7. CASE request[t].kind \in {"debit", "credit", "restore"}
  <2>1. Statements(t) = <<"chips">>
    BY <1>7 DEF Statements
  <2> QED
    BY <1>7, <2>1 DEF StatementNames
<1>8. CASE request[t].kind = "daily"
  <2>1. Statements(t) = <<"claim", "chips">>
    BY <1>8 DEF Statements
  <2> QED
    BY <1>8, <2>1 DEF StatementNames
<1>9. CASE request[t].kind = "cooldown"
  <2>1. Statements(t) = <<"key", "recent", "chips">>
    BY <1>9 DEF Statements
  <2> QED
    BY <1>9, <2>1 DEF StatementNames
<1>10. CASE request[t].kind = "quest"
  <2>1. Statements(t) = <<"quests", "progress", "chips", "streak">>
    BY <1>10 DEF Statements
  <2> QED
    BY <1>10, <2>1 DEF StatementNames
<1>11. CASE request[t].kind = "treat"
  <2>1. Statements(t) = <<"item", "owned", "pet">>
    BY <1>11 DEF Statements
  <2> QED
    BY <1>11, <2>1 DEF StatementNames
<1>12. CASE request[t].kind = "pinch"
  <2>1. Statements(t) = <<"item", "owned">>
    BY <1>12 DEF Statements
  <2> QED
    BY <1>12, <2>1 DEF StatementNames
<1>13. CASE request[t].kind = "equip"
  <2>1. Statements(t) = <<"owned", "slot">>
    BY <1>13 DEF Statements
  <2> QED
    BY <1>13, <2>1 DEF StatementNames
<1>14. CASE request[t].kind = "unequip"
  <2>1. Statements(t) = <<"worn">>
    BY <1>14 DEF Statements
  <2> QED
    BY <1>14, <2>1 DEF StatementNames
<1> QED
  BY <1>1, <1>2, <1>3, <1>4, <1>5, <1>6, <1>7, <1>8, <1>9, <1>10, <1>11, <1>12, <1>13, <1>14 DEF Kinds

(* Rows are rows: of a user, an item or a day.                             *)
LEMMA MissingTyped ==
    ASSUME Types, NEW t \in Transactions
    PROVE  Missing(t) \subseteq AnyRow
<1> SUFFICES ASSUME Open(t), tx[t].at < Len(Statements(t))
             PROVE  Rows(t, Statements(t)[tx[t].at + 1]) \subseteq AnyRow
  BY DEF Missing
<1> DEFINE name == Statements(t)[tx[t].at + 1]
<1>1. tx[t].at + 1 \in 1 .. Len(Statements(t)) /\ tx[t].day \in Nat
  BY StatementFacts DEF Types, TxType
<1>2. name \in StatementNames /\ (name = "other" => request[t].kind = "gift")
  BY <1>1, StatementFacts
<1>3. /\ request[t].user \in Users
      /\ request[t].about \in Items \cup Assignments \cup {None}
      /\ name = "other" => request[t].other \in Users
  BY <1>2, RequestFacts DEF Requests
<1> SUFFICES Rows(t, name) \subseteq AnyRow
  OBVIOUS
<1> HIDE DEF name
<1>4. \A items \in SUBSET (Items \cup Assignments \cup {None}) :
        OwnedRows(request[t].user, items) \subseteq AnyRow
  BY <1>3 DEF OwnedRows, AnyRow
<1>5. CASE name \in {"owned", "slot", "worn"}
  BY <1>3, <1>4, <1>5, EconomyAssumption DEF Rows
<1>6. CASE name \in {"chips", "other", "tab", "key", "recent", "pet", "quests", "streak"}
  BY <1>3, <1>6 DEF Rows, AnyRow, ChipRow, CooldownKey
<1>7. CASE name \in {"claim", "item", "progress"}
  BY <1>1, <1>3, <1>7 DEF Rows, AnyRow
<1> QED
  BY <1>2, <1>5, <1>6, <1>7 DEF StatementNames

-------------------------------------------------------------------------------
(* Who is not disturbed in the rows it holds keeps what it relies on.      *)
LEMMA Undisturbed ==
    ASSUME Types, NEW s \in Transactions, Open(s), Holds(s), Relies(s),
           request' = request, tx'[s] = tx[s],
           \A u \in Users : <<"chips", u>> \in tx[s].held => balance'[u] = balance[u],
           \A u \in Users, a \in Assignments :
             <<"progress", u, a>> \in tx[s].held => progress'[u][a] = progress[u][a]
    PROVE  Holds(s)' /\ Relies(s)'
<1> DEFINE r == request[s]
<1>1. r.user \in Users /\ (r.kind = "quest" => r.about \in Assignments)
  BY RequestFacts DEF Requests
<1>2. Statements(s)' = Statements(s)
  BY DEF Statements, PurchaseStatements
<1>3. tx[s].at \in Nat
  BY DEF Types, TxType
<1>4. \A k \in 1 .. tx[s].at : k \in 1 .. Len(Statements(s))
  BY <1>3, StatementFacts DEF Holds
<1>5. r.kind # "quest" => ChipRow(r)' = {<<"chips", r.user>>} /\ ChipRow(r) = {<<"chips", r.user>>}
  BY DEF ChipRow
<1>6. ASSUME NEW k \in 1 .. tx[s].at, Statements(s)[k] = "chips", r.kind = "quest"
      PROVE  ChipRow(r)' = ChipRow(r)
  <2>1. k = 3
    BY <1>4, <1>6, StatementFacts
  <2>2. 2 \in 1 .. tx[s].at /\ Statements(s)[2] = "progress"
    BY <1>3, <1>6, <2>1, StatementFacts
  <2>3. progress'[r.user][r.about] = progress[r.user][r.about]
    BY <1>1, <1>6, <2>2 DEF Holds
  <2> QED
    BY <2>3 DEF ChipRow, QuestPays, Completes, NewProgress
<1>7. Holds(s)'
  BY <1>2, <1>5, <1>6 DEF Holds
<1>8. /\ r.kind \in {"gift", "drink", "debit"} /\ tx[s].at >= 1 => balance'[r.user] = balance[r.user]
      /\ r.kind = "purchase" /\ tx[s].at >= 2 => balance'[r.user] = balance[r.user]
  <2>1. r.kind \in {"gift", "drink", "debit"} /\ tx[s].at >= 1 => <<"chips", r.user>> \in tx[s].held
    BY <1>3, <1>5, StatementFacts DEF Holds
  <2>2. r.kind = "purchase" /\ tx[s].at >= 2 => <<"chips", r.user>> \in tx[s].held
    BY <1>3, <1>5, StatementFacts DEF Holds
  <2> QED
    BY <1>1, <2>1, <2>2
<1>9. Relies(s)'
  BY <1>8, <1>3 DEF Relies
<1> QED
  BY <1>7, <1>9

(* A statement takes free rows, and reads what it has locked.              *)
LEMMA ExecuteSafe ==
    ASSUME IInv, NEW t \in Transactions, Execute(t)
    PROVE  IInv'
<1> DEFINE r == request[t]
           name == Statements(t)[tx[t].at + 1]
<1> USE DEF IInv
<1>0. PICK taken \in IF Missing(t) = {} THEN {{}} ELSE {{row} : row \in Missing(t)} :
        /\ \A row \in taken : Available(row)
        /\ tx' = [tx EXCEPT ![t].held = @ \cup taken,
                            ![t].at = IF Missing(t) = taken THEN @ + 1 ELSE @,
                            ![t].clock = IF Runs(t, "recent") THEN today ELSE @,
                            ![t].balance = IF Runs(t, "chips") THEN balance[r.user] ELSE @]
  BY DEF Execute
<1>1. taken \subseteq Missing(t)
  BY <1>0
<1>2. /\ Open(t) /\ tx[t].at < Len(Statements(t)) /\ ~Refused(t)
      /\ UNCHANGED <<request, today, accounts, shop, rewards, grants, late>>
  BY DEF Execute
<1>3. r.user \in Users /\ tx[t].at \in Nat /\ tx \in [Transactions -> TxType] /\ tx[t] \in TxType
  BY RequestFacts DEF Requests, Types, TxType
<1>4. /\ tx'[t].state = "open" /\ tx'[t].held = tx[t].held \cup taken
      /\ tx'[t].at = IF Missing(t) = taken THEN tx[t].at + 1 ELSE tx[t].at
      /\ tx'[t].balance = IF Runs(t, "chips") THEN balance[r.user] ELSE tx[t].balance
      /\ \A s \in Transactions : s # t => tx'[s] = tx[s]
  BY <1>0, <1>2, <1>3 DEF Open, TxType
<1>5. Types'
  <2>1. taken \subseteq AnyRow
    BY <1>1, MissingTyped
  <2>2. balance[r.user] \in Nat /\ today \in Nat
    BY <1>3 DEF Types
  <2>3. tx'[t] \in TxType
    <3> DEFINE at == IF Missing(t) = taken THEN tx[t].at + 1 ELSE tx[t].at
               clock == IF Runs(t, "recent") THEN today ELSE tx[t].clock
               read == IF Runs(t, "chips") THEN balance[r.user] ELSE tx[t].balance
               held == tx[t].held \cup taken
    <3>1. at \in Nat /\ clock \in Nat /\ read \in Nat /\ held \in SUBSET AnyRow
      BY <1>3, <2>1, <2>2 DEF TxType
    <3>2. tx'[t] = [tx[t] EXCEPT !.held = held, !.at = at, !.clock = clock, !.balance = read]
      BY <1>0, <1>3
    <3> HIDE DEF at, clock, read, held
    <3> QED
      BY <1>3, <3>1, <3>2 DEF TxType
  <2>4. tx' \in [Transactions -> TxType]
    BY <1>0, <1>3, <2>3
  <2> QED
    BY <1>2, <2>4 DEF Types, Transactions, AnyRow, accounts, rewards
<1>6. Exclusive'
  <2>1. Exclusive /\ Transactions' = Transactions
    BY <1>2 DEF LocksInv, Transactions
  <2>2. \A s \in Transactions : taken \cap tx[s].held = {}
    BY <1>0 DEF Available
  <2> QED
    BY <1>4, <2>1, <2>2 DEF Exclusive
<1>7. Statements(t)' = Statements(t) /\ ChipRow(r)' = ChipRow(r) /\ r' = r
  BY <1>2 DEF Statements, PurchaseStatements, ChipRow, QuestPays, Completes, NewProgress, rewards
<1>8. Holds(t)'
  <2>1. Holds(t)
    BY <1>2 DEF LocksInv
  <2>2. CASE Missing(t) = taken
    <3>1. Rows(t, name) \subseteq tx'[t].held
      BY <1>2, <1>4, <2>2 DEF Missing
    <3>2. /\ name = "chips" => ChipRow(r) \subseteq tx'[t].held
          /\ name = "other" => <<"chips", r.other>> \in tx'[t].held
          /\ name = "progress" => <<"progress", r.user, r.about>> \in tx'[t].held
      BY <3>1 DEF Rows
    <3>3. tx'[t].at = tx[t].at + 1 /\ tx[t].held \subseteq tx'[t].held
      BY <1>4, <2>2
    <3>4. tx'[t].at <= Len(Statements(t))
      BY <1>2, <1>3, <3>3, StatementFacts
    <3>5. ASSUME NEW k \in 1 .. tx'[t].at
          PROVE  /\ Statements(t)[k] = "chips" => ChipRow(r) \subseteq tx'[t].held
                 /\ Statements(t)[k] = "other" => <<"chips", r.other>> \in tx'[t].held
                 /\ Statements(t)[k] = "progress" => <<"progress", r.user, r.about>> \in tx'[t].held
      <4>1. CASE k = tx[t].at + 1
        BY <3>2, <4>1
      <4>2. CASE k # tx[t].at + 1
        <5>1. k \in 1 .. tx[t].at
          BY <1>3, <3>3, <4>2
        <5> QED
          BY <2>1, <3>3, <5>1 DEF Holds
      <4> QED
        BY <4>1, <4>2
    <3> QED
      BY <1>7, <3>4, <3>5 DEF Holds
  <2>3. CASE Missing(t) # taken
    BY <1>3, <1>4, <1>7, <2>1, <2>3 DEF Holds
  <2> QED
    BY <2>2, <2>3
<1>9. Relies(t)'
  <2>1. Relies(t) /\ balance' = balance
    BY <1>2 DEF LocksInv, accounts
  <2>2. tx[t].at = 0 /\ r.kind \in {"gift", "drink"} => balance[r.user] - r.amount >= ChipFloor
    <3>1. ChipFloor \in Nat
      BY EconomyAssumption
    <3>2. r.kind \in {"gift", "drink"} => r.amount \in Nat /\ balance[r.user] \in Nat
      BY <1>3, RequestFacts DEF Types
    <3> QED
      BY <1>2, <3>1, <3>2 DEF Refused
  <2>3. tx[t].at = 0 /\ r.kind = "debit" => balance[r.user] >= r.amount
    BY <1>2, <1>3, RequestFacts DEF Refused, Types, Requests
  <2>4. r.kind = "purchase" /\ tx[t].at >= 2 => ~Runs(t, "chips")
    BY <1>2, <1>3, StatementFacts DEF Runs
  <2>5. r.kind = "purchase" /\ tx[t].at = 1 => Runs(t, "chips")
    BY <1>2, <1>3, StatementFacts DEF Runs
  <2>6. r.kind = "purchase" /\ tx[t].at = 3 => tx[t].balance >= Price[r.about]
    <3>1. r.kind = "purchase" => r.about \in Items /\ Price[r.about] \in Nat /\ tx[t].balance \in Nat
      BY <1>3, RequestFacts, EconomyAssumption DEF TxType
    <3> QED
      BY <1>2, <3>1 DEF Refused, PurchaseRefused
  <2>7. tx'[t].at = tx[t].at \/ tx'[t].at = tx[t].at + 1
    BY <1>4
  <2> QED
    BY <1>3, <1>4, <1>7, <2>1, <2>2, <2>3, <2>4, <2>5, <2>6, <2>7 DEF Relies
<1>10. ASSUME NEW s \in Transactions, s # t
       PROVE  IF Open(s)' THEN Holds(s)' /\ Relies(s)' ELSE Idle(s)'
  BY <1>2, <1>4, <1>10, Undisturbed DEF LocksInv, Open, Idle, accounts, rewards
<1>11. LocksInv'
  BY <1>2, <1>4, <1>6, <1>8, <1>9, <1>10 DEF LocksInv, Open, Transactions
<1>12. RewardedIsCompleted' /\ BalanceIsLedger'
  BY <1>2 DEF RewardedIsCompleted, BalanceIsLedger, accounts, rewards
<1> QED
  BY <1>5, <1>11, <1>12

(* A transaction that ends lets go of its rows, and has changed no others. *)
LEMMA EndSafe ==
    ASSUME IInv, NEW t \in Transactions, Open(t), tx' = [tx EXCEPT ![t] = Ended],
           request' = request, today' = today,
           balance' \in [Users -> Nat], ledger' \in [Users -> Int],
           progress' \in [Users -> [Assignments -> ProgressType]],
           streak' \in [Users -> [last : Int, run : Nat]],
           BalanceIsLedger', RewardedIsCompleted',
           \A u \in Users : <<"chips", u>> \notin tx[t].held => balance'[u] = balance[u],
           \A u \in Users, a \in Assignments :
             <<"progress", u, a>> \notin tx[t].held => progress'[u][a] = progress[u][a]
    PROVE  IInv'
<1> USE DEF IInv
<1>1. tx \in [Transactions -> TxType] /\ Transactions' = Transactions
  BY DEF Types, Transactions
<1>2. Ended \in TxType /\ Ended.state # "open" /\ Ended.held = {} /\ Ended.at = 0
  BY DEF Ended, Free, TxType
<1>3. tx'[t] = Ended /\ \A s \in Transactions : s # t => tx'[s] = tx[s]
  BY <1>1
<1>4. Types'
  <2>1. tx' \in [Transactions -> TxType]
    BY <1>1, <1>2
  <2> QED
    BY <2>1 DEF Types, Transactions, AnyRow
<1>5. Exclusive'
  BY <1>1, <1>2, <1>3 DEF LocksInv, Exclusive
<1>6. ASSUME NEW s \in Transactions, s # t
      PROVE  IF Open(s)' THEN Holds(s)' /\ Relies(s)' ELSE Idle(s)'
  <2>1. tx[s].held \cap tx[t].held = {}
    BY <1>6 DEF LocksInv, Exclusive
  <2>2. CASE Open(s)
    <3>1. Holds(s) /\ Relies(s) /\ tx'[s] = tx[s]
      BY <1>3, <1>6, <2>2 DEF LocksInv
    <3>2. Holds(s)' /\ Relies(s)'
      BY <2>1, <2>2, <3>1, Undisturbed
    <3> QED
      BY <2>2, <3>1, <3>2 DEF Open
  <2>3. CASE ~Open(s)
    BY <1>3, <1>6, <2>3 DEF LocksInv, Open, Idle
  <2> QED
    BY <2>2, <2>3
<1>7. LocksInv'
  BY <1>1, <1>2, <1>3, <1>5, <1>6 DEF LocksInv, Open, Idle
<1> QED
  BY <1>4, <1>7

(* At its commit a transaction holds the chips that it changes.            *)
LEMMA HoldsChips ==
    ASSUME IInv, NEW t \in Transactions, Open(t), tx[t].at = Len(Statements(t)),
           request[t].kind \in {"gift", "drink", "debit", "credit", "restore", "daily",
                               "cooldown", "purchase", "quest"},
           request[t].kind = "quest" => QuestPays(request[t])
    PROVE  /\ request[t].user \in Users
           /\ <<"chips", request[t].user>> \in tx[t].held
           /\ request[t].kind = "gift" => <<"chips", request[t].other>> \in tx[t].held
<1>1. Holds(t) /\ Types
  BY DEF IInv, LocksInv
<1>2. \E k \in 1 .. tx[t].at : Statements(t)[k] = "chips"
  <2>1. Len(Statements(t)) \in Nat /\ Len(Statements(t)) >= 1
    BY <1>1, StatementFacts
  <2>2. CASE request[t].kind \in {"gift", "drink", "debit", "credit", "restore"}
    BY <1>1, <2>1, <2>2, StatementFacts
  <2>3. CASE request[t].kind \in {"daily", "purchase"}
    <3>1. Statements(t)[2] = "chips" /\ Len(Statements(t)) >= 2
      BY <1>1, <2>3, StatementFacts
    <3> QED
      BY <2>1, <3>1
  <2>4. CASE request[t].kind \in {"cooldown", "quest"}
    <3>1. Statements(t)[3] = "chips" /\ Len(Statements(t)) >= 3
      BY <1>1, <2>4, StatementFacts
    <3> QED
      BY <2>1, <3>1
  <2> QED
    BY <2>2, <2>3, <2>4
<1>3. <<"chips", request[t].user>> \in tx[t].held
  BY <1>1, <1>2 DEF Holds, ChipRow
<1>4. request[t].kind = "gift" => <<"chips", request[t].other>> \in tx[t].held
  <2>1. request[t].kind = "gift" => 2 \in 1 .. tx[t].at /\ Statements(t)[2] = "other"
    BY <1>1, StatementFacts
  <2> QED
    BY <1>1, <2>1 DEF Holds
<1> QED
  BY <1>1, <1>3, <1>4, RequestFacts DEF Requests

(* Posting a change that the balance covers keeps the accounts.            *)
LEMMA PostSafe ==
    ASSUME Types, BalanceIsLedger, NEW u \in Users, NEW delta \in Int,
           balance[u] + delta >= 0, Post(u, delta)
    PROVE  /\ balance' \in [Users -> Nat] /\ ledger' \in [Users -> Int]
           /\ BalanceIsLedger'
           /\ \A v \in Users : v # u \/ delta = 0 => balance'[v] = balance[v]
<1>1. OpeningBalance \in [Users -> Nat]
  BY EconomyAssumption
<1>2. /\ balance \in [Users -> Nat] /\ ledger \in [Users -> Int]
      /\ balance' = [balance EXCEPT ![u] = @ + delta] /\ ledger' = [ledger EXCEPT ![u] = @ + delta]
  BY DEF Types, Post
<1>3. balance[u] + delta \in Nat
  BY <1>2
<1> QED
  BY <1>1, <1>2, <1>3 DEF BalanceIsLedger

-------------------------------------------------------------------------------
(* Transactions that post one change to the account of their user.         *)
LEMMA PostingSafe ==
    ASSUME IInv, NEW t \in Transactions, NEW kind, NEW delta \in Int, Commits(t, kind),
           kind \in {"drink", "debit", "credit", "restore", "daily", "cooldown"},
           balance[request[t].user] + delta >= 0, Post(request[t].user, delta),
           progress' = progress, streak' = streak
    PROVE  IInv'
<1>1. /\ Types /\ BalanceIsLedger /\ RewardedIsCompleted
      /\ Open(t) /\ tx[t].at = Len(Statements(t)) /\ request[t].kind = kind
      /\ tx' = [tx EXCEPT ![t] = Ended] /\ request' = request /\ today' = today
  BY DEF IInv, Commits
<1>2. request[t].user \in Users /\ <<"chips", request[t].user>> \in tx[t].held
  BY <1>1, HoldsChips
<1>3. /\ balance' \in [Users -> Nat] /\ ledger' \in [Users -> Int] /\ BalanceIsLedger'
      /\ \A v \in Users : v # request[t].user => balance'[v] = balance[v]
  BY <1>1, <1>2, PostSafe
<1>4. \A u \in Users : <<"chips", u>> \notin tx[t].held => balance'[u] = balance[u]
  BY <1>2, <1>3
<1> QED
  BY <1>1, <1>3, <1>4, EndSafe DEF Types, RewardedIsCompleted

(* Transactions that end without a change to accounts or quests.           *)
LEMMA QuietSafe ==
    ASSUME IInv, NEW t \in Transactions, Open(t), tx' = [tx EXCEPT ![t] = Ended],
           UNCHANGED <<request, today, accounts, progress, streak>>
    PROVE  IInv'
<1>1. balance' = balance /\ ledger' = ledger
  BY DEF accounts
<1> QED
  BY <1>1, EndSafe DEF IInv, Types, RewardedIsCompleted, BalanceIsLedger

LEMMA GiftSafe ==
    ASSUME IInv, NEW t \in Transactions, TransferGift(t)
    PROVE  IInv'
<1> DEFINE r == request[t]
<1>1. /\ Types /\ BalanceIsLedger /\ RewardedIsCompleted
      /\ Open(t) /\ tx[t].at = Len(Statements(t)) /\ r.kind = "gift"
      /\ tx' = [tx EXCEPT ![t] = Ended] /\ request' = request /\ today' = today
      /\ progress' = progress /\ streak' = streak
  BY DEF IInv, Commits, TransferGift, rewards
<1>2. /\ r.user \in Users /\ r.other \in Users /\ r.other # r.user /\ r.amount \in Nat
      /\ <<"chips", r.user>> \in tx[t].held /\ <<"chips", r.other>> \in tx[t].held
  BY <1>1, HoldsChips, RequestFacts
<1>3. balance[r.user] - r.amount >= ChipFloor /\ ChipFloor \in Nat
  <2>1. tx[t].at >= 1 /\ Relies(t)
    BY <1>1, StatementFacts DEF IInv, LocksInv
  <2> QED
    BY <1>1, <2>1, EconomyAssumption DEF Relies
<1>4. /\ balance' = [balance EXCEPT ![r.user] = @ - r.amount, ![r.other] = @ + r.amount]
      /\ ledger' = [ledger EXCEPT ![r.user] = @ - r.amount, ![r.other] = @ + r.amount]
  BY DEF TransferGift
<1>5. balance' \in [Users -> Nat] /\ ledger' \in [Users -> Int]
  <2>1. /\ balance[r.user] - r.amount \in Nat /\ balance[r.other] + r.amount \in Nat
        /\ ledger[r.user] - r.amount \in Int /\ ledger[r.other] + r.amount \in Int
    <3>1. /\ balance[r.user] \in Nat /\ balance[r.other] \in Nat
          /\ ledger[r.user] \in Int /\ ledger[r.other] \in Int
      BY <1>1, <1>2 DEF Types
    <3> QED
      BY <1>2, <1>3, <3>1
  <2> QED
    BY <1>1, <1>2, <1>4, <2>1 DEF Types
<1>6. BalanceIsLedger'
  <2>1. OpeningBalance \in [Users -> Nat]
    BY EconomyAssumption
  <2>2. ASSUME NEW u \in Users
        PROVE  balance'[u] = OpeningBalance[u] + ledger'[u]
    <3>1. balance[u] \in Nat /\ ledger[u] \in Int /\ balance[u] = OpeningBalance[u] + ledger[u]
      BY <1>1 DEF Types, BalanceIsLedger
    <3>2. /\ u = r.user => balance'[u] = balance[u] - r.amount /\ ledger'[u] = ledger[u] - r.amount
          /\ u = r.other => balance'[u] = balance[u] + r.amount /\ ledger'[u] = ledger[u] + r.amount
          /\ u \notin {r.user, r.other} => balance'[u] = balance[u] /\ ledger'[u] = ledger[u]
      BY <1>1, <1>2, <1>4 DEF Types
    <3> QED
      BY <1>2, <2>1, <3>1, <3>2
  <2> QED
    BY <1>5, <2>2 DEF BalanceIsLedger
<1>7. \A u \in Users : <<"chips", u>> \notin tx[t].held => balance'[u] = balance[u]
  BY <1>1, <1>2, <1>4 DEF Types
<1> QED
  BY <1>1, <1>5, <1>6, <1>7, EndSafe DEF Types, RewardedIsCompleted

(* The balance that a purchase writes is right, as it has held the row     *)
(* since it read it.                                                       *)
LEMMA PurchaseSafe ==
    ASSUME IInv, NEW t \in Transactions, PurchaseItem(t)
    PROVE  IInv'
<1> DEFINE r == request[t]
<1>1. /\ Types /\ BalanceIsLedger /\ RewardedIsCompleted
      /\ Open(t) /\ tx[t].at = Len(Statements(t)) /\ r.kind = "purchase" /\ ~Refused(t)
      /\ tx' = [tx EXCEPT ![t] = Ended] /\ request' = request /\ today' = today
      /\ progress' = progress /\ streak' = streak
  BY DEF IInv, Commits, PurchaseItem, rewards
<1>2. r.user \in Users /\ r.about \in Items /\ <<"chips", r.user>> \in tx[t].held
  BY <1>1, HoldsChips, RequestFacts
<1>3. Price[r.about] \in Nat /\ tx[t].balance \in Nat
  BY <1>1, <1>2, EconomyAssumption DEF Types, TxType
<1>4. tx[t].balance = balance[r.user] /\ balance[r.user] >= Price[r.about]
  <2>1. tx[t].at \in {3, 4} /\ Relies(t)
    BY <1>1, StatementFacts DEF IInv, LocksInv
  <2>2. CASE tx[t].at = 3
    BY <1>1, <1>3, <2>1, <2>2 DEF Relies, Refused, PurchaseRefused
  <2>3. CASE tx[t].at = 4
    BY <1>1, <2>1, <2>3 DEF Relies
  <2> QED
    BY <2>1, <2>2, <2>3
<1>5. Post(r.user, -Price[r.about])
  <2>1. /\ balance' = [balance EXCEPT ![r.user] = tx[t].balance - Price[r.about]]
        /\ ledger' = [ledger EXCEPT ![r.user] = @ - Price[r.about]]
    BY DEF PurchaseItem
  <2>2. balance[r.user] \in Int /\ ledger[r.user] \in Int
    BY <1>1, <1>2 DEF Types
  <2> QED
    BY <1>3, <1>4, <2>1, <2>2 DEF Post
<1>6. balance[r.user] + (-Price[r.about]) >= 0 /\ -Price[r.about] \in Int
  BY <1>1, <1>2, <1>3, <1>4 DEF Types
<1>7. /\ balance' \in [Users -> Nat] /\ ledger' \in [Users -> Int] /\ BalanceIsLedger'
      /\ \A v \in Users : v # r.user => balance'[v] = balance[v]
  BY <1>1, <1>2, <1>5, <1>6, PostSafe
<1>8. \A u \in Users : <<"chips", u>> \notin tx[t].held => balance'[u] = balance[u]
  BY <1>2, <1>7
<1> QED
  BY <1>1, <1>7, <1>8, EndSafe DEF Types, RewardedIsCompleted

-------------------------------------------------------------------------------
(* A streak grows by whole days, and its bonus is never negative.          *)
LEMMA StreakFacts ==
    ASSUME Types, NEW u \in Users, NEW day \in Int
    PROVE  NextDailyStreak(u, day) \in [last : Int, run : Nat] /\ StreakBonus(u, day) \in Nat
<1>1. /\ BonusChipsPerLevel \in Nat /\ MaxBonusLevel \in Nat
      /\ streak[u].last \in Int /\ streak[u].run \in Nat
      /\ streak[u] \in [last : Int, run : Nat]
  BY EconomyAssumption DEF Types
<1>2. \A x, y \in Int : Max({x, y}) \in {x, y} /\ Max({x, y}) >= x /\ Max({x, y}) >= y
  <2>1. ASSUME NEW x \in Int, NEW y \in Int
        PROVE  \E m \in {x, y} : \A z \in {x, y} : m >= z
    BY <2>1
  <2> QED
    BY <2>1 DEF Max
<1>3. \A x, y \in Int : Min({x, y}) \in {x, y}
  <2>1. ASSUME NEW x \in Int, NEW y \in Int
        PROVE  \E m \in {x, y} : \A z \in {x, y} : m =< z
    BY <2>1
  <2> QED
    BY <2>1 DEF Min
<1>4. Max({streak[u].run, 1}) \in Nat
  <2>1. streak[u].run \in Int /\ 1 \in Int
    BY <1>1
  <2>2. Max({streak[u].run, 1}) \in {streak[u].run, 1}
    BY <1>2, <2>1
  <2> QED
    BY <1>1, <2>2
<1>5. NextDailyStreak(u, day) \in [last : Int, run : Nat]
  BY <1>1, <1>4 DEF NextDailyStreak
<1>6. streak[u].last # day => NextDailyStreak(u, day).run - 1 \in Nat
  BY <1>1, <1>4 DEF NextDailyStreak
<1>7. streak[u].last # day => Min({NextDailyStreak(u, day).run - 1, MaxBonusLevel}) \in Nat
  BY <1>1, <1>3, <1>6
<1>8. StreakBonus(u, day) \in Nat
  BY <1>1, <1>7 DEF StreakBonus
<1> QED
  BY <1>5, <1>8

LEMMA QuestSafe ==
    ASSUME IInv, NEW t \in Transactions, ApplyProgressEvent(t)
    PROVE  IInv'
<1> DEFINE r == request[t]
           u == r.user
           a == r.about
           advances == /\ Completes(r) /\ ~progress[u][a].completed /\ a \in Daily
           bonus == IF advances THEN StreakBonus(u, DayOf[a]) ELSE 0
           delta == (IF QuestPays(r) THEN Reward ELSE 0) + bonus
           new == [count |-> NewProgress(r), completed |-> Completes(r),
                   rewarded |-> progress[u][a].rewarded \/ QuestPays(r)]
<1>1. /\ Types /\ BalanceIsLedger /\ RewardedIsCompleted
      /\ Open(t) /\ tx[t].at = Len(Statements(t)) /\ r.kind = "quest"
      /\ tx' = [tx EXCEPT ![t] = Ended] /\ request' = request /\ today' = today
      /\ progress' = [progress EXCEPT ![u][a] = new] /\ Post(u, delta)
      /\ streak' = IF advances THEN [streak EXCEPT ![u] = NextDailyStreak(u, DayOf[a])] ELSE streak
  BY DEF IInv, Commits, ApplyProgressEvent
<1>2. /\ u \in Users /\ a \in Assignments /\ r.amount \in Int
      /\ DayOf[a] \in Int /\ Target[a] \in Int /\ Reward \in Nat
  <2>1. r \in Requests /\ a \in Assignments
    BY <1>1, RequestFacts
  <2>2. u \in Users /\ r.amount \in Int
    BY <2>1 DEF Requests
  <2>3. /\ DayOf \in [Assignments -> Nat] /\ Target \in [Assignments -> Nat]
        /\ Reward \in Nat
    BY EconomyAssumption
  <2> QED
    BY <2>1, <2>2, <2>3
<1>3. progress[u][a] \in ProgressType
  BY <1>1, <1>2 DEF Types
<1>4. NewProgress(r) \in Int
  <2>1. \A x, y \in Int : \E m \in {x, y} : \A z \in {x, y} : m >= z
    OBVIOUS
  <2>2. \A x, y \in Int : Max({x, y}) \in Int
    BY <2>1 DEF Max
  <2> QED
    BY <1>2, <1>3, <2>2 DEF NewProgress, ProgressType
<1>5. Completes(r) \in BOOLEAN /\ QuestPays(r) \in BOOLEAN
  BY <1>3 DEF Completes, QuestPays, ProgressType
<1>6. /\ QuestPays(r) => Completes(r)
      /\ progress[u][a].completed => Completes(r)
      /\ progress[u][a].rewarded => progress[u][a].completed
      /\ advances => QuestPays(r)
  BY <1>1, <1>2 DEF QuestPays, Completes, RewardedIsCompleted
<1>7. new \in ProgressType /\ (new.rewarded => new.completed)
  BY <1>3, <1>4, <1>5, <1>6 DEF ProgressType
<1>8. /\ progress' \in [Users -> [Assignments -> ProgressType]] /\ RewardedIsCompleted'
      /\ \A v \in Users, b \in Assignments : <<v, b>> # <<u, a>> => progress'[v][b] = progress[v][b]
  <2> HIDE DEF new
  <2>1. progress' \in [Users -> [Assignments -> ProgressType]]
    BY <1>1, <1>2, <1>7 DEF Types
  <2>2. \A v \in Users, b \in Assignments :
          progress'[v][b] = IF v = u /\ b = a THEN new ELSE progress[v][b]
    BY <1>1, <1>2 DEF Types
  <2>3. ASSUME NEW v \in Users, NEW b \in Assignments, progress'[v][b].rewarded
        PROVE  progress'[v][b].completed
    <3>1. CASE v = u /\ b = a
      BY <1>7, <2>2, <2>3, <3>1
    <3>2. CASE ~(v = u /\ b = a)
      <4>1. progress'[v][b] = progress[v][b]
        BY <2>2, <3>2
      <4> QED
        BY <1>1, <2>3, <4>1 DEF RewardedIsCompleted
    <3> QED
      BY <3>1, <3>2
  <2> QED
    BY <2>1, <2>2, <2>3 DEF RewardedIsCompleted
<1>9. bonus \in Nat /\ streak' \in [Users -> [last : Int, run : Nat]]
  <2>1. NextDailyStreak(u, DayOf[a]) \in [last : Int, run : Nat] /\ StreakBonus(u, DayOf[a]) \in Nat
    BY <1>1, <1>2, StreakFacts
  <2> QED
    BY <1>1, <1>2, <2>1 DEF Types
<1>10. delta \in Nat /\ (~QuestPays(r) => delta = 0)
  BY <1>2, <1>6, <1>9
<1> HIDE DEF delta, bonus
<1>11. /\ balance' \in [Users -> Nat] /\ ledger' \in [Users -> Int] /\ BalanceIsLedger'
       /\ \A v \in Users : v # u \/ delta = 0 => balance'[v] = balance[v]
  <2>1. balance[u] + delta >= 0 /\ delta \in Int
    BY <1>1, <1>2, <1>10 DEF Types
  <2> QED
    BY <1>1, <1>2, <2>1, PostSafe
<1>12. \A v \in Users : <<"chips", v>> \notin tx[t].held => balance'[v] = balance[v]
  BY <1>1, <1>10, <1>11, HoldsChips
<1>13. <<"progress", u, a>> \in tx[t].held
  <2>1. 2 \in 1 .. tx[t].at /\ Statements(t)[2] = "progress"
    BY <1>1, StatementFacts
  <2>2. Holds(t)
    BY <1>1 DEF IInv, LocksInv
  <2> QED
    BY <2>1, <2>2 DEF Holds
<1> QED
  BY <1>1, <1>8, <1>9, <1>11, <1>12, <1>13, EndSafe

-------------------------------------------------------------------------------
LEMMA InitIInv == Init => IInv
<1> SUFFICES ASSUME Init
             PROVE  IInv
  OBVIOUS
<1>1. /\ OpeningBalance \in [Users -> Nat]
      /\ Free \in TxType /\ Free.state # "open" /\ Free.held = {} /\ Free.at = 0
  BY EconomyAssumption DEF Free, TxType
<1>2. Types
  BY <1>1 DEF Init, Types, Transactions, ProgressType
<1>3. LocksInv
  BY <1>1 DEF Init, LocksInv, Exclusive, Open, Idle, Transactions
<1>4. RewardedIsCompleted /\ BalanceIsLedger
  BY <1>1 DEF Init, RewardedIsCompleted, BalanceIsLedger
<1> QED
  BY <1>2, <1>3, <1>4 DEF IInv

(* A step that leaves everything but the day and a transaction that holds  *)
(* nothing as it is.                                                       *)
LEMMA BeginSafe ==
    ASSUME IInv, NEW t \in Transactions, Begin(t)
    PROVE  IInv'
<1>1. /\ Types /\ tx \in [Transactions -> TxType] /\ today \in Nat /\ tx[t].state = "asked"
      /\ tx' = [tx EXCEPT ![t].state = "open", ![t].day = today]
      /\ request' = request /\ today' = today /\ balance' = balance /\ ledger' = ledger
      /\ progress' = progress /\ streak' = streak
  BY DEF IInv, Types, Begin, accounts, rewards
<1>2. /\ tx'[t] \in TxType /\ tx'[t].state = "open" /\ tx'[t].at = 0 /\ tx'[t].held = {}
      /\ \A s \in Transactions : s # t => tx'[s] = tx[s]
  <2>1. tx[t].at = 0 /\ tx[t].held = {} /\ tx[t] \in TxType
    BY <1>1 DEF IInv, LocksInv, Open, Idle
  <2> QED
    BY <1>1, <2>1 DEF TxType
<1>3. Types'
  <2>1. tx' \in [Transactions -> TxType]
    BY <1>1, <1>2
  <2> QED
    BY <1>1, <2>1 DEF Types, Transactions, AnyRow
<1>4. Exclusive'
  BY <1>1, <1>2 DEF IInv, LocksInv, Exclusive, Transactions
<1>5. Holds(t)' /\ Relies(t)'
  <2>1. Statements(t)' = Statements(t)
    BY <1>1 DEF Statements, PurchaseStatements
  <2>2. Len(Statements(t)) >= 1
    BY <1>1, StatementFacts
  <2> QED
    BY <1>1, <1>2, <2>1, <2>2 DEF Holds, Relies
<1>6. ASSUME NEW s \in Transactions, s # t
      PROVE  IF Open(s)' THEN Holds(s)' /\ Relies(s)' ELSE Idle(s)'
  BY <1>1, <1>2, <1>6, Undisturbed DEF IInv, LocksInv, Open, Idle
<1>7. LocksInv'
  BY <1>1, <1>2, <1>4, <1>5, <1>6 DEF LocksInv, Open, Transactions
<1> QED
  BY <1>1, <1>3, <1>7 DEF IInv, RewardedIsCompleted, BalanceIsLedger

(* A quest that is skipped ends before it has begun.                       *)
LEMMA SkipSafe ==
    ASSUME IInv, NEW t \in Transactions, Skip(t)
    PROVE  IInv'
<1>1. /\ Types /\ tx \in [Transactions -> TxType]
      /\ tx' = [tx EXCEPT ![t] = Ended]
      /\ request' = request /\ today' = today /\ balance' = balance /\ ledger' = ledger
      /\ progress' = progress /\ streak' = streak
  BY DEF IInv, Types, Skip, accounts, rewards
<1>2. /\ Ended \in TxType /\ Ended.state # "open" /\ Ended.held = {} /\ Ended.at = 0
      /\ tx'[t] = Ended /\ \A s \in Transactions : s # t => tx'[s] = tx[s]
  BY <1>1 DEF Ended, Free, TxType
<1>3. Types'
  <2>1. tx' \in [Transactions -> TxType]
    BY <1>1, <1>2
  <2> QED
    BY <1>1, <2>1 DEF Types, Transactions, AnyRow
<1>4. Exclusive'
  BY <1>1, <1>2 DEF IInv, LocksInv, Exclusive, Transactions
<1>5. ASSUME NEW s \in Transactions, s # t
      PROVE  IF Open(s)' THEN Holds(s)' /\ Relies(s)' ELSE Idle(s)'
  BY <1>1, <1>2, <1>5, Undisturbed DEF IInv, LocksInv, Open, Idle
<1>6. LocksInv'
  BY <1>1, <1>2, <1>4, <1>5 DEF LocksInv, Open, Idle, Transactions
<1> QED
  BY <1>1, <1>3, <1>6 DEF IInv, RewardedIsCompleted, BalanceIsLedger

(* Where nothing changes, or only the day.                                 *)
LEMMA RestSafe ==
    ASSUME IInv, today' \in Nat,
           UNCHANGED <<request, tx, accounts, shop, rewards, grants, late>>
    PROVE  IInv'
<1>1. /\ request' = request /\ tx' = tx /\ balance' = balance /\ ledger' = ledger
      /\ progress' = progress /\ streak' = streak
  BY DEF accounts, rewards
<1>2. Types'
  BY <1>1 DEF IInv, Types, Transactions, AnyRow
<1>3. LocksInv'
  <2>1. \A t \in Transactions : Open(t) => Holds(t)' /\ Relies(t)'
    BY <1>1, Undisturbed DEF IInv, LocksInv
  <2> QED
    BY <1>1, <2>1 DEF IInv, LocksInv, Exclusive, Open, Idle, Transactions
<1> QED
  BY <1>1, <1>2, <1>3 DEF IInv, RewardedIsCompleted, BalanceIsLedger

LEMMA NextSafe == IInv /\ [Next]_vars => IInv'
<1> SUFFICES ASSUME IInv, [Next]_vars
             PROVE  IInv'
  OBVIOUS
<1>1. CASE UNCHANGED vars
  BY <1>1, RestSafe DEF vars, IInv, Types
<1>2. CASE NextDay
  BY <1>2, RestSafe DEF NextDay, IInv, Types
<1>3. ASSUME NEW t \in Transactions,
             \/ Begin(t) \/ Skip(t) \/ Execute(t) \/ Refuse(t) \/ Fail(t)
             \/ TransferGift(t) \/ BuyDrink(t) \/ Deduct(t) \/ AddBonus(t) \/ RestoreFloor(t)
             \/ GrantDaily(t) \/ GrantCooldown(t) \/ PurchaseItem(t) \/ AdjustFish(t)
             \/ ConsumePetTreat(t) \/ ConsumeAquariumFood(t) \/ EquipItem(t) \/ UnequipSlot(t)
             \/ ApplyProgressEvent(t)
      PROVE  IInv'
  <2> DEFINE r == request[t]
  <2>1. /\ Types /\ r.user \in Users /\ balance[r.user] \in Nat
        /\ r.kind \in {"drink", "debit", "credit"} => r.amount \in Nat
        /\ ChipFloor \in Nat /\ Reward \in Nat
    BY RequestFacts, EconomyAssumption DEF IInv, Types, Requests
  <2>2. Open(t) => Relies(t) /\ Len(Statements(t)) >= 1
    BY <2>1, StatementFacts DEF IInv, LocksInv
  <2>3. CASE Begin(t) \/ Skip(t) \/ Execute(t)
    BY <2>3, BeginSafe, SkipSafe, ExecuteSafe
  <2>4. CASE Refuse(t) \/ Fail(t)
    BY <2>4, QuietSafe DEF Refuse, Fail, rewards
  <2>5. CASE TransferGift(t) \/ PurchaseItem(t) \/ ApplyProgressEvent(t)
    BY <2>5, GiftSafe, PurchaseSafe, QuestSafe
  <2>6. CASE BuyDrink(t)
    <3>1. Commits(t, "drink") /\ balance[r.user] + (-r.amount) >= 0 /\ -r.amount \in Int
      BY <2>1, <2>2, <2>6 DEF BuyDrink, Commits, Relies
    <3> QED
      BY <2>6, <3>1, PostingSafe DEF BuyDrink, rewards
  <2>7. CASE Deduct(t)
    <3>1. Commits(t, "debit") /\ balance[r.user] + (-r.amount) >= 0 /\ -r.amount \in Int
      BY <2>1, <2>2, <2>7 DEF Deduct, Commits, Relies
    <3> QED
      BY <2>7, <3>1, PostingSafe DEF Deduct, rewards
  <2>8. CASE AddBonus(t)
    <3>1. Commits(t, "credit") /\ balance[r.user] + r.amount >= 0 /\ r.amount \in Int
      BY <2>1, <2>8 DEF AddBonus, Commits
    <3> QED
      BY <2>8, <3>1, PostingSafe DEF AddBonus, rewards
  <2>9. CASE RestoreFloor(t)
    <3> DEFINE missing == ChipFloor - balance[r.user]
               delta == IF missing > 0 THEN missing ELSE 0
    <3>1. Commits(t, "restore") /\ Post(r.user, delta) /\ progress' = progress /\ streak' = streak
      BY <2>9 DEF RestoreFloor, rewards
    <3>2. balance[r.user] + delta >= 0 /\ delta \in Int
      BY <2>1
    <3> HIDE DEF delta
    <3> QED
      BY <3>1, <3>2, PostingSafe
  <2>10. CASE GrantDaily(t) \/ GrantCooldown(t)
    <3>1. PICK kind \in {"daily", "cooldown"} :
            Commits(t, kind) /\ Post(r.user, Reward) /\ progress' = progress /\ streak' = streak
      BY <2>10 DEF GrantDaily, GrantCooldown, Claim
    <3>2. balance[r.user] + Reward >= 0 /\ Reward \in Int
      BY <2>1
    <3> QED
      BY <3>1, <3>2, PostingSafe
  <2>11. CASE AdjustFish(t) \/ ConsumePetTreat(t) \/ ConsumeAquariumFood(t)
    BY <2>11, QuietSafe
    DEF AdjustFish, ConsumePetTreat, ConsumeAquariumFood, Commits, rewards
  <2>12. CASE EquipItem(t) \/ UnequipSlot(t)
    BY <2>12, QuietSafe DEF EquipItem, UnequipSlot, Commits, rewards
  <2> QED
    BY <1>3, <2>3, <2>4, <2>5, <2>6, <2>7, <2>8, <2>9, <2>10, <2>11, <2>12
<1> QED
  BY <1>1, <1>2, <1>3 DEF Next

(* No chip appears or disappears and no balance is overdrawn, however many *)
(* transactions of however many users run at once, fail or deadlock: what  *)
(* the code gets from the order of its locks and its guarded updates.      *)
THEOREM AccountsBalance == Spec => []BalanceIsLedger
<1>1. IInv => BalanceIsLedger
  BY DEF IInv
<1> QED
  BY InitIInv, NextSafe, <1>1, PTL DEF Spec

-------------------------------------------------------------------------------
(***************************************************************************)
(* Limits.  A transaction that has passed a check keeps it true until it   *)
(* commits, because it holds what others would need to break it: the item, *)
(* the claim of the day or the key of the cooldown.                        *)
(***************************************************************************)
HoldsKeys(t) ==
    \A k \in 1 .. tx[t].at :
        /\ Statements(t)[k] = "item" => <<"item", request[t].about>> \in tx[t].held
        /\ Statements(t)[k] = "claim" => <<"daily", request[t].user, tx[t].day>> \in tx[t].held
        /\ Statements(t)[k] = "key" => <<"cooldown", request[t].user>> \in tx[t].held

(* What it has checked: nobody has taken what it will grant.               *)
Checked(t) ==
    LET r == request[t]  own == shelf[r.user][r.about] IN
    /\ r.kind = "daily" /\ tx[t].at >= 1 => <<r.user, "daily", tx[t].day>> \notin claims
    /\ r.kind = "cooldown" /\ tx[t].at >= 2 => <<r.user, "cooldown", tx[t].clock>> \notin claims
    /\ r.kind = "purchase" /\ tx[t].at >= 4 =>
        /\ own.have => r.about \in Repeatable
        /\ ~HasReachedDailyLimit(r.user, r.about, tx[t].day)
    /\ r.kind = "treat" /\ tx[t].at >= 3 => own.quantity > 0

KeysInv == \A t \in Transactions : Open(t) => HoldsKeys(t) /\ Checked(t)

ShelvesInv ==
    /\ shelf \in [Users -> [Items -> Shelves]] /\ treated \in [Users -> Nat]
    /\ \A u \in Users : FitsAndIsWorn(shelf[u])

(* What was granted can be told from the rows that keep it from being      *)
(* granted again.                                                          *)
Backed(what) ==
    \/ what[1] = "daily" /\ <<what[2], "daily", what[3]>> \in claims
    \/ what[1] = "cooldown" /\ <<what[2], "cooldown", what[3]>> \in claims
    \/ /\ what[1] = "unlocked" /\ what[2] \in Users /\ what[3] \in Items \ Repeatable
       /\ shelf[what[2]][what[3]].have
    \/ what[1] = "limited" /\ what[3] \in Limited /\ <<what[2], what[3], what[4]>> \in bought
    \/ what[1] = "treat" /\ what[2] \in Users /\ what[3] \in Nat /\ what[3] <= treated[what[2]]
    \/ /\ what[1] = "quest" /\ what[2] \in Users /\ what[3] \in Assignments
       /\ progress[what[2]][what[3]].rewarded
    \/ /\ what[1] = "streak" /\ what[2] \in Users /\ what[3] \in Nat
       /\ what[3] <= streak[what[2]].last \/ what[2] \in late

Once ==
    \A g, h \in grants :
        g[1] = h[1] => g[2] = h[2] \/ (g[1][1] = "streak" /\ g[1][2] \in late)

GrantsInv == Once /\ \A g \in grants : Backed(g[1])

LimitsInv == KeysInv /\ ShelvesInv /\ GrantsInv

(* More statements of each kind, and what they lock.                       *)
LEMMA KeyStatements ==
    ASSUME Types, NEW t \in Transactions
    PROVE  /\ request[t].kind \in {"purchase", "treat", "pinch"} => Statements(t)[1] = "item"
           /\ request[t].kind = "daily" => Statements(t)[1] = "claim"
           /\ request[t].kind = "cooldown" => Statements(t)[1] = "key" /\ Statements(t)[2] = "recent"
           /\ request[t].kind = "treat" => Len(Statements(t)) = 3
           /\ request[t].kind = "pinch" => Len(Statements(t)) = 2
           /\ request[t].kind = "fish" => Len(Statements(t)) = 2
<1>1. CASE request[t].kind = "purchase" /\ request[t].about \in Slotted
  BY <1>1 DEF Statements, PurchaseStatements
<1>2. CASE request[t].kind = "purchase" /\ request[t].about \notin Slotted
  BY <1>2 DEF Statements, PurchaseStatements
<1>3. CASE request[t].kind = "treat"
  BY <1>3 DEF Statements
<1>4. CASE request[t].kind = "pinch"
  BY <1>4 DEF Statements
<1>5. CASE request[t].kind = "daily"
  BY <1>5 DEF Statements
<1>6. CASE request[t].kind = "cooldown"
  BY <1>6 DEF Statements
<1>7. CASE request[t].kind = "fish"
  BY <1>7 DEF Statements
<1> QED
  BY <1>1, <1>2, <1>3, <1>4, <1>5, <1>6, <1>7

(* A statement that is done has locked its key, and passed its check.      *)
LEMMA ExecuteKeys ==
    ASSUME IInv, KeysInv, ShelvesInv, NEW t \in Transactions, Execute(t)
    PROVE  KeysInv'
<1> DEFINE r == request[t]
           name == Statements(t)[tx[t].at + 1]
<1>0. PICK taken \in IF Missing(t) = {} THEN {{}} ELSE {{row} : row \in Missing(t)} :
        /\ \A row \in taken : Available(row)
        /\ tx' = [tx EXCEPT ![t].held = @ \cup taken,
                            ![t].at = IF Missing(t) = taken THEN @ + 1 ELSE @,
                            ![t].clock = IF Runs(t, "recent") THEN today ELSE @,
                            ![t].balance = IF Runs(t, "chips") THEN balance[r.user] ELSE @]
  BY DEF Execute
<1>1. /\ Types /\ Open(t) /\ tx[t].at < Len(Statements(t)) /\ ~Refused(t)
      /\ request' = request /\ today' = today /\ claims' = claims /\ shelf' = shelf
      /\ bought' = bought /\ Transactions' = Transactions
  BY DEF Execute, IInv, shop, rewards, Transactions
<1>2. r.user \in Users /\ tx[t].at \in Nat /\ tx \in [Transactions -> TxType] /\ tx[t] \in TxType
  BY <1>1, RequestFacts DEF Requests, Types, TxType
<1>3. /\ tx'[t].held = tx[t].held \cup taken
      /\ tx'[t].at = IF Missing(t) = taken THEN tx[t].at + 1 ELSE tx[t].at
      /\ tx'[t].clock = IF Runs(t, "recent") THEN today ELSE tx[t].clock
      /\ tx'[t].day = tx[t].day
      /\ \A s \in Transactions : s # t => tx'[s] = tx[s]
  BY <1>0, <1>2 DEF TxType
<1>4. \A s \in Transactions : Statements(s)' = Statements(s)
  BY <1>1 DEF Statements, PurchaseStatements
<1>5. HoldsKeys(t) /\ Checked(t)
  BY <1>1 DEF KeysInv
<1>6. HoldsKeys(t)'
  <2>1. CASE Missing(t) = taken
    <3>1. Rows(t, name) \subseteq tx'[t].held
      BY <1>1, <1>3, <2>1 DEF Missing
    <3>2. /\ name = "item" => <<"item", r.about>> \in tx'[t].held
          /\ name = "claim" => <<"daily", r.user, tx[t].day>> \in tx'[t].held
          /\ name = "key" => <<"cooldown", r.user>> \in tx'[t].held
      BY <3>1 DEF Rows, CooldownKey
    <3>3. tx'[t].at = tx[t].at + 1 /\ tx[t].held \subseteq tx'[t].held
      BY <1>3, <2>1
    <3>4. ASSUME NEW k \in 1 .. tx'[t].at
          PROVE  /\ Statements(t)[k] = "item" => <<"item", r.about>> \in tx'[t].held
                 /\ Statements(t)[k] = "claim" => <<"daily", r.user, tx[t].day>> \in tx'[t].held
                 /\ Statements(t)[k] = "key" => <<"cooldown", r.user>> \in tx'[t].held
      <4>1. CASE k = tx[t].at + 1
        BY <3>2, <4>1
      <4>2. CASE k # tx[t].at + 1
        <5>1. k \in 1 .. tx[t].at
          BY <1>2, <3>3, <4>2
        <5> QED
          BY <1>5, <3>3, <5>1 DEF HoldsKeys
      <4> QED
        BY <4>1, <4>2
    <3> QED
      BY <1>1, <1>3, <1>4, <3>4 DEF HoldsKeys
  <2>2. CASE Missing(t) # taken
    BY <1>1, <1>2, <1>3, <1>4, <1>5, <2>2 DEF HoldsKeys
  <2> QED
    BY <2>1, <2>2
<1>7. Checked(t)'
  <2>1. tx'[t].at = tx[t].at \/ tx'[t].at = tx[t].at + 1
    BY <1>3
  <2>2. r.kind = "daily" /\ tx[t].at = 0 => <<r.user, "daily", tx[t].day>> \notin claims
    BY <1>1 DEF Refused
  <2>3. r.kind = "cooldown" /\ tx[t].at = 1 =>
          Runs(t, "recent") /\ <<r.user, "cooldown", today>> \notin claims
    BY <1>1, KeyStatements DEF Refused, Runs
  <2>4. r.kind = "cooldown" /\ tx[t].at >= 2 => ~Runs(t, "recent")
    BY <1>1, <1>2, StatementFacts DEF Runs
  <2>5. r.kind = "purchase" /\ tx[t].at = 3 => ~PurchaseRefused(t)
    BY <1>1 DEF Refused
  <2>6. r.kind = "purchase" /\ tx[t].at = 3 =>
          /\ shelf[r.user][r.about].have => r.about \in Repeatable
          /\ ~HasReachedDailyLimit(r.user, r.about, tx[t].day)
    BY <2>5 DEF PurchaseRefused
  <2>7. r.kind = "treat" /\ tx[t].at = 2 => shelf[r.user][r.about].quantity > 0
    <3>1. r.kind = "treat" => r.about \in Items
      BY <1>1, RequestFacts
    <3>2. r.kind = "treat" => shelf[r.user][r.about].quantity \in Nat
      BY <1>2, <3>1 DEF ShelvesInv, Shelves
    <3> QED
      BY <1>1, <3>2 DEF Refused
  <2> DEFINE own == shelf[r.user][r.about]
  <2>8. r.kind = "daily" /\ tx'[t].at >= 1 => <<r.user, "daily", tx[t].day>> \notin claims
    BY <1>2, <1>5, <2>1, <2>2 DEF Checked
  <2>9. r.kind = "cooldown" /\ tx'[t].at >= 2 => <<r.user, "cooldown", tx'[t].clock>> \notin claims
    BY <1>2, <1>3, <1>5, <2>1, <2>3, <2>4 DEF Checked
  <2>10. r.kind = "purchase" /\ tx'[t].at >= 4 =>
           /\ own.have => r.about \in Repeatable
           /\ ~HasReachedDailyLimit(r.user, r.about, tx[t].day)
    BY <1>2, <1>5, <2>1, <2>6 DEF Checked
  <2>11. r.kind = "treat" /\ tx'[t].at >= 3 => own.quantity > 0
    BY <1>2, <1>5, <2>1, <2>7 DEF Checked
  <2>12. HasReachedDailyLimit(r.user, r.about, tx[t].day)'
           = HasReachedDailyLimit(r.user, r.about, tx[t].day)
    BY <1>1, <1>3 DEF HasReachedDailyLimit
  <2> QED
    BY <1>1, <1>3, <2>8, <2>9, <2>10, <2>11, <2>12 DEF Checked
<1>8. ASSUME NEW s \in Transactions, s # t, Open(s)'
      PROVE  HoldsKeys(s)' /\ Checked(s)'
  <2>1. tx'[s] = tx[s] /\ Open(s)
    BY <1>3, <1>8 DEF Open
  <2>2. HoldsKeys(s) /\ Checked(s)
    BY <2>1 DEF KeysInv
  <2> QED
    BY <1>1, <1>4, <2>1, <2>2 DEF HoldsKeys, Checked, HasReachedDailyLimit
<1> QED
  BY <1>1, <1>6, <1>7, <1>8 DEF KeysInv

(* The rows by which limits are kept change only under their keys.         *)
UnderKeys(t) ==
    /\ \A c \in claims' \ claims : \E u \in Users, d \in Nat :
        \/ c = <<u, "daily", d>> /\ <<"daily", u, d>> \in tx[t].held
        \/ c = <<u, "cooldown", d>> /\ <<"cooldown", u>> \in tx[t].held
    /\ \A u \in Users, i \in Items : <<"item", i>> \notin tx[t].held =>
        shelf'[u][i].have = shelf[u][i].have /\ shelf'[u][i].quantity = shelf[u][i].quantity
    /\ \A p \in bought' \ bought : <<"item", p[2]>> \in tx[t].held

LEMMA EndKeys ==
    ASSUME IInv, KeysInv, NEW t \in Transactions, tx' = [tx EXCEPT ![t] = Ended],
           request' = request, UnderKeys(t)
    PROVE  KeysInv'
<1>1. /\ Types /\ Exclusive /\ tx \in [Transactions -> TxType] /\ Transactions' = Transactions
      /\ tx'[t].state # "open" /\ \A s \in Transactions : s # t => tx'[s] = tx[s]
  BY DEF IInv, Types, LocksInv, Transactions, Ended, Free
<1> SUFFICES ASSUME NEW s \in Transactions, s # t, Open(s)
             PROVE  HoldsKeys(s)' /\ Checked(s)'
  BY <1>1 DEF KeysInv, Open
<1> DEFINE r == request[s]
<1>2. HoldsKeys(s) /\ Checked(s) /\ tx'[s] = tx[s] /\ tx[s].at \in Nat /\ tx[s] \in TxType
  BY <1>1 DEF KeysInv, TxType
<1>3. \A row \in tx[s].held : row \notin tx[t].held
  BY <1>1 DEF Exclusive
<1>4. HoldsKeys(s)'
  BY <1>2 DEF HoldsKeys, Statements, PurchaseStatements
<1>5. r.user \in Users /\ (r.kind \in {"purchase", "treat"} => r.about \in Items)
  BY <1>1, RequestFacts DEF Requests
<1>6. ASSUME r.kind = "daily", tx[s].at >= 1
      PROVE  <<r.user, "daily", tx[s].day>> \notin claims'
  <2>1. <<"daily", r.user, tx[s].day>> \in tx[s].held
    BY <1>1, <1>2, <1>6, KeyStatements DEF HoldsKeys
  <2>2. <<r.user, "daily", tx[s].day>> \notin claims
    BY <1>2, <1>6 DEF Checked
  <2>3. SUFFICES ASSUME <<r.user, "daily", tx[s].day>> \in claims' \ claims PROVE FALSE
    BY <2>2
  <2>4. PICK u \in Users, d \in Nat :
          \/ <<r.user, "daily", tx[s].day>> = <<u, "daily", d>> /\ <<"daily", u, d>> \in tx[t].held
          \/ <<r.user, "daily", tx[s].day>> = <<u, "cooldown", d>> /\ <<"cooldown", u>> \in tx[t].held
    BY <2>3 DEF UnderKeys
  <2>5. r.user = u /\ tx[s].day = d /\ <<"daily", u, d>> \in tx[t].held
    BY <2>4
  <2> QED
    BY <1>3, <2>1, <2>5
<1>7. ASSUME r.kind = "cooldown", tx[s].at >= 2
      PROVE  <<r.user, "cooldown", tx[s].clock>> \notin claims'
  <2>1. <<"cooldown", r.user>> \in tx[s].held
    BY <1>1, <1>2, <1>7, KeyStatements DEF HoldsKeys
  <2>2. <<r.user, "cooldown", tx[s].clock>> \notin claims
    BY <1>2, <1>7 DEF Checked
  <2>3. SUFFICES ASSUME <<r.user, "cooldown", tx[s].clock>> \in claims' \ claims PROVE FALSE
    BY <2>2
  <2>4. PICK u \in Users, d \in Nat :
          \/ <<r.user, "cooldown", tx[s].clock>> = <<u, "daily", d>> /\ <<"daily", u, d>> \in tx[t].held
          \/ <<r.user, "cooldown", tx[s].clock>> = <<u, "cooldown", d>> /\ <<"cooldown", u>> \in tx[t].held
    BY <2>3 DEF UnderKeys
  <2>5. r.user = u /\ <<"cooldown", u>> \in tx[t].held
    BY <2>4
  <2> QED
    BY <1>3, <2>1, <2>5
<1>8. r.kind \in {"purchase", "treat"} /\ tx[s].at >= 1 => <<"item", r.about>> \notin tx[t].held
  BY <1>1, <1>2, <1>3, KeyStatements DEF HoldsKeys
<1>9. r.kind \in {"purchase", "treat"} /\ tx[s].at >= 1 =>
        /\ shelf'[r.user][r.about].have = shelf[r.user][r.about].have
        /\ shelf'[r.user][r.about].quantity = shelf[r.user][r.about].quantity
  BY <1>5, <1>8 DEF UnderKeys
<1>10. r.kind = "purchase" /\ tx[s].at >= 1 =>
         (HasReachedDailyLimit(r.user, r.about, tx[s].day)'
            => HasReachedDailyLimit(r.user, r.about, tx[s].day))
  BY <1>2, <1>8 DEF UnderKeys, HasReachedDailyLimit
<1>11. tx[s].at >= 4 \/ tx[s].at >= 3 => tx[s].at >= 1
  BY <1>2
<1>12. Checked(s)'
  BY <1>2, <1>6, <1>7, <1>9, <1>10, <1>11 DEF Checked
<1> QED
  BY <1>4, <1>12

(* A transaction that begins has passed no check yet.                      *)
LEMMA BeginKeys ==
    ASSUME IInv, KeysInv, NEW t \in Transactions, Begin(t)
    PROVE  KeysInv'
<1>1. /\ Types /\ tx \in [Transactions -> TxType] /\ Transactions' = Transactions
      /\ tx' = [tx EXCEPT ![t].state = "open", ![t].day = today] /\ tx[t].at = 0
      /\ request' = request /\ claims' = claims /\ shelf' = shelf /\ bought' = bought
  BY DEF IInv, Types, LocksInv, Open, Idle, Begin, Transactions, shop, rewards
<1>2. tx'[t].at = 0 /\ \A s \in Transactions : s # t => tx'[s] = tx[s]
  BY <1>1 DEF TxType
<1>3. HoldsKeys(t)' /\ Checked(t)'
  BY <1>2 DEF HoldsKeys, Checked
<1>4. ASSUME NEW s \in Transactions, s # t, Open(s)'
      PROVE  HoldsKeys(s)' /\ Checked(s)'
  <2>1. tx'[s] = tx[s] /\ HoldsKeys(s) /\ Checked(s)
    BY <1>2, <1>4 DEF Open, KeysInv
  <2>2. Statements(s)' = Statements(s)
    BY <1>1 DEF Statements, PurchaseStatements
  <2> QED
    BY <1>1, <2>1, <2>2 DEF HoldsKeys, Checked, HasReachedDailyLimit
<1> QED
  BY <1>1, <1>3, <1>4 DEF KeysInv

-------------------------------------------------------------------------------
(* The sum of the tank: where one kind of fish changes, the sum changes by *)
(* as much, and other things of the shelf do not matter.                   *)
LEMMA SwimmingSame ==
    ASSUME NEW own \in [Items -> Shelves], NEW new \in [Items -> Shelves],
           \A i \in Items : new[i].active = own[i].active
    PROVE  Swimming(new) = Swimming(own)
<1> DEFINE f == [i \in Items |-> own[i].active]
           g == [i \in Items |-> new[i].active]
<1>1. IsFiniteSet(Fish) /\ Fish \subseteq Items
  BY EconomyAssumption
<1>2. \A i \in Fish : f[i] \in Int /\ g[i] = f[i]
  BY <1>1 DEF Shelves
<1>3. SumFunctionOnSet(f, Fish) = SumFunctionOnSet(g, Fish)
  <2> HIDE DEF f, g
  <2> QED
    BY <1>1, <1>2, SumSame
<1> QED
  BY <1>3 DEF Swimming

LEMMA SwimmingTyped ==
    ASSUME NEW own \in [Items -> Shelves]
    PROVE  Swimming(own) \in Int
<1> DEFINE f == [i \in Items |-> own[i].active]
<1>1. IsFiniteSet(Fish) /\ Fish \subseteq Items
  BY EconomyAssumption
<1>2. \A i \in Fish : f[i] \in Int
  BY <1>1 DEF Shelves
<1>3. SumFunctionOnSet(f, Fish) \in Int
  <2> HIDE DEF f
  <2> QED
    BY <1>1, <1>2, SumInt
<1> QED
  BY <1>3 DEF Swimming

LEMMA SwimmingOther ==
    ASSUME NEW own \in [Items -> Shelves], NEW new \in [Items -> Shelves], NEW y \in Fish,
           \A i \in Items : i # y => new[i].active = own[i].active
    PROVE  Swimming(new) = Swimming(own) - own[y].active + new[y].active
<1> DEFINE f == [i \in Items |-> own[i].active]
           g == [i \in Items |-> new[i].active]
           rest == SumFunctionOnSet(f, Fish \ {y})
<1>1. IsFiniteSet(Fish) /\ Fish \subseteq Items /\ IsFiniteSet(Fish \ {y})
  BY EconomyAssumption, FS_Subset
<1>2. \A i \in Fish : f[i] \in Int /\ g[i] \in Int /\ (i # y => g[i] = f[i])
  BY <1>1 DEF Shelves
<1>3. /\ SumFunctionOnSet(f, Fish) = f[y] + SumFunctionOnSet(f, Fish \ {y})
      /\ SumFunctionOnSet(g, Fish) = g[y] + SumFunctionOnSet(g, Fish \ {y})
      /\ SumFunctionOnSet(f, Fish \ {y}) = SumFunctionOnSet(g, Fish \ {y})
      /\ SumFunctionOnSet(f, Fish \ {y}) \in Int
  <2> HIDE DEF f, g
  <2>1. \A i \in Fish \ {y} : f[i] \in Int /\ g[i] = f[i]
    BY <1>2
  <2>2. SumFunctionOnSet(f, Fish \ {y}) = SumFunctionOnSet(g, Fish \ {y})
    BY <1>1, <2>1, SumSame
  <2>3. SumFunctionOnSet(f, Fish \ {y}) \in Int
    BY <1>1, <2>1, SumInt
  <2> QED
    BY <1>1, <1>2, <2>2, <2>3, SumRemove
<1>4. f[y] = own[y].active /\ g[y] = new[y].active
  BY <1>1
<1>5. /\ Swimming(own) = own[y].active + rest /\ Swimming(new) = new[y].active + rest
      /\ rest \in Int /\ own[y].active \in Int /\ new[y].active \in Int
  BY <1>2, <1>3, <1>4 DEF Swimming
<1> QED
  BY <1>5

-------------------------------------------------------------------------------
(* A shelf of which some item has changed.                                 *)
LEMMA ShelfChanges ==
    ASSUME ShelvesInv, NEW u \in Users, NEW new \in [Items -> Shelves], FitsAndIsWorn(new),
           shelf' = [shelf EXCEPT ![u] = new], treated' \in [Users -> Nat]
    PROVE  ShelvesInv'
  BY DEF ShelvesInv, FitsAndIsWorn, Swimming

(* What Max and Min make of two numbers.                                   *)
LEMMA TwoNumbers ==
    ASSUME NEW x \in Int, NEW y \in Int
    PROVE  /\ Max({x, y}) = IF x >= y THEN x ELSE y
           /\ Min({x, y}) = IF x <= y THEN x ELSE y
<1>1. \E m \in {x, y} : \A z \in {x, y} : m >= z
  OBVIOUS
<1>2. Max({x, y}) \in {x, y} /\ \A z \in {x, y} : Max({x, y}) >= z
  BY <1>1 DEF Max
<1>3. \E m \in {x, y} : \A z \in {x, y} : m =< z
  OBVIOUS
<1>4. Min({x, y}) \in {x, y} /\ \A z \in {x, y} : Min({x, y}) =< z
  BY <1>3 DEF Min
<1> QED
  BY <1>2, <1>4

(* Fish that are shown are owned and fit in the tank.                      *)
LEMMA FishFit ==
    ASSUME IInv, ShelvesInv, NEW t \in Transactions, AdjustFish(t)
    PROVE  ShelvesInv'
<1> DEFINE r == request[t]
           own == shelf[r.user]
           old == own[r.about]
           n == NextActive(r)
           new == [own EXCEPT ![r.about] = [old EXCEPT !.active = n]]
<1>1. /\ Types /\ r.kind = "fish" /\ tx[t].at = Len(Statements(t)) /\ ~Refused(t)
      /\ shelf' = [shelf EXCEPT ![r.user][r.about].active = n] /\ treated' = treated
  BY DEF AdjustFish, Commits, IInv
<1>2. r.user \in Users /\ r.about \in Fish /\ r.about \in Items /\ r.amount \in Int
  BY <1>1, RequestFacts DEF Requests
<1>3. own \in [Items -> Shelves] /\ FitsAndIsWorn(own) /\ old \in Shelves
  BY <1>2 DEF ShelvesInv
<1>4. old.active \in Nat /\ old.quantity \in Nat /\ old.active <= old.quantity
  BY <1>2, <1>3 DEF Shelves, FitsAndIsWorn
<1>5. n \in Nat /\ n <= old.quantity /\ (r.amount <= 0 => n <= old.active)
  <2>1. NextActive(r) = Min({Max({old.active + r.amount, 0}), old.quantity})
    BY DEF NextActive
  <2>2. old.active + r.amount \in Int
    BY <1>2, <1>4
  <2>3. Max({old.active + r.amount, 0}) = IF old.active + r.amount >= 0 THEN old.active + r.amount ELSE 0
    BY <2>2, TwoNumbers
  <2> DEFINE m == Max({old.active + r.amount, 0})
  <2>4. m \in Nat /\ (r.amount <= 0 => m <= old.active)
    BY <1>2, <1>4, <2>2, <2>3
  <2> HIDE DEF m
  <2>5. Min({m, old.quantity}) = IF m <= old.quantity THEN m ELSE old.quantity
    <3>1. m \in Int /\ old.quantity \in Int
      BY <1>4, <2>4
    <3> QED
      BY <3>1, TwoNumbers, Zenon
  <2>6. n = Min({m, old.quantity})
    BY <2>1 DEF m
  <2> QED
    BY <1>4, <2>4, <2>5, <2>6
<1>6. r.amount > 0 => Swimming(own) - old.active + n <= MaxFish
  <2>1. ~FishRefused(r)
    BY <1>1, KeyStatements DEF Refused
  <2>2. r.amount > 0 => ~(ActiveFish(r.user) - old.active + n > MaxFish)
    BY <2>1 DEF FishRefused
  <2>3. Swimming(own) \in Int /\ MaxFish \in Nat
    BY <1>3, SwimmingTyped, EconomyAssumption
  <2> QED
    BY <1>4, <1>5, <2>2, <2>3 DEF ActiveFish
<1> HIDE DEF n
<1>7. [old EXCEPT !.active = n] \in Shelves
  BY <1>3, <1>5 DEF Shelves
<1>8. /\ new \in [Items -> Shelves] /\ new[r.about].active = n
      /\ \A i \in Items : i # r.about => new[i] = own[i]
      /\ \A i \in Items : new[i].quantity = own[i].quantity /\ new[i].equipped = own[i].equipped
  BY <1>2, <1>3, <1>7 DEF Shelves
<1>9. shelf' = [shelf EXCEPT ![r.user] = new]
  BY <1>1, <1>2 DEF ShelvesInv
<1> HIDE DEF new
<1>10. FitsAndIsWorn(new)
  <2>1. Swimming(new) = Swimming(own) - old.active + n
    BY <1>2, <1>3, <1>8, SwimmingOther
  <2>2. Swimming(own) \in Int /\ Swimming(own) <= MaxFish /\ MaxFish \in Nat
    BY <1>3, SwimmingTyped, EconomyAssumption DEF FitsAndIsWorn
  <2>3. Swimming(new) <= MaxFish
    <3> DEFINE was == Swimming(own)
               am == r.amount
               oa == old.active
    <3>1. /\ was \in Int /\ was <= MaxFish /\ MaxFish \in Int /\ am \in Int /\ oa \in Int /\ n \in Int
          /\ (am > 0 => was - oa + n <= MaxFish) /\ (am <= 0 => n <= oa)
      BY <1>2, <1>4, <1>5, <1>6, <2>2
    <3>2. Swimming(new) = was - oa + n
      BY <2>1
    <3> HIDE DEF was, am, oa
    <3>3. was - oa + n <= MaxFish
      BY <3>1
    <3> QED
      BY <3>2, <3>3
  <2>4. \A i \in Items : new[i].active <= new[i].quantity
    <3>1. n <= old.quantity /\ \A i \in Items : own[i].active <= own[i].quantity
      BY <1>3, <1>5 DEF FitsAndIsWorn
    <3>2. ASSUME NEW i \in Items, i # r.about
          PROVE  new[i].active <= new[i].quantity
      BY <1>8, <3>1, <3>2
    <3>3. new[r.about].active <= new[r.about].quantity
      BY <1>2, <1>8, <3>1
    <3> QED
      BY <3>2, <3>3
  <2>5. \A i, j \in Slotted : new[i].equipped /\ new[j].equipped => i = j
    BY <1>3, <1>8, EconomyAssumption DEF FitsAndIsWorn
  <2> QED
    BY <2>3, <2>4, <2>5 DEF FitsAndIsWorn
<1> QED
  BY <1>1, <1>2, <1>8, <1>9, <1>10, ShelfChanges DEF ShelvesInv

(* What is used up no longer swims.                                        *)
LEMMA ConsumeFits ==
    ASSUME ShelvesInv, NEW u \in Users, NEW i \in Items, shelf[u][i].quantity > 0,
           Consume(u, i), treated' \in [Users -> Nat]
    PROVE  ShelvesInv'
<1> DEFINE own == shelf[u]
           old == own[i]
           left == old.quantity - 1
           n == Min({old.active, left})
           new == [own EXCEPT ![i] = [old EXCEPT !.quantity = left, !.active = n]]
<1>1. own \in [Items -> Shelves] /\ FitsAndIsWorn(own) /\ old \in Shelves
  BY DEF ShelvesInv
<1>2. old.active \in Nat /\ old.quantity \in Nat /\ left \in Nat
  BY <1>1 DEF Shelves
<1>3. n \in Nat /\ n <= left /\ n <= old.active
  <2> HIDE DEF left
  <2>1. n = IF old.active <= left THEN old.active ELSE left
    <3>1. old.active \in Int /\ left \in Int
      BY <1>2
    <3> QED
      BY <3>1, TwoNumbers, Zenon
  <2> QED
    BY <1>2, <2>1
<1>4. shelf' = [shelf EXCEPT ![u] = new]
  BY <1>1 DEF Consume, ShelvesInv
<1> HIDE DEF n, left
<1>5. [old EXCEPT !.quantity = left, !.active = n] \in Shelves
  BY <1>1, <1>2, <1>3 DEF Shelves
<1>6. /\ new \in [Items -> Shelves] /\ new[i].active = n /\ new[i].quantity = left
      /\ \A j \in Items : j # i => new[j] = own[j]
      /\ \A j \in Items : new[j].equipped = own[j].equipped
  BY <1>1, <1>2, <1>5 DEF Shelves
<1> HIDE DEF new
<1>7. Swimming(own) \in Int /\ Swimming(own) <= MaxFish /\ MaxFish \in Nat
  BY <1>1, SwimmingTyped, EconomyAssumption DEF FitsAndIsWorn
<1>8. Swimming(new) <= MaxFish
  <2>1. CASE i \in Fish
    <3>1. Swimming(new) = Swimming(own) - old.active + n
      BY <1>1, <1>6, <2>1, SwimmingOther
    <3> QED
      BY <1>2, <1>3, <1>7, <3>1
  <2>2. CASE i \notin Fish
    <3> DEFINE f == [j \in Items |-> own[j].active]
               g == [j \in Items |-> new[j].active]
    <3>1. IsFiniteSet(Fish) /\ \A j \in Fish : j \in Items /\ j # i
      BY <2>2, EconomyAssumption
    <3>2. \A j \in Fish : f[j] \in Int /\ g[j] = f[j]
      BY <1>1, <1>6, <3>1 DEF Shelves
    <3>3. SumFunctionOnSet(f, Fish) = SumFunctionOnSet(g, Fish)
      <4> HIDE DEF f, g
      <4> QED
        BY <3>1, <3>2, SumSame
    <3> QED
      BY <1>7, <3>3 DEF Swimming
  <2> QED
    BY <2>1, <2>2
<1>9. FitsAndIsWorn(new)
  BY <1>1, <1>3, <1>6, <1>8, EconomyAssumption DEF FitsAndIsWorn
<1> QED
  BY <1>4, <1>6, <1>9, ShelfChanges

(* Of the slot one item is worn at most, whatever was.                     *)
LEMMA WornFits ==
    ASSUME NEW own \in [Items -> Shelves], NEW i, Swimming(own) <= MaxFish,
           \A j \in Items : own[j].active <= own[j].quantity
    PROVE  Worn(own, i) \in [Items -> Shelves] /\ FitsAndIsWorn(Worn(own, i))
<1> DEFINE new == Worn(own, i)
<1>1. \A j \in Items :
        new[j] = [own[j] EXCEPT !.equipped = IF j \in Slotted THEN j = i ELSE @]
  BY DEF Worn
<1>2. ASSUME NEW j \in Items
      PROVE  /\ new[j] \in Shelves /\ new[j].active = own[j].active
             /\ new[j].quantity = own[j].quantity
             /\ j \in Slotted => new[j].equipped = (j = i)
  <2>1. own[j] \in Shelves /\ (IF j \in Slotted THEN j = i ELSE own[j].equipped) \in BOOLEAN
    BY DEF Shelves
  <2> QED
    BY <1>1, <2>1 DEF Shelves
<1>3. new \in [Items -> Shelves]
  BY <1>2 DEF Worn
<1> HIDE DEF new
<1>4. Swimming(new) = Swimming(own)
  BY <1>2, <1>3, SwimmingSame
<1>5. FitsAndIsWorn(new)
  BY <1>2, <1>4, EconomyAssumption DEF FitsAndIsWorn
<1> QED
  BY <1>3, <1>5 DEF new

(* What is bought is added to the shelf, and worn if it is of the slot.    *)
LEMMA PurchaseFits ==
    ASSUME IInv, ShelvesInv, NEW t \in Transactions, PurchaseItem(t)
    PROVE  ShelvesInv'
<1> DEFINE u == request[t].user
           i == request[t].about
           own == shelf[u]
           one == [own[i] EXCEPT !.have = TRUE, !.quantity = @ + 1]
           bag == [own EXCEPT ![i] = one]
           added == [own EXCEPT ![i].have = TRUE, ![i].quantity = @ + 1]
<1>1. /\ Types /\ request[t].kind = "purchase"
      /\ shelf' = [shelf EXCEPT ![u] = IF i \in Slotted THEN Worn(added, i) ELSE added]
      /\ treated' = treated
  BY DEF PurchaseItem, Commits, IInv
<1>2. u \in Users /\ i \in Items
  BY <1>1, RequestFacts DEF Requests
<1>3. own \in [Items -> Shelves] /\ FitsAndIsWorn(own) /\ own[i] \in Shelves
  BY <1>2 DEF ShelvesInv
<1>4. added = bag
  BY <1>2, <1>3
<1>5. one \in Shelves /\ one.active = own[i].active /\ one.quantity = own[i].quantity + 1
      /\ one.equipped = own[i].equipped
  <2> DEFINE old == own[i]
  <2>1. old \in Shelves /\ old.quantity + 1 \in Nat
    BY <1>3 DEF Shelves
  <2> HIDE DEF old, own
  <2>2. one = [old EXCEPT !.have = TRUE, !.quantity = @ + 1]
    BY DEF old
  <2>3. /\ one \in Shelves /\ one.active = old.active /\ one.quantity = old.quantity + 1
        /\ one.equipped = old.equipped
    <3> HIDE DEF one
    <3> QED
      BY <2>1, <2>2 DEF Shelves
  <2> QED
    BY <2>3 DEF old
<1> HIDE DEF one
<1>6. /\ bag \in [Items -> Shelves] /\ bag[i] = one
      /\ \A j \in Items : j # i => bag[j] = own[j]
  BY <1>2, <1>3, <1>5
<1>7. shelf' = [shelf EXCEPT ![u] = IF i \in Slotted THEN Worn(bag, i) ELSE bag]
  <2> HIDE DEF bag, added
  <2> QED
    BY <1>1, <1>4
<1> HIDE DEF bag, added
<1>8. /\ \A j \in Items : bag[j].active = own[j].active /\ bag[j].equipped = own[j].equipped
      /\ \A j \in Items : bag[j].active <= bag[j].quantity
  <2>1. \A j \in Items : bag[j].active = own[j].active /\ bag[j].equipped = own[j].equipped
    BY <1>5, <1>6
  <2>2. \A j \in Items : own[j].active <= own[j].quantity
    BY <1>3 DEF FitsAndIsWorn
  <2>3. own[i].active \in Nat /\ own[i].quantity \in Nat /\ own[i].active <= own[i].quantity
    BY <1>2, <1>3, <2>2 DEF Shelves
  <2>4. bag[i].active <= bag[i].quantity
    <3>1. bag[i].active = own[i].active /\ bag[i].quantity = own[i].quantity + 1
      BY <1>5, <1>6
    <3> QED
      BY <2>3, <3>1
  <2> QED
    BY <1>6, <2>1, <2>2, <2>4
<1>9. Swimming(bag) = Swimming(own) /\ Swimming(bag) <= MaxFish
  BY <1>3, <1>6, <1>8, SwimmingSame DEF FitsAndIsWorn
<1>10. FitsAndIsWorn(bag)
  BY <1>3, <1>8, <1>9, EconomyAssumption DEF FitsAndIsWorn
<1>11. Worn(bag, i) \in [Items -> Shelves] /\ FitsAndIsWorn(Worn(bag, i))
  BY <1>6, <1>8, <1>9, WornFits
<1>12. treated' \in [Users -> Nat]
  BY <1>1 DEF ShelvesInv
<1>13. CASE i \in Slotted
  BY <1>2, <1>7, <1>11, <1>12, <1>13, ShelfChanges
<1>14. CASE i \notin Slotted
  BY <1>2, <1>6, <1>7, <1>10, <1>12, <1>14, ShelfChanges
<1> QED
  BY <1>13, <1>14

LEMMA WearFits ==
    ASSUME IInv, ShelvesInv, NEW t \in Transactions, EquipItem(t) \/ UnequipSlot(t)
    PROVE  ShelvesInv'
<1> DEFINE u == request[t].user
<1>1. Types /\ u \in Users
  BY RequestFacts DEF IInv, Requests
<1>2. PICK i : shelf' = [shelf EXCEPT ![u] = Worn(@, i)]
  BY DEF EquipItem, UnequipSlot
<1>3. shelf' = [shelf EXCEPT ![u] = Worn(shelf[u], i)] /\ treated' \in [Users -> Nat]
  BY <1>1, <1>2 DEF EquipItem, UnequipSlot, ShelvesInv
<1>4. Worn(shelf[u], i) \in [Items -> Shelves] /\ FitsAndIsWorn(Worn(shelf[u], i))
  BY <1>1, WornFits DEF ShelvesInv, FitsAndIsWorn
<1> QED
  BY <1>1, <1>3, <1>4, ShelfChanges

LEMMA UseFits ==
    ASSUME IInv, KeysInv, ShelvesInv, NEW t \in Transactions,
           ConsumePetTreat(t) \/ ConsumeAquariumFood(t)
    PROVE  ShelvesInv'
<1> DEFINE u == request[t].user
           i == request[t].about
<1>1. /\ Types /\ Open(t) /\ tx[t].at = Len(Statements(t)) /\ ~Refused(t)
      /\ u \in Users /\ tx[t].day \in Nat
  BY RequestFacts DEF IInv, Requests, ConsumePetTreat, ConsumeAquariumFood, Commits, Types, TxType
<1>2. Consume(u, i) /\ i \in Items /\ treated' \in [Users -> Nat]
  <2>1. CASE ConsumePetTreat(t)
    <3>1. i = PetFood /\ i \in Items
      BY <1>1, <2>1, RequestFacts DEF ConsumePetTreat, Commits
    <3> QED
      BY <1>1, <2>1, <3>1 DEF ConsumePetTreat, ShelvesInv
  <2>2. CASE ConsumeAquariumFood(t)
    <3>1. i = AquariumFood /\ i \in Items
      BY <1>1, <2>2, RequestFacts DEF ConsumeAquariumFood, Commits
    <3> QED
      BY <1>1, <2>2, <3>1 DEF ConsumeAquariumFood, ShelvesInv
  <2> QED
    BY <2>1, <2>2
<1>3. shelf[u][i].quantity > 0
  <2>1. CASE ConsumePetTreat(t)
    <3>1. request[t].kind = "treat" /\ tx[t].at = 3
      BY <1>1, <2>1, KeyStatements DEF ConsumePetTreat, Commits
    <3>2. Checked(t)
      BY <1>1 DEF KeysInv
    <3> QED
      BY <3>1, <3>2 DEF Checked
  <2>2. CASE ConsumeAquariumFood(t)
    <3>1. request[t].kind = "pinch" /\ tx[t].at = 2
      BY <1>1, <2>2, KeyStatements DEF ConsumeAquariumFood, Commits
    <3>2. shelf[u][i].quantity # 0
      BY <1>1, <3>1 DEF Refused
    <3> QED
      BY <1>1, <1>2, <3>2 DEF ShelvesInv, Shelves
  <2> QED
    BY <2>1, <2>2
<1> QED
  BY <1>1, <1>2, <1>3, ConsumeFits

-------------------------------------------------------------------------------
(* Who changes a row by which a limit is kept holds its key.               *)
LEMMA ClaimUnderKeys ==
    ASSUME IInv, KeysInv, NEW t \in Transactions, GrantDaily(t) \/ GrantCooldown(t)
    PROVE  UnderKeys(t)
<1> DEFINE u == request[t].user
<1>1. /\ Types /\ Open(t) /\ tx[t].at = Len(Statements(t)) /\ u \in Users
      /\ tx[t].day \in Nat /\ tx[t].clock \in Nat /\ shelf' = shelf /\ bought' = bought
  BY RequestFacts DEF IInv, Requests, GrantDaily, GrantCooldown, Claim, Commits, Types, TxType, shop
<1>2. HoldsKeys(t)
  BY <1>1 DEF KeysInv
<1>3. CASE GrantDaily(t)
  <2>1. request[t].kind = "daily" /\ claims' = claims \cup {<<u, "daily", tx[t].day>>}
    BY <1>3 DEF GrantDaily, Claim, Commits
  <2>2. 1 \in 1 .. tx[t].at /\ Statements(t)[1] = "claim"
    BY <1>1, <2>1, KeyStatements, StatementFacts
  <2>3. <<"daily", u, tx[t].day>> \in tx[t].held
    BY <1>2, <2>2 DEF HoldsKeys
  <2> QED
    BY <1>1, <2>1, <2>3 DEF UnderKeys
<1>4. CASE GrantCooldown(t)
  <2>1. request[t].kind = "cooldown" /\ claims' = claims \cup {<<u, "cooldown", tx[t].clock>>}
    BY <1>4 DEF GrantCooldown, Claim, Commits
  <2>2. 1 \in 1 .. tx[t].at /\ Statements(t)[1] = "key"
    BY <1>1, <2>1, KeyStatements, StatementFacts
  <2>3. <<"cooldown", u>> \in tx[t].held
    BY <1>2, <2>2 DEF HoldsKeys
  <2> QED
    BY <1>1, <2>1, <2>3 DEF UnderKeys
<1> QED
  BY <1>3, <1>4

LEMMA ShopUnderKeys ==
    ASSUME IInv, KeysInv, ShelvesInv, NEW t \in Transactions,
           \/ PurchaseItem(t) \/ ConsumePetTreat(t) \/ ConsumeAquariumFood(t)
    PROVE  UnderKeys(t)
<1> DEFINE u == request[t].user
           i == request[t].about
<1>1. /\ Types /\ Open(t) /\ tx[t].at = Len(Statements(t)) /\ claims' = claims
      /\ request[t].kind \in {"purchase", "treat", "pinch"}
  BY DEF IInv, PurchaseItem, ConsumePetTreat, ConsumeAquariumFood, Commits, rewards
<1>2. /\ u \in Users /\ i \in Items /\ shelf \in [Users -> [Items -> Shelves]]
      /\ request[t].kind = "treat" => i = PetFood
      /\ request[t].kind = "pinch" => i = AquariumFood
  BY <1>1, RequestFacts DEF Requests, ShelvesInv
<1>3. <<"item", i>> \in tx[t].held
  <2>1. 1 \in 1 .. tx[t].at /\ Statements(t)[1] = "item"
    BY <1>1, KeyStatements, StatementFacts
  <2> QED
    BY <1>1, <2>1 DEF KeysInv, HoldsKeys
<1>4. ASSUME NEW v \in Users, NEW j \in Items, j # i
      PROVE  shelf'[v][j].have = shelf[v][j].have /\ shelf'[v][j].quantity = shelf[v][j].quantity
  <2>1. CASE PurchaseItem(t)
    <3> DEFINE bag == [shelf[u] EXCEPT ![i].have = TRUE, ![i].quantity = @ + 1]
    <3>1. shelf' = [shelf EXCEPT ![u] = IF i \in Slotted THEN Worn(bag, i) ELSE bag]
      BY <2>1 DEF PurchaseItem
    <3>2. bag[j] = shelf[u][j]
      BY <1>2, <1>4
    <3> HIDE DEF bag
    <3>3. Worn(bag, i)[j].have = bag[j].have /\ Worn(bag, i)[j].quantity = bag[j].quantity
      <4>1. Worn(bag, i)[j] = [bag[j] EXCEPT !.equipped = IF j \in Slotted THEN j = i ELSE @]
        BY DEF Worn
      <4>2. bag[j] \in Shelves
        BY <1>2, <3>2
      <4> QED
        BY <4>1, <4>2 DEF Shelves
    <3>4. shelf'[v] = IF v = u THEN (IF i \in Slotted THEN Worn(bag, i) ELSE bag) ELSE shelf[v]
      BY <1>2, <3>1
    <3> QED
      BY <3>2, <3>3, <3>4
  <2>2. CASE ConsumePetTreat(t) \/ ConsumeAquariumFood(t)
    <3>1. Consume(u, i)
      BY <1>2, <2>2 DEF ConsumePetTreat, ConsumeAquariumFood, Commits
    <3>2. shelf'[v][j] = shelf[v][j]
      BY <1>2, <1>4, <3>1 DEF Consume
    <3> QED
      BY <3>2
  <2> QED
    BY <2>1, <2>2
<1>5. \A p \in bought' \ bought : p[2] = i
  <2>1. CASE PurchaseItem(t)
    <3>1. bought' = bought \cup {<<u, i, tx[t].day>>}
      BY <2>1 DEF PurchaseItem
    <3> QED
      BY <3>1
  <2>2. CASE ConsumePetTreat(t) \/ ConsumeAquariumFood(t)
    BY <2>2 DEF ConsumePetTreat, ConsumeAquariumFood
  <2> QED
    BY <2>1, <2>2
<1> QED
  BY <1>1, <1>3, <1>4, <1>5 DEF UnderKeys

LEMMA WearUnderKeys ==
    ASSUME IInv, ShelvesInv, NEW t \in Transactions,
           \/ AdjustFish(t) \/ EquipItem(t) \/ UnequipSlot(t)
    PROVE  UnderKeys(t)
<1> DEFINE u == request[t].user
           i == request[t].about
<1>1. Types /\ u \in Users /\ claims' = claims /\ bought' = bought
      /\ shelf \in [Users -> [Items -> Shelves]]
  BY RequestFacts DEF IInv, Requests, ShelvesInv, AdjustFish, EquipItem, UnequipSlot, rewards
<1>2. ASSUME NEW v \in Users, NEW j \in Items
      PROVE  shelf'[v][j].have = shelf[v][j].have /\ shelf'[v][j].quantity = shelf[v][j].quantity
  <2>1. CASE AdjustFish(t)
    <3>1. i \in Items /\ shelf' = [shelf EXCEPT ![u][i].active = NextActive(request[t])]
      BY <1>1, <2>1, RequestFacts DEF AdjustFish, Commits
    <3>2. shelf'[v][j] = shelf[v][j]
            \/ shelf'[v][j] = [shelf[v][j] EXCEPT !.active = NextActive(request[t])]
      BY <1>1, <3>1
    <3>3. shelf[v][j] \in Shelves
      BY <1>1
    <3> QED
      BY <3>2, <3>3 DEF Shelves
  <2>2. CASE EquipItem(t) \/ UnequipSlot(t)
    <3>1. PICK k : shelf' = [shelf EXCEPT ![u] = Worn(@, k)]
      BY <2>2 DEF EquipItem, UnequipSlot
    <3>2. shelf'[v] = shelf[v] \/ shelf'[v] = Worn(shelf[v], k)
      BY <1>1, <3>1
    <3>3. Worn(shelf[v], k)[j]
            = [shelf[v][j] EXCEPT !.equipped = IF j \in Slotted THEN j = k ELSE @]
      BY DEF Worn
    <3>4. shelf[v][j] \in Shelves
      BY <1>1
    <3> QED
      BY <3>2, <3>3, <3>4 DEF Shelves
  <2> QED
    BY <2>1, <2>2
<1> QED
  BY <1>1, <1>2 DEF UnderKeys

AccountStep(t) ==
    TransferGift(t) \/ BuyDrink(t) \/ Deduct(t) \/ AddBonus(t) \/ RestoreFloor(t)
ClaimStep(t) == GrantDaily(t) \/ GrantCooldown(t)
ShopStep(t) ==
    \/ PurchaseItem(t) \/ AdjustFish(t) \/ ConsumePetTreat(t) \/ ConsumeAquariumFood(t)
    \/ EquipItem(t) \/ UnequipSlot(t)
EndStep(t) ==
    \/ Skip(t) \/ Refuse(t) \/ Fail(t)
    \/ AccountStep(t) \/ ClaimStep(t) \/ ShopStep(t) \/ ApplyProgressEvent(t)

LEMMA EndsTx ==
    ASSUME NEW t \in Transactions, EndStep(t)
    PROVE  tx' = [tx EXCEPT ![t] = Ended] /\ request' = request
  BY DEF EndStep, AccountStep, ClaimStep, ShopStep, Skip, Refuse, Fail, Commits,
         TransferGift, BuyDrink, Deduct, AddBonus, RestoreFloor, GrantDaily, GrantCooldown, Claim,
         PurchaseItem, AdjustFish, ConsumePetTreat, ConsumeAquariumFood, EquipItem, UnequipSlot,
         ApplyProgressEvent

LEMMA NextKeys ==
    ASSUME IInv, KeysInv, ShelvesInv, NEW t \in Transactions,
           Begin(t) \/ Execute(t) \/ EndStep(t)
    PROVE  KeysInv'
<1>1. CASE Begin(t) \/ Execute(t)
  BY <1>1, BeginKeys, ExecuteKeys
<1>2. CASE EndStep(t)
  <2>1. UnderKeys(t)
    <3>1. CASE \/ Skip(t) \/ Refuse(t) \/ Fail(t) \/ AccountStep(t) \/ ApplyProgressEvent(t)
      <4>1. claims' = claims /\ shelf' = shelf /\ bought' = bought
        BY <3>1 DEF AccountStep, Skip, Refuse, Fail, TransferGift, BuyDrink, Deduct, AddBonus,
                    RestoreFloor, ApplyProgressEvent, shop, rewards
      <4> QED
        BY <4>1 DEF UnderKeys
    <3>2. CASE ClaimStep(t) \/ ShopStep(t)
      BY <3>2, ClaimUnderKeys, ShopUnderKeys, WearUnderKeys DEF ClaimStep, ShopStep
    <3> QED
      BY <1>2, <3>1, <3>2 DEF EndStep
  <2> QED
    BY <1>2, <2>1, EndsTx, EndKeys
<1> QED
  BY <1>1, <1>2

LEMMA NextShelves ==
    ASSUME IInv, KeysInv, ShelvesInv, NEW t \in Transactions,
           Begin(t) \/ Execute(t) \/ EndStep(t)
    PROVE  ShelvesInv'
<1>1. CASE ShopStep(t)
  BY <1>1, PurchaseFits, FishFit, UseFits, WearFits DEF ShopStep
<1>2. CASE \/ Begin(t) \/ Execute(t) \/ Skip(t) \/ Refuse(t) \/ Fail(t)
           \/ AccountStep(t) \/ ClaimStep(t) \/ ApplyProgressEvent(t)
  <2>1. shelf' = shelf /\ treated' = treated
    BY <1>2 DEF AccountStep, ClaimStep, Begin, Execute, Skip, Refuse, Fail, TransferGift, BuyDrink,
                Deduct, AddBonus, RestoreFloor, GrantDaily, GrantCooldown, Claim,
                ApplyProgressEvent, shop
  <2> QED
    BY <2>1 DEF ShelvesInv, FitsAndIsWorn, Swimming
<1> QED
  BY <1>1, <1>2 DEF EndStep

-------------------------------------------------------------------------------
(* The rows that tell what was granted only grow; a streak goes back only  *)
(* for who completes a quest of an earlier day late.                       *)
Grows ==
    /\ late \subseteq late' /\ claims \subseteq claims' /\ bought \subseteq bought'
    /\ \A u \in Users : treated[u] <= treated'[u]
    /\ \A u \in Users, i \in Items : shelf[u][i].have => shelf'[u][i].have
    /\ \A u \in Users, a \in Assignments : progress[u][a].rewarded => progress'[u][a].rewarded
    /\ \A u \in Users : streak[u].last <= streak'[u].last \/ u \in late'

LEMMA BackedStays ==
    ASSUME Types, Types', ShelvesInv, ShelvesInv', Grows, NEW w, Backed(w)
    PROVE  Backed(w)'
<1>1. CASE w[1] = "treat" /\ w[2] \in Users /\ w[3] \in Nat /\ w[3] <= treated[w[2]]
  <2>1. treated[w[2]] \in Nat /\ treated'[w[2]] \in Nat
    BY <1>1 DEF ShelvesInv
  <2>2. w[3] <= treated'[w[2]]
    BY <1>1, <2>1 DEF Grows
  <2> QED
    BY <1>1, <2>2 DEF Backed
<1>2. CASE /\ w[1] = "streak" /\ w[2] \in Users /\ w[3] \in Nat
           /\ w[3] <= streak[w[2]].last \/ w[2] \in late
  <2>1. streak[w[2]].last \in Int /\ streak'[w[2]].last \in Int
    BY <1>2 DEF Types
  <2>2. w[3] <= streak'[w[2]].last \/ w[2] \in late'
    BY <1>2, <2>1 DEF Grows
  <2> QED
    BY <1>2, <2>2 DEF Backed
<1>3. CASE w[1] \notin {"treat", "streak"}
  BY <1>3 DEF Backed, Grows
<1> QED
  BY <1>1, <1>2, <1>3 DEF Backed

(* One transaction makes new grants of what is not backed yet.             *)
LEMMA GrantsStay ==
    ASSUME Types, Types', ShelvesInv, ShelvesInv', GrantsInv, Grows, NEW t, NEW W,
           grants' = grants \cup {<<w, t>> : w \in W},
           \A w \in W : Backed(w)' /\ (Backed(w) => w[1] = "streak" /\ w[2] \in late')
    PROVE  GrantsInv'
<1>1. \A g \in grants : Backed(g[1])'
  BY BackedStays DEF GrantsInv
<1>2. \A g \in grants' \ grants : \E w \in W : g = <<w, t>>
  OBVIOUS
<1>3. \A g \in grants' \ grants : g[1] \in W /\ g[2] = t
  BY <1>2
<1>4. \A g \in grants' : Backed(g[1])'
  BY <1>1, <1>3
<1>5. ASSUME NEW g \in grants', NEW h \in grants', g[1] = h[1]
      PROVE  g[2] = h[2] \/ (g[1][1] = "streak" /\ g[1][2] \in late')
  <2>1. CASE g \in grants /\ h \in grants
    BY <1>5, <2>1 DEF GrantsInv, Once, Grows
  <2>2. CASE g \notin grants /\ h \notin grants
    BY <1>3, <2>2
  <2>3. CASE g \in grants /\ h \notin grants
    BY <1>3, <1>5, <2>3 DEF GrantsInv
  <2>4. CASE g \notin grants /\ h \in grants
    BY <1>3, <1>5, <2>4 DEF GrantsInv
  <2> QED
    BY <2>1, <2>2, <2>3, <2>4
<1> QED
  BY <1>4, <1>5 DEF GrantsInv, Once

LEMMA NoGrants ==
    ASSUME Types, Types', ShelvesInv, ShelvesInv', GrantsInv, Grows, grants' = grants
    PROVE  GrantsInv'
  BY BackedStays DEF GrantsInv, Once, Grows

LEMMA QuietGrants ==
    ASSUME IInv, LimitsInv, IInv', ShelvesInv', UNCHANGED <<shop, rewards, grants, late>>
    PROVE  GrantsInv'
<1>1. /\ Types /\ Types' /\ ShelvesInv /\ GrantsInv /\ grants' = grants
      /\ \A v \in Users : treated[v] \in Nat /\ streak[v].last \in Int
  BY DEF IInv, LimitsInv, Types, ShelvesInv
<1>2. Grows
  BY <1>1 DEF Grows, shop, rewards
<1> QED
  BY <1>1, <1>2, NoGrants

LEMMA ClaimOnce ==
    ASSUME IInv, LimitsInv, IInv', ShelvesInv', NEW t \in Transactions, ClaimStep(t)
    PROVE  GrantsInv'
<1> DEFINE u == request[t].user
<1>1. /\ Types /\ Types' /\ ShelvesInv /\ GrantsInv /\ Open(t) /\ tx[t].at = Len(Statements(t))
      /\ bought' = bought /\ treated' = treated /\ shelf' = shelf
      /\ progress' = progress /\ streak' = streak /\ late' = late
  BY DEF IInv, LimitsInv, ClaimStep, GrantDaily, GrantCooldown, Claim, Commits, shop
<1>2. Checked(t)
  BY <1>1 DEF LimitsInv, KeysInv
<1>3. PICK kind \in {"daily", "cooldown"}, day \in Nat :
        /\ request[t].kind = kind /\ <<u, kind, day>> \notin claims
        /\ claims' = claims \cup {<<u, kind, day>>}
        /\ grants' = grants \cup {<<w, t>> : w \in {<<kind, u, day>>}}
  <2>0. tx[t].day \in Nat /\ tx[t].clock \in Nat
    BY <1>1 DEF Types, TxType
  <2>1. CASE GrantDaily(t)
    <3>1. /\ request[t].kind = "daily" /\ claims' = claims \cup {<<u, "daily", tx[t].day>>}
          /\ grants' = grants \cup {<<w, t>> : w \in {<<"daily", u, tx[t].day>>}}
      BY <2>1 DEF GrantDaily, Claim, Commits, Grants
    <3>2. <<u, "daily", tx[t].day>> \notin claims
      BY <1>1, <1>2, <3>1, StatementFacts DEF Checked
    <3> QED
      BY <2>0, <3>1, <3>2
  <2>2. CASE GrantCooldown(t)
    <3>1. /\ request[t].kind = "cooldown" /\ claims' = claims \cup {<<u, "cooldown", tx[t].clock>>}
          /\ grants' = grants \cup {<<w, t>> : w \in {<<"cooldown", u, tx[t].clock>>}}
      BY <2>2 DEF GrantCooldown, Claim, Commits, Grants
    <3>2. <<u, "cooldown", tx[t].clock>> \notin claims
      BY <1>1, <1>2, <3>1, StatementFacts DEF Checked
    <3> QED
      BY <2>0, <3>1, <3>2
  <2> QED
    BY <2>1, <2>2 DEF ClaimStep
<1>4. Grows
  <2>1. \A v \in Users : treated[v] \in Nat /\ streak[v].last \in Int
    BY <1>1 DEF Types, ShelvesInv
  <2> QED
    BY <1>1, <1>3, <2>1 DEF Grows
<1>5. ASSUME NEW w \in {<<kind, u, day>>}
      PROVE  Backed(w)' /\ ~Backed(w)
  <2>1. w[1] = kind /\ w[2] = u /\ w[3] = day
    OBVIOUS
  <2> QED
    BY <1>3, <2>1 DEF Backed
<1> DEFINE W == {<<kind, u, day>>}
<1>6. grants' = grants \cup {<<w, t>> : w \in W} /\ \A w \in W : Backed(w)' /\ ~Backed(w)
  BY <1>3, <1>5
<1> HIDE DEF W
<1> QED
  BY <1>1, <1>4, <1>6, GrantsStay

(* A purchase commits only what its two checks let pass.                   *)
LEMMA PurchaseChecked ==
    ASSUME Types, KeysInv, NEW t \in Transactions, Open(t), request[t].kind = "purchase",
           tx[t].at = Len(Statements(t)), ~Refused(t)
    PROVE  LET u == request[t].user  i == request[t].about IN
           (shelf[u][i].have => i \in Repeatable) /\ ~HasReachedDailyLimit(u, i, tx[t].day)
<1>1. tx[t].at \in {3, 4}
  BY StatementFacts
<1>2. CASE tx[t].at = 3
  <2>1. ~PurchaseRefused(t)
    BY <1>2 DEF Refused
  <2> QED
    BY <2>1 DEF PurchaseRefused
<1>3. CASE tx[t].at = 4
  <2>1. Checked(t) /\ tx[t].at >= 4
    BY <1>3 DEF KeysInv
  <2> QED
    BY <2>1 DEF Checked
<1> QED
  BY <1>1, <1>2, <1>3

(* An item that is had for good, or for the day, was not had before.       *)
LEMMA PurchaseOnce ==
    ASSUME IInv, LimitsInv, IInv', ShelvesInv', NEW t \in Transactions, PurchaseItem(t)
    PROVE  GrantsInv'
<1> DEFINE u == request[t].user
           i == request[t].about
           day == tx[t].day
           W == {<<"unlocked", u, j>> : j \in {i} \ Repeatable}
                  \cup {<<"limited", u, j, day>> : j \in {i} \cap Limited}
           bag == [shelf[u] EXCEPT ![i].have = TRUE, ![i].quantity = @ + 1]
<1>1. /\ Types /\ Types' /\ ShelvesInv /\ GrantsInv /\ Open(t) /\ tx[t].at = Len(Statements(t))
      /\ request[t].kind = "purchase" /\ ~Refused(t)
      /\ claims' = claims /\ bought' = bought \cup {<<u, i, day>>} /\ treated' = treated
      /\ progress' = progress /\ streak' = streak /\ late' = late
      /\ shelf' = [shelf EXCEPT ![u] = IF i \in Slotted THEN Worn(bag, i) ELSE bag]
      /\ grants' = grants \cup {<<w, t>> : w \in W}
  BY DEF IInv, LimitsInv, PurchaseItem, Commits, Grants, rewards
<1>2. u \in Users /\ i \in Items /\ day \in Nat
  BY <1>1, RequestFacts DEF Requests, Types, TxType
<1>3. (shelf[u][i].have => i \in Repeatable) /\ ~HasReachedDailyLimit(u, i, day)
  BY <1>1, PurchaseChecked DEF LimitsInv
<1>4. \A v \in Users, j \in Items : (shelf[v][j].have => shelf'[v][j].have) /\ shelf'[u][i].have
  <2>1. shelf[u] \in [Items -> Shelves] /\ shelf \in [Users -> [Items -> Shelves]]
    BY <1>1, <1>2 DEF ShelvesInv
  <2>2. \A j \in Items : (shelf[u][j].have => bag[j].have) /\ bag[i].have
    BY <1>2, <2>1 DEF Shelves
  <2>3. \A j \in Items : bag[j] \in Shelves
    <3>1. shelf[u][i].quantity + 1 \in Nat
      BY <1>2, <2>1 DEF Shelves
    <3> QED
      BY <1>2, <2>1, <3>1 DEF Shelves
  <2> HIDE DEF bag
  <2>4. \A j \in Items : Worn(bag, i)[j].have = bag[j].have
    <3>1. \A j \in Items :
            Worn(bag, i)[j] = [bag[j] EXCEPT !.equipped = IF j \in Slotted THEN j = i ELSE @]
      BY DEF Worn
    <3> QED
      BY <2>3, <3>1 DEF Shelves
  <2>5. \A v \in Users : shelf'[v] =
          IF v = u THEN (IF i \in Slotted THEN Worn(bag, i) ELSE bag) ELSE shelf[v]
    BY <1>1, <1>2, <2>1
  <2> QED
    BY <1>2, <2>2, <2>4, <2>5
<1>5. Grows
  <2>1. \A v \in Users : treated[v] \in Nat /\ streak[v].last \in Int
    BY <1>1 DEF Types, ShelvesInv
  <2>2. /\ claims' = claims /\ bought \subseteq bought' /\ treated' = treated
        /\ progress' = progress /\ streak' = streak /\ late' = late
    BY <1>1
  <2>3. \A v \in Users, j \in Items : shelf[v][j].have => shelf'[v][j].have
    BY <1>4
  <2> QED
    BY <2>1, <2>2, <2>3 DEF Grows
<1>6. ASSUME NEW w \in W
      PROVE  Backed(w)' /\ ~Backed(w)
  <2>1. CASE w = <<"unlocked", u, i>> /\ i \notin Repeatable
    <3>1. w[1] = "unlocked" /\ w[2] = u /\ w[3] = i
      BY <2>1
    <3>2. ~shelf[u][i].have /\ shelf'[u][i].have
      BY <1>2, <1>3, <1>4, <2>1
    <3> QED
      BY <1>2, <2>1, <3>1, <3>2 DEF Backed
  <2>2. CASE w = <<"limited", u, i, day>> /\ i \in Limited
    <3>1. <<u, i, day>> \notin bought
      <4>1. <<u, i, day>>[1] = u /\ <<u, i, day>>[2] = i /\ <<u, i, day>>[3] >= day
        BY <1>2
      <4> QED
        BY <1>3, <2>2, <4>1 DEF HasReachedDailyLimit
    <3>2. w[1] = "limited" /\ w[2] = u /\ w[3] = i /\ w[4] = day
      BY <2>2
    <3> QED
      BY <1>1, <2>2, <3>1, <3>2 DEF Backed
  <2> QED
    BY <2>1, <2>2
<1> HIDE DEF W
<1> QED
  BY <1>1, <1>5, <1>6, GrantsStay

LEMMA HaveStays ==
    ASSUME IInv, ShelvesInv, NEW t \in Transactions,
           \/ AdjustFish(t) \/ ConsumePetTreat(t) \/ ConsumeAquariumFood(t)
           \/ EquipItem(t) \/ UnequipSlot(t)
    PROVE  \A v \in Users, j \in Items : shelf'[v][j].have = shelf[v][j].have
<1> DEFINE u == request[t].user
           i == request[t].about
<1>1. /\ Types /\ u \in Users /\ shelf \in [Users -> [Items -> Shelves]]
      /\ \A v \in Users, j \in Items : shelf[v][j] \in Shelves
  BY RequestFacts DEF IInv, Requests, ShelvesInv
<1>2. CASE AdjustFish(t)
  <2>1. i \in Items /\ shelf' = [shelf EXCEPT ![u][i].active = NextActive(request[t])]
    BY <1>1, <1>2, RequestFacts DEF AdjustFish, Commits
  <2> QED
    BY <1>1, <2>1 DEF Shelves
<1>3. CASE ConsumePetTreat(t) \/ ConsumeAquariumFood(t)
  <2>1. PICK k \in Items : Consume(u, k)
    BY <1>3, EconomyAssumption DEF ConsumePetTreat, ConsumeAquariumFood
  <2> DEFINE left == shelf[u][k].quantity - 1
             swim == Min({shelf[u][k].active, left})
             old == shelf[u][k]
             new == [old EXCEPT !.quantity = left, !.active = swim]
  <2>2. shelf' = [shelf EXCEPT ![u][k] = new]
    BY <1>1, <2>1 DEF Consume, Shelves
  <2>3. new.have = old.have
    <3>1. old \in Shelves
      BY <1>1
    <3> HIDE DEF left, swim, old
    <3> QED
      BY <3>1 DEF Shelves
  <2> HIDE DEF new
  <2> QED
    BY <1>1, <2>2, <2>3
<1>4. CASE EquipItem(t) \/ UnequipSlot(t)
  <2>1. PICK k : shelf' = [shelf EXCEPT ![u] = Worn(@, k)]
    BY <1>4 DEF EquipItem, UnequipSlot
  <2>2. \A v \in Users : shelf'[v] = shelf[v] \/ shelf'[v] = Worn(shelf[v], k)
    BY <1>1, <2>1
  <2>3. \A v \in Users, j \in Items :
          Worn(shelf[v], k)[j]
            = [shelf[v][j] EXCEPT !.equipped = IF j \in Slotted THEN j = k ELSE @]
    BY DEF Worn
  <2>4. ASSUME NEW v \in Users, NEW j \in Items
        PROVE  Worn(shelf[v], k)[j].have = shelf[v][j].have
    <3> DEFINE old == shelf[v][j]
               e == IF j \in Slotted THEN j = k ELSE old.equipped
    <3>1. old \in Shelves /\ Worn(shelf[v], k)[j] = [old EXCEPT !.equipped = e]
      BY <1>1, <2>3
    <3> HIDE DEF old, e
    <3>2. Worn(shelf[v], k)[j].have = old.have
      BY <3>1 DEF Shelves
    <3> QED
      BY <3>2 DEF old
  <2> QED
    BY <2>2, <2>4
<1> QED
  BY <1>2, <1>3, <1>4

(* A pet is treated once a day.                                            *)
LEMMA ShopOnce ==
    ASSUME IInv, LimitsInv, IInv', ShelvesInv', NEW t \in Transactions,
           \/ AdjustFish(t) \/ ConsumePetTreat(t) \/ ConsumeAquariumFood(t)
           \/ EquipItem(t) \/ UnequipSlot(t)
    PROVE  GrantsInv'
<1> DEFINE u == request[t].user
           day == tx[t].day
           W == {<<"treat", u, day>>}
<1>1. /\ Types /\ Types' /\ ShelvesInv /\ GrantsInv /\ bought' = bought /\ claims' = claims
      /\ progress' = progress /\ streak' = streak /\ late' = late
      /\ \A v \in Users : treated[v] \in Nat /\ streak[v].last \in Int
  BY DEF IInv, LimitsInv, AdjustFish, ConsumePetTreat, ConsumeAquariumFood, EquipItem,
         UnequipSlot, rewards, Types, ShelvesInv
<1>2. \A v \in Users, j \in Items : shelf'[v][j].have = shelf[v][j].have
  BY <1>1, HaveStays
<1>3. CASE ConsumePetTreat(t)
  <2>1. /\ Open(t) /\ request[t].kind = "treat" /\ ~Refused(t) /\ tx[t].at = 3
        /\ treated' = [treated EXCEPT ![u] = day]
        /\ grants' = grants \cup {<<w, t>> : w \in W}
    BY <1>1, <1>3, KeyStatements DEF ConsumePetTreat, Commits, Grants
  <2>2. u \in Users /\ day \in Nat /\ treated \in [Users -> Nat]
    BY <1>1, RequestFacts DEF Requests, Types, TxType, ShelvesInv
  <2>3. treated[u] < day
    BY <1>1, <2>1, <2>2 DEF Refused
  <2>4. \A v \in Users : treated[v] <= treated'[v]
    BY <1>1, <2>1, <2>2, <2>3
  <2>5. Grows
    BY <1>1, <1>2, <2>4 DEF Grows
  <2>6. ASSUME NEW w \in W
        PROVE  Backed(w)' /\ ~Backed(w)
    <3>1. w[1] = "treat" /\ w[2] = u /\ w[3] = day
      OBVIOUS
    <3>2. treated'[u] = day /\ ~(day <= treated[u])
      BY <1>1, <2>1, <2>2, <2>3
    <3> QED
      BY <2>2, <3>1, <3>2 DEF Backed
  <2> HIDE DEF W
  <2> QED
    BY <1>1, <2>1, <2>5, <2>6, GrantsStay
<1>4. CASE AdjustFish(t) \/ ConsumeAquariumFood(t) \/ EquipItem(t) \/ UnequipSlot(t)
  <2>1. grants' = grants /\ treated' = treated
    BY <1>4 DEF AdjustFish, ConsumeAquariumFood, EquipItem, UnequipSlot
  <2>2. Grows
    BY <1>1, <1>2, <2>1 DEF Grows
  <2> QED
    BY <1>1, <2>1, <2>2, NoGrants
<1> QED
  BY <1>3, <1>4

(* A quest is rewarded once, and a day's streak once, unless a quest of an *)
(* earlier day came late.                                                  *)
LEMMA QuestOnce ==
    ASSUME IInv, LimitsInv, IInv', ShelvesInv', NEW t \in Transactions, ApplyProgressEvent(t)
    PROVE  GrantsInv'
<1> DEFINE r == request[t]
           u == r.user
           a == r.about
           day == DayOf[a]
           advances == /\ Completes(r) /\ ~progress[u][a].completed /\ a \in Daily
           bonus == IF advances THEN StreakBonus(u, day) ELSE 0
           pays == QuestPays(r)
           next == NextDailyStreak(u, day)
           W == {<<"quest", u, a>> : x \in {y \in {r} : QuestPays(y)}}
                  \cup {<<"streak", u, day>> : x \in {bonus} \ {0}}
<1>1. /\ Types /\ Types' /\ ShelvesInv /\ GrantsInv /\ r.kind = "quest"
      /\ claims' = claims /\ shelf' = shelf /\ bought' = bought /\ treated' = treated
      /\ progress' = [progress EXCEPT ![u][a] =
            [count |-> NewProgress(r), completed |-> Completes(r),
             rewarded |-> @.rewarded \/ pays]]
      /\ streak' = IF advances THEN [streak EXCEPT ![u] = next] ELSE streak
      /\ late' = IF advances /\ day < streak[u].last THEN late \cup {u} ELSE late
      /\ grants' = grants \cup {<<w, t>> : w \in W}
  BY DEF IInv, LimitsInv, ApplyProgressEvent, Commits, Grants, shop
<1>2. u \in Users /\ a \in Assignments /\ day \in Nat
  BY <1>1, RequestFacts, EconomyAssumption DEF Requests
<1>3. /\ streak \in [Users -> [last : Int, run : Nat]]
      /\ progress \in [Users -> [Assignments -> ProgressType]]
      /\ \A v \in Users : treated[v] \in Nat /\ streak[v].last \in Int
  BY <1>1 DEF Types, ShelvesInv
<1>4. next.last = day
  BY DEF NextDailyStreak
<1>5. bonus # 0 => advances /\ streak[u].last # day
  BY DEF StreakBonus
<1>6. pays => ~progress[u][a].rewarded
  BY DEF QuestPays
<1>7. /\ (pays => progress'[u][a].rewarded)
      /\ \A v \in Users, b \in Assignments : progress[v][b].rewarded => progress'[v][b].rewarded
  <2> DEFINE new == [count |-> NewProgress(r), completed |-> Completes(r),
                     rewarded |-> progress[u][a].rewarded \/ pays]
  <2>1. progress' = [progress EXCEPT ![u][a] = new]
    BY <1>1
  <2>2. (pays => new.rewarded) /\ (progress[u][a].rewarded => new.rewarded)
    OBVIOUS
  <2> HIDE DEF new, pays
  <2>3. \A v \in Users, b \in Assignments :
          progress'[v][b] = IF v = u /\ b = a THEN new ELSE progress[v][b]
    BY <1>2, <1>3, <2>1
  <2> QED
    BY <1>2, <2>2, <2>3
<1> HIDE DEF pays, bonus, advances, next
<1>8. /\ late \subseteq late' /\ \A v \in Users : v # u => streak'[v] = streak[v]
      /\ advances => streak'[u].last = day
      /\ ~advances => streak'[u] = streak[u]
      /\ advances /\ day < streak[u].last => u \in late'
  BY <1>1, <1>2, <1>3, <1>4
<1>9. \A v \in Users : streak[v].last <= streak'[v].last \/ v \in late'
  <2>1. streak[u].last \in Int
    BY <1>2, <1>3
  <2>2. streak[u].last <= streak'[u].last \/ u \in late'
    BY <1>2, <1>8, <2>1
  <2>3. \A v \in Users : v # u => streak[v].last <= streak'[v].last
    BY <1>3, <1>8
  <2> QED
    BY <2>2, <2>3
<1>10. Grows
  <2>1. claims' = claims /\ shelf' = shelf /\ bought' = bought /\ treated' = treated
    BY <1>1
  <2> QED
    BY <1>3, <1>7, <1>8, <1>9, <2>1 DEF Grows
<1>11. \A w \in W : (w = <<"quest", u, a>> /\ pays) \/ (w = <<"streak", u, day>> /\ bonus # 0)
  BY DEF pays
<1> HIDE DEF W
<1>12. ASSUME NEW w \in W
       PROVE  Backed(w)' /\ (Backed(w) => w[1] = "streak" /\ w[2] \in late')
  <2>1. CASE w = <<"quest", u, a>> /\ pays
    <3>1. w[1] = "quest" /\ w[2] = u /\ w[3] = a
      BY <2>1
    <3>2. ~progress[u][a].rewarded /\ progress'[u][a].rewarded
      BY <1>6, <1>7, <2>1
    <3> QED
      BY <1>2, <3>1, <3>2 DEF Backed
  <2>2. CASE w = <<"streak", u, day>> /\ bonus # 0
    <3>1. w[1] = "streak" /\ w[2] = u /\ w[3] = day
      BY <2>2
    <3>2. advances /\ streak[u].last # day /\ streak'[u].last = day
      BY <1>5, <1>8, <2>2
    <3>3. Backed(w)'
      BY <1>2, <3>1, <3>2 DEF Backed
    <3>4. Backed(w) => day <= streak[u].last \/ u \in late
      BY <3>1 DEF Backed
    <3>5. Backed(w) => u \in late'
      <4>1. day \in Int /\ streak[u].last \in Int
        BY <1>2, <1>3
      <4>2. day <= streak[u].last => day < streak[u].last
        BY <3>2, <4>1
      <4> QED
        BY <1>8, <3>2, <3>4, <4>2
    <3> QED
      BY <3>1, <3>3, <3>5
  <2> QED
    BY <1>11, <2>1, <2>2
<1> QED
  BY <1>1, <1>10, <1>12, GrantsStay

LEMMA NextGrants ==
    ASSUME IInv, LimitsInv, IInv', ShelvesInv', NEW t \in Transactions,
           Begin(t) \/ Execute(t) \/ EndStep(t)
    PROVE  GrantsInv'
<1>1. CASE ClaimStep(t) \/ PurchaseItem(t) \/ ApplyProgressEvent(t)
  BY <1>1, ClaimOnce, PurchaseOnce, QuestOnce DEF ClaimStep
<1>2. CASE \/ AdjustFish(t) \/ ConsumePetTreat(t) \/ ConsumeAquariumFood(t)
           \/ EquipItem(t) \/ UnequipSlot(t)
  BY <1>2, ShopOnce
<1>3. CASE \/ Begin(t) \/ Execute(t) \/ Skip(t) \/ Refuse(t) \/ Fail(t) \/ AccountStep(t)
  <2>1. UNCHANGED <<shop, rewards, grants, late>>
    BY <1>3 DEF AccountStep, Begin, Execute, Skip, Refuse, Fail, TransferGift, BuyDrink, Deduct,
                AddBonus, RestoreFloor
  <2> QED
    BY <2>1, QuietGrants
<1> QED
  BY <1>1, <1>2, <1>3 DEF EndStep, ShopStep

LEMMA InitLimits == Init => IInv /\ LimitsInv
<1> SUFFICES ASSUME Init PROVE IInv /\ LimitsInv
  OBVIOUS
<1>1. IInv
  BY InitIInv
<1>2. KeysInv
  <2>1. \A t \in Transactions : ~Open(t)
    BY DEF Init, Open, Transactions, Free
  <2> QED
    BY <2>1 DEF KeysInv
<1>3. ShelvesInv
  BY EconomyAssumption DEF Init, ShelvesInv
<1>4. GrantsInv
  BY DEF Init, GrantsInv, Once
<1> QED
  BY <1>1, <1>2, <1>3, <1>4 DEF LimitsInv

LEMMA NextLimits == IInv /\ LimitsInv /\ [Next]_vars => IInv' /\ LimitsInv'
<1> SUFFICES ASSUME IInv, LimitsInv, [Next]_vars PROVE IInv' /\ LimitsInv'
  OBVIOUS
<1>1. IInv'
  BY NextSafe
<1>2. KeysInv /\ ShelvesInv /\ GrantsInv
  BY DEF LimitsInv
<1>3. CASE NextDay \/ UNCHANGED vars
  <2>1. UNCHANGED <<request, tx, shop, rewards, grants, late>>
    BY <1>3 DEF NextDay, vars
  <2>2. KeysInv'
    <3>1. Transactions' = Transactions /\ \A t \in Transactions : Statements(t)' = Statements(t)
      BY <2>1 DEF Transactions, Statements, PurchaseStatements
    <3>2. ASSUME NEW t \in Transactions, Open(t)
          PROVE  HoldsKeys(t)' /\ Checked(t)'
      <4>1. HoldsKeys(t) /\ Checked(t) /\ Statements(t)' = Statements(t)
        BY <1>2, <3>1, <3>2 DEF KeysInv
      <4>2. HoldsKeys(t)'
        BY <2>1, <4>1 DEF HoldsKeys
      <4>3. Checked(t)'
        BY <2>1, <4>1 DEF Checked, HasReachedDailyLimit, shop, rewards
      <4> QED
        BY <4>2, <4>3
    <3> QED
      BY <2>1, <3>1, <3>2 DEF KeysInv, Open
  <2>3. ShelvesInv'
    BY <1>2, <2>1 DEF ShelvesInv, FitsAndIsWorn, Swimming, shop
  <2> QED
    BY <1>1, <1>2, <2>1, <2>2, <2>3, QuietGrants DEF LimitsInv
<1>4. CASE \E t \in Transactions : Begin(t) \/ Execute(t) \/ EndStep(t)
  <2>1. PICK t \in Transactions : Begin(t) \/ Execute(t) \/ EndStep(t)
    BY <1>4
  <2>2. KeysInv' /\ ShelvesInv'
    BY <1>2, <2>1, NextKeys, NextShelves
  <2>3. GrantsInv'
    BY <1>1, <2>1, <2>2, NextGrants
  <2> QED
    BY <1>1, <2>2, <2>3 DEF LimitsInv
<1> QED
  BY <1>3, <1>4 DEF Next, EndStep, AccountStep, ClaimStep, ShopStep

(* What is to be had once is had once, and what is on a shelf fits, for    *)
(* any number of users, items and concurrent transactions: what the code   *)
(* gets from the unique claims of a day, the advisory key of a cooldown,   *)
(* the lock on the item before the limits of a purchase are checked, and   *)
(* the guards of the updates of a pet, a quest and a streak.               *)
THEOREM LimitsKept == Spec => []LimitsHold
<1>1. LimitsInv => LimitsHold
  BY DEF LimitsInv, ShelvesInv, GrantsInv, Once, LimitsHold
<1>2. Init => IInv /\ LimitsInv
  BY InitLimits
<1>3. IInv /\ LimitsInv /\ [Next]_vars => IInv' /\ LimitsInv'
  BY NextLimits
<1> QED
  BY <1>1, <1>2, <1>3, PTL DEF Spec

-------------------------------------------------------------------------------
(***************************************************************************)
(* Deadlocks.  The rows have an order, and the statements of a transaction *)
(* lock them in that order.  Along a circle of waits it can therefore not  *)
(* rise: all wait at the same height, and each holds a row of that height. *)
(* Only two statements come after another of their height: that of a       *)
(* gift's recipient, and that of the rest of a slot.                       *)
(***************************************************************************)
Level(name) ==
    CASE name \in {"item", "claim", "key", "recent", "quests"} -> 1
      [] name = "progress" -> 2
      [] name \in {"chips", "other"} -> 3
      [] name \in {"owned", "slot", "worn", "tab", "streak"} -> 4
      [] name = "pet" -> 5

RowLevel(row) ==
    CASE row[1] \in {"item", "daily", "cooldown", "quests"} -> 1
      [] row[1] = "progress" -> 2
      [] row[1] = "chips" -> 3
      [] row[1] \in {"owned", "tab", "streak"} -> 4
      [] row[1] = "pet" -> 5

(* What is held was locked by a statement so far, and of the statements    *)
(* that are not done only that of a slot has locked some of its rows.      *)
InOrder(t, row) ==
    /\ \E k \in 1 .. Len(Statements(t)) :
        /\ RowLevel(row) = Level(Statements(t)[k])
        /\ k <= tx[t].at \/ (k = tx[t].at + 1 /\ Statements(t)[k] = "slot")
    /\ row[1] = "owned" => row[2] = request[t].user

Ordered == \A t \in Transactions : \A row \in tx[t].held : InOrder(t, row)

LEMMA LevelTyped == \A name \in StatementNames : Level(name) \in 1 .. 5
  BY DEF Level, StatementNames

(* A statement's rows have its level, and those of a purchase its user.    *)
LEMMA RowsLevel ==
    ASSUME NEW t, NEW name \in StatementNames, NEW row \in Rows(t, name)
    PROVE  /\ RowLevel(row) = Level(name)
           /\ row[1] = "owned" => row[2] = request[t].user
           /\ name # "recent"
           /\ name = "slot" => row[1] = "owned"
<1>1. CASE name \in {"owned", "slot", "worn"}
  <2>1. \E i : row = <<"owned", request[t].user, i>>
    BY <1>1 DEF Rows, OwnedRows
  <2>2. row[1] = "owned" /\ row[2] = request[t].user
    BY <2>1
  <2> QED
    BY <1>1, <2>2 DEF RowLevel, Level
<1>2. CASE name \in {"chips", "other"}
  <2>1. row[1] = "chips"
    BY <1>2 DEF Rows, ChipRow
  <2> QED
    BY <1>2, <2>1 DEF RowLevel, Level
<1>3. CASE name \in {"item", "claim", "key", "quests"}
  <2>1. row[1] \in {"item", "daily", "cooldown", "quests"}
    BY <1>3 DEF Rows, CooldownKey
  <2> QED
    BY <1>3, <2>1 DEF RowLevel, Level
<1>4. CASE name \in {"progress", "pet"}
  <2>1. row[1] = name
    BY <1>4 DEF Rows
  <2> QED
    BY <1>4, <2>1 DEF RowLevel, Level
<1>5. CASE name \in {"tab", "streak"}
  <2>1. row[1] = name
    BY <1>5 DEF Rows
  <2> QED
    BY <1>5, <2>1 DEF RowLevel, Level
<1>6. CASE name = "recent"
  BY <1>6 DEF Rows
<1> QED
  BY <1>1, <1>2, <1>3, <1>4, <1>5, <1>6 DEF StatementNames

(* Only the statement of a slot locks more than one row: nobody wears two  *)
(* items of it.                                                            *)
LEMMA OneRow ==
    ASSUME Types, ShelvesInv, NEW t \in Transactions, NEW name \in StatementNames, name # "slot",
           NEW a \in Rows(t, name), NEW b \in Rows(t, name)
    PROVE  a = b
<1>1. CASE name = "worn"
  <2> DEFINE u == request[t].user
  <2>1. PICK i \in Slotted : shelf[u][i].equipped /\ a = <<"owned", u, i>>
    BY <1>1 DEF Rows, OwnedRows
  <2>2. PICK j \in Slotted : shelf[u][j].equipped /\ b = <<"owned", u, j>>
    BY <1>1 DEF Rows, OwnedRows
  <2>3. u \in Users
    BY RequestFacts DEF Requests
  <2>4. i = j
    BY <2>1, <2>2, <2>3 DEF ShelvesInv, FitsAndIsWorn
  <2> QED
    BY <2>1, <2>2, <2>4
<1>2. CASE name = "owned"
  <2>1. a = <<"owned", request[t].user, request[t].about>>
    BY <1>2 DEF Rows, OwnedRows
  <2>2. b = <<"owned", request[t].user, request[t].about>>
    BY <1>2 DEF Rows, OwnedRows
  <2> QED
    BY <2>1, <2>2
<1>3. CASE name \in {"chips", "other", "claim", "key", "recent", "item"}
  BY <1>3 DEF Rows, ChipRow, CooldownKey
<1>4. CASE name \in {"progress", "streak", "tab", "pet", "quests"}
  BY <1>4 DEF Rows
<1> QED
  BY <1>1, <1>2, <1>3, <1>4 DEF StatementNames

(* The statements of a transaction never go down, and stay at a height     *)
(* only for the recipient of a gift, the check of a cooldown and the rest  *)
(* of a slot.                                                              *)
LEMMA StatementsRise ==
    ASSUME Types, NEW t \in Transactions,
           NEW j \in 1 .. Len(Statements(t)), NEW k \in 1 .. Len(Statements(t)), j < k
    PROVE  /\ Level(Statements(t)[j]) <= Level(Statements(t)[k])
           /\ Level(Statements(t)[j]) = Level(Statements(t)[k]) =>
                \/ Statements(t)[k] = "other" /\ request[t].kind = "gift"
                \/ Statements(t)[k] \in {"recent", "slot"}
<1>1. request[t].kind \in Kinds
  BY RequestFacts DEF Requests
<1>2. CASE request[t].kind = "purchase" /\ request[t].about \in Slotted
  <2>1. Statements(t) = <<"item", "chips", "owned", "slot">>
    BY <1>2 DEF Statements, PurchaseStatements
  <2> QED
    BY <1>2, <2>1 DEF Level
<1>3. CASE request[t].kind = "purchase" /\ request[t].about \notin Slotted
  <2>1. Statements(t) = <<"item", "chips", "owned">>
    BY <1>3 DEF Statements, PurchaseStatements
  <2> QED
    BY <1>3, <2>1 DEF Level
<1>4. CASE request[t].kind = "gift"
  <2>1. Statements(t) = <<"chips", "other">>
    BY <1>4 DEF Statements
  <2> QED
    BY <1>4, <2>1 DEF Level
<1>5. CASE request[t].kind \in {"drink", "fish"}
  <2>1. Statements(t) \in {<<"chips", "tab">>, <<"chips", "owned">>}
    BY <1>5 DEF Statements
  <2> QED
    BY <1>5, <2>1 DEF Level
<1>6. CASE request[t].kind \in {"debit", "credit", "restore", "unequip"}
  <2>1. Len(Statements(t)) = 1
    BY <1>6 DEF Statements
  <2> QED
    BY <2>1
<1>7. CASE request[t].kind = "daily"
  <2>1. Statements(t) = <<"claim", "chips">>
    BY <1>7 DEF Statements
  <2> QED
    BY <1>7, <2>1 DEF Level
<1>8. CASE request[t].kind = "cooldown"
  <2>1. Statements(t) = <<"key", "recent", "chips">>
    BY <1>8 DEF Statements
  <2> QED
    BY <1>8, <2>1 DEF Level
<1>9. CASE request[t].kind = "quest"
  <2>1. Statements(t) = <<"quests", "progress", "chips", "streak">>
    BY <1>9 DEF Statements
  <2> QED
    BY <1>9, <2>1 DEF Level
<1>10. CASE request[t].kind = "treat"
  <2>1. Statements(t) = <<"item", "owned", "pet">>
    BY <1>10 DEF Statements
  <2> QED
    BY <1>10, <2>1 DEF Level
<1>11. CASE request[t].kind = "pinch"
  <2>1. Statements(t) = <<"item", "owned">>
    BY <1>11 DEF Statements
  <2> QED
    BY <1>11, <2>1 DEF Level
<1>12. CASE request[t].kind = "equip"
  <2>1. Statements(t) = <<"owned", "slot">>
    BY <1>12 DEF Statements
  <2> QED
    BY <1>12, <2>1 DEF Level
<1> QED
  BY <1>1, <1>2, <1>3, <1>4, <1>5, <1>6, <1>7, <1>8, <1>9, <1>10, <1>11, <1>12 DEF Kinds

LEMMA ExecuteOrdered ==
    ASSUME IInv, ShelvesInv, Ordered, NEW t \in Transactions, Execute(t)
    PROVE  Ordered'
<1> DEFINE r == request[t]
           name == Statements(t)[tx[t].at + 1]
<1>0. PICK taken \in IF Missing(t) = {} THEN {{}} ELSE {{row} : row \in Missing(t)} :
        /\ \A row \in taken : Available(row)
        /\ tx' = [tx EXCEPT ![t].held = @ \cup taken,
                            ![t].at = IF Missing(t) = taken THEN @ + 1 ELSE @,
                            ![t].clock = IF Runs(t, "recent") THEN today ELSE @,
                            ![t].balance = IF Runs(t, "chips") THEN balance[r.user] ELSE @]
  BY DEF Execute
<1>1. /\ Types /\ Open(t) /\ tx[t].at < Len(Statements(t))
      /\ request' = request /\ Transactions' = Transactions
  BY DEF Execute, IInv, Transactions
<1>2. tx[t].at \in Nat /\ tx \in [Transactions -> TxType] /\ tx[t] \in TxType
  BY <1>1 DEF Types, TxType
<1>3. /\ tx'[t].held = tx[t].held \cup taken
      /\ tx'[t].at = IF Missing(t) = taken THEN tx[t].at + 1 ELSE tx[t].at
      /\ \A s \in Transactions : s # t => tx'[s] = tx[s]
  BY <1>0, <1>2 DEF TxType
<1>4. \A s \in Transactions : Statements(s)' = Statements(s)
  BY <1>1 DEF Statements, PurchaseStatements
<1>5. ASSUME NEW s \in Transactions, s # t, NEW row \in tx'[s].held
      PROVE  InOrder(s, row)'
  <2>1. InOrder(s, row) /\ tx'[s] = tx[s] /\ Statements(s)' = Statements(s)
    BY <1>3, <1>4, <1>5 DEF Ordered
  <2> QED
    BY <1>1, <2>1 DEF InOrder
<1>6. tx[t].at + 1 \in 1 .. Len(Statements(t)) /\ name \in StatementNames
  BY <1>1, <1>2, StatementFacts
<1>7. taken \subseteq Missing(t) /\ Missing(t) \subseteq Rows(t, name)
  BY <1>0 DEF Missing
<1>8. name = "slot" \/ Missing(t) = taken
  <2>1. SUFFICES ASSUME name # "slot", Missing(t) # {} PROVE Missing(t) = taken
    BY <1>0
  <2>2. PICK row \in Missing(t) : taken = {row}
    BY <1>0, <2>1
  <2>3. \A other \in Missing(t) : other = row
    BY <1>1, <1>6, <1>7, <2>1, OneRow DEF IInv
  <2> QED
    BY <2>2, <2>3
<1>9. ASSUME NEW row \in tx'[t].held
      PROVE  InOrder(t, row)'
  <2>1. CASE row \in tx[t].held
    <3>1. InOrder(t, row)
      BY <2>1 DEF Ordered
    <3>2. PICK k \in 1 .. Len(Statements(t)) :
            /\ RowLevel(row) = Level(Statements(t)[k])
            /\ k <= tx[t].at \/ (k = tx[t].at + 1 /\ Statements(t)[k] = "slot")
      BY <3>1 DEF InOrder
    <3>3. k <= tx'[t].at \/ (k = tx'[t].at + 1 /\ Statements(t)[k] = "slot")
      BY <1>2, <1>3, <3>2
    <3> QED
      BY <1>1, <1>4, <3>1, <3>2, <3>3 DEF InOrder
  <2>2. CASE row \in taken
    <3>1. RowLevel(row) = Level(name) /\ (row[1] = "owned" => row[2] = r.user)
      BY <1>6, <1>7, <2>2, RowsLevel
    <3>2. \/ tx[t].at + 1 <= tx'[t].at
          \/ tx[t].at + 1 = tx'[t].at + 1 /\ Statements(t)[tx[t].at + 1] = "slot"
      BY <1>2, <1>3, <1>8
    <3> QED
      BY <1>1, <1>4, <1>6, <3>1, <3>2 DEF InOrder
  <2> QED
    BY <1>3, <1>9, <2>1, <2>2
<1> QED
  BY <1>1, <1>5, <1>9 DEF Ordered

LEMMA NextOrdered == IInv /\ LimitsInv /\ Ordered /\ [Next]_vars => Ordered'
<1> SUFFICES ASSUME IInv, LimitsInv, Ordered, [Next]_vars PROVE Ordered'
  OBVIOUS
<1>1. Types /\ ShelvesInv /\ tx \in [Transactions -> TxType]
  BY DEF IInv, LimitsInv, Types
<1>2. ASSUME request' = request,
             \A s \in Transactions : \/ tx'[s].held = {}
                                     \/ tx'[s].held = tx[s].held /\ tx'[s].at = tx[s].at
      PROVE  Ordered'
  <2>1. Transactions' = Transactions /\ \A s \in Transactions : Statements(s)' = Statements(s)
    BY <1>2 DEF Transactions, Statements, PurchaseStatements
  <2>2. ASSUME NEW s \in Transactions, NEW row \in tx'[s].held
        PROVE  InOrder(s, row)'
    <3>1. InOrder(s, row) /\ tx'[s].at = tx[s].at /\ Statements(s)' = Statements(s)
      BY <1>2, <2>1, <2>2 DEF Ordered
    <3> QED
      BY <1>2, <3>1 DEF InOrder
  <2> QED
    BY <2>1, <2>2 DEF Ordered
<1>3. CASE NextDay \/ UNCHANGED vars
  BY <1>2, <1>3 DEF NextDay, vars
<1>4. CASE \E t \in Transactions : Begin(t) \/ Execute(t) \/ EndStep(t)
  <2>1. PICK t \in Transactions : Begin(t) \/ Execute(t) \/ EndStep(t)
    BY <1>4
  <2>2. CASE Begin(t)
    <3>1. tx' = [tx EXCEPT ![t].state = "open", ![t].day = today] /\ request' = request
      BY <2>2 DEF Begin
    <3>2. \A s \in Transactions : tx'[s].held = tx[s].held /\ tx'[s].at = tx[s].at
      BY <1>1, <3>1 DEF TxType
    <3> QED
      BY <1>2, <3>1, <3>2
  <2>3. CASE Execute(t)
    BY <1>1, <2>3, ExecuteOrdered
  <2>4. CASE EndStep(t)
    <3>1. tx' = [tx EXCEPT ![t] = Ended] /\ request' = request
      BY <2>4, EndsTx
    <3>2. \A s \in Transactions : tx'[s] = tx[s] \/ tx'[s].held = {}
      BY <1>1, <3>1 DEF Ended, Free
    <3> QED
      BY <1>2, <3>1, <3>2
  <2> QED
    BY <2>1, <2>2, <2>3, <2>4
<1> QED
  BY <1>3, <1>4 DEF Next, EndStep, AccountStep, ClaimStep, ShopStep

(* Who is blocked runs one of its statements.                              *)
LEMMA BlockedFacts ==
    ASSUME Types, NEW t \in Transactions, Blocked(t)
    PROVE  LET k == tx[t].at + 1 IN
           /\ tx[t].at \in Nat /\ tx[t].at < Len(Statements(t))
           /\ k \in 1 .. Len(Statements(t)) /\ Statements(t)[k] \in StatementNames
           /\ Missing(t) \subseteq Rows(t, Statements(t)[k]) /\ Missing(t) # {}
<1>1. tx[t].at \in Nat /\ Len(Statements(t)) \in Nat
  BY StatementFacts DEF Types, TxType
<1>2. Missing(t) # {}
  BY DEF Blocked
<1>3. tx[t].at < Len(Statements(t)) /\ Missing(t) \subseteq Rows(t, Statements(t)[tx[t].at + 1])
  BY <1>2 DEF Missing
<1>4. tx[t].at + 1 \in 1 .. Len(Statements(t))
  BY <1>1, <1>3
<1>5. Statements(t)[tx[t].at + 1] \in StatementNames
  BY <1>4, StatementFacts
<1> QED
  BY <1>1, <1>2, <1>3, <1>4, <1>5

(* Who waits for a row of someone who is blocked waits no higher; and at   *)
(* the same height only for who is at a gift's recipient or a slot's rest. *)
LEMMA WaitsRise ==
    ASSUME Types, Ordered, NEW t \in Transactions, NEW s \in Transactions,
           Blocked(t), Blocked(s), WaitsFor(t, s)
    PROVE  LET a == Statements(t)[tx[t].at + 1]  b == Statements(s)[tx[s].at + 1] IN
           /\ Level(a) \in 1 .. 5 /\ Level(b) \in 1 .. 5
           /\ Level(a) <= Level(b)
           /\ Level(a) = Level(b) =>
                \/ b = "other" /\ request[s].kind = "gift"
                \/ b = "slot" /\ Runs(s, "slot")
           /\ a = "slot" => request[s].user = request[t].user
<1> DEFINE a == Statements(t)[tx[t].at + 1]
           b == Statements(s)[tx[s].at + 1]
<1> SUFFICES /\ Level(a) \in 1 .. 5 /\ Level(b) \in 1 .. 5
             /\ Level(a) <= Level(b)
             /\ Level(a) = Level(b) =>
                  \/ b = "other" /\ request[s].kind = "gift"
                  \/ b = "slot" /\ Runs(s, "slot")
             /\ a = "slot" => request[s].user = request[t].user
  OBVIOUS
<1>1. /\ tx[t].at \in Nat /\ tx[t].at < Len(Statements(t)) /\ Missing(t) \subseteq Rows(t, a)
      /\ tx[s].at \in Nat /\ tx[s].at < Len(Statements(s)) /\ Missing(s) \subseteq Rows(s, b)
      /\ Missing(s) # {}
  BY BlockedFacts
<1>2. /\ tx[t].at + 1 \in 1 .. Len(Statements(t)) /\ a \in StatementNames
      /\ tx[s].at + 1 \in 1 .. Len(Statements(s)) /\ b \in StatementNames
  BY BlockedFacts
<1>3. b # "recent"
  <2>1. PICK row : row \in Rows(s, b)
    BY <1>1
  <2> HIDE DEF b
  <2> QED
    BY <1>2, <2>1, RowsLevel
<1>4. PICK row \in Rows(t, a) : row \in tx[s].held
  BY <1>1 DEF WaitsFor
<1>5. /\ RowLevel(row) = Level(a) /\ (row[1] = "owned" => row[2] = request[t].user)
      /\ a = "slot" => row[1] = "owned"
  BY <1>2, <1>4, RowsLevel
<1>6. PICK k \in 1 .. Len(Statements(s)) :
        /\ RowLevel(row) = Level(Statements(s)[k])
        /\ k <= tx[s].at \/ (k = tx[s].at + 1 /\ Statements(s)[k] = "slot")
        /\ row[1] = "owned" => row[2] = request[s].user
  BY <1>4 DEF Ordered, InOrder
<1>7. Level(a) \in 1 .. 5 /\ Level(b) \in 1 .. 5
  BY <1>2, LevelTyped
<1>8. CASE k = tx[s].at + 1 /\ b = "slot"
  BY <1>1, <1>5, <1>6, <1>7, <1>8 DEF Runs
<1>9. CASE k <= tx[s].at
  <2>1. k < tx[s].at + 1
    BY <1>1, <1>6, <1>9
  <2>2. /\ Level(Statements(s)[k]) <= Level(b)
        /\ Level(Statements(s)[k]) = Level(b) =>
             \/ b = "other" /\ request[s].kind = "gift"
             \/ b \in {"recent", "slot"}
    BY <1>2, <1>6, <2>1, StatementsRise
  <2>3. b = "slot" => Runs(s, "slot")
    BY <1>1 DEF Runs
  <2> HIDE DEF a, b
  <2> QED
    BY <1>3, <1>5, <1>6, <1>7, <2>2, <2>3
<1> QED
  BY <1>6, <1>8, <1>9

(* Only the known circles: everything else is ordered.                     *)
LEMMA KnownCircles == Types /\ Ordered => DeadlocksAreKnown
<1> SUFFICES ASSUME Types, Ordered,
                    NEW D \in SUBSET {t \in Transactions : Blocked(t)} \ {{}}, Deadlocked(D)
             PROVE  \/ \A t \in D : request[t].kind = "gift"
                    \/ \A t \in D : /\ Runs(t, "slot")
                                     /\ \A s \in D : request[s].user = request[t].user
  BY DEF DeadlocksAreKnown
<1> DEFINE name(t) == Statements(t)[tx[t].at + 1]
           height(t) == Level(name(t))
<1>1. PICK next \in [D -> D] :
        /\ \A t \in D : WaitsFor(t, next[t])
        /\ \A E \in SUBSET D \ {{}} : (\A t \in E : next[t] \in E) => E = D
  BY DEF Deadlocked
<1>2. \A t \in D : t \in Transactions /\ Blocked(t) /\ next[t] \in D
  BY <1>1
<1>3. \A t \in D :
        /\ height(t) \in 1 .. 5 /\ height(t) <= height(next[t])
        /\ height(t) = height(next[t]) =>
             \/ name(next[t]) = "other" /\ request[next[t]].kind = "gift"
             \/ name(next[t]) = "slot" /\ Runs(next[t], "slot")
        /\ name(t) = "slot" => request[next[t]].user = request[t].user
  BY <1>1, <1>2, WaitsRise
<1> HIDE DEF name, height
<1>4. \A t, s \in D : height(s) >= height(t)
  <2> SUFFICES ASSUME NEW t \in D PROVE \A s \in D : height(s) >= height(t)
    OBVIOUS
  <2> DEFINE E == {s \in D : height(s) >= height(t)}
  <2>1. t \in E
    BY <1>3
  <2>2. \A s \in E : next[s] \in E
    BY <1>2, <1>3
  <2> QED
    BY <1>1, <2>1, <2>2
<1>5. \A t, s \in D : height(s) = height(t)
  BY <1>3, <1>4
<1>6. \A s \in D : \E t \in D : s = next[t]
  <2> DEFINE E == {next[t] : t \in D}
  <2>1. E \in SUBSET D \ {{}}
    BY <1>2
  <2>2. \A s \in E : next[s] \in E
    BY <1>2
  <2>3. E = D
    BY <1>1, <2>1, <2>2
  <2> QED
    BY <2>3
<1>7. \A s \in D : \/ name(s) = "other" /\ request[s].kind = "gift"
                   \/ name(s) = "slot" /\ Runs(s, "slot")
  BY <1>2, <1>3, <1>5, <1>6
<1>8. CASE \E s \in D : name(s) = "other"
  <2>1. \A s \in D : name(s) # "slot"
    BY <1>5, <1>8 DEF height, Level
  <2> QED
    BY <1>7, <2>1
<1>9. CASE \A s \in D : name(s) = "slot" /\ Runs(s, "slot")
  <2> SUFFICES ASSUME NEW t \in D PROVE \A s \in D : request[s].user = request[t].user
    BY <1>9
  <2> DEFINE E == {s \in D : request[s].user = request[t].user}
  <2>1. t \in E /\ \A s \in E : next[s] \in E
    BY <1>2, <1>3, <1>9
  <2> QED
    BY <1>1, <2>1
<1> QED
  BY <1>7, <1>8, <1>9

(* Whatever runs at once, a circle of waits is one of gifts, or of         *)
(* sessions that change what one user wears: purchases, claims, quests,    *)
(* drinks and the bets and payouts of games never meet in one, because     *)
(* the code locks the item before the chips before the purchase.           *)
THEOREM DeadlocksKnown == Spec => []DeadlocksAreKnown
<1>1. Init => Ordered
  BY DEF Init, Ordered, Transactions, Free
<1>2. IInv /\ Ordered => DeadlocksAreKnown
  BY KnownCircles DEF IInv
<1>3. Init => IInv /\ LimitsInv
  BY InitLimits
<1>4. IInv /\ LimitsInv /\ Ordered /\ [Next]_vars => IInv' /\ LimitsInv' /\ Ordered'
  BY NextLimits, NextOrdered
<1> QED
  BY <1>1, <1>2, <1>3, <1>4, PTL DEF Spec
===============================================================================
