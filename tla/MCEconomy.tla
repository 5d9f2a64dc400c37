------------------------------ MODULE MCEconomy ------------------------------
(* Small instances of the accounts: transactions that run at once, on one  *)
(* user's rows or on those of two who send each other gifts.               *)
EXTENDS Economy, TLC

CONSTANTS ann, ben, aquarium, guppy, koi, food, flakes, hat, bow, cap, spark,
          first, early, second, third, weekly

Prices == [i \in Items |-> IF i \in {hat, koi} THEN 3 ELSE 2]
Days == [a \in Assignments |-> IF a \in {second, third} THEN 2 ELSE 1]
Targets == [a \in Assignments |-> IF a = second THEN 2 ELSE 1]
Balances == (ann :> 7 @@ ben :> 5)

Nothing == [have |-> FALSE, quantity |-> 0, active |-> 0, equipped |-> FALSE]
One == [Nothing EXCEPT !.have = TRUE, !.quantity = 1]

(* Ann owns most things and shows all the fish but one that the tank takes. *)
Opening ==
    [u \in Users |-> [i \in Items |->
        IF u = ben \/ i \in {cap, spark} THEN Nothing
        ELSE CASE i = guppy -> [One EXCEPT !.quantity = 2, !.active = 1]
               [] i = hat -> [One EXCEPT !.equipped = TRUE]
               [] OTHER -> One]]

R(kind, user, about, other, amount) ==
    [kind |-> kind, user |-> user, about |-> about, other |-> other, amount |-> amount, sender |-> 0]
Ann(kind, about, amount) == R(kind, ann, about, None, amount)

GiftToBen == R("gift", ann, None, ben, 3)
GiftToAnn == R("gift", ben, None, ann, 3)
BuyCap == Ann("purchase", cap, 0)

Catalogue ==
    <<GiftToBen, GiftToAnn, Ann("drink", None, 3), Ann("debit", None, 6), Ann("credit", None, 2),
      Ann("restore", None, 0), Ann("daily", None, 0), Ann("cooldown", None, 0), BuyCap,
      Ann("purchase", koi, 0), Ann("purchase", spark, 0), Ann("purchase", food, 0),
      Ann("fish", guppy, 1), Ann("fish", koi, 1), Ann("fish", guppy, -1), Ann("treat", food, 0),
      Ann("pinch", flakes, 0), Ann("equip", hat, 0), Ann("equip", bow, 0), Ann("unequip", None, 0),
      R("purchase", ben, koi, None, 0), R("purchase", ben, spark, None, 0)>>

(* Each request is the work of a task of its own. *)
Separate(requests) == [t \in DOMAIN requests |-> [requests[t] EXCEPT !.sender = t]]

Pairs == {<<Catalogue[p], Catalogue[q]>> : p, q \in DOMAIN Catalogue}

(* Three at once: those that move chips both ways, and those on one shelf. *)
AtOnce == {1, 2, 3, 7, 9, 10, 13, 14, 18, 19}
Triples ==
    {<<Catalogue[n[1]], Catalogue[n[2]], Catalogue[n[3]]>> :
        n \in {m \in AtOnce \X AtOnce \X AtOnce : m[1] <= m[2] /\ m[2] <= m[3]}}

Quest(a, event, amount, sender) ==
    [kind |-> "quest", user |-> ann, about |-> a, other |-> event, amount |-> amount, sender |-> sender]

(* Quests of two days and of a week, by one process and by two.            *)
Quests ==
    {<<Quest(first, 1, 1, 1), Quest(second, 2, 1, 1), Quest(third, 3, 1, 1), Quest(second, 3, 1, 1)>>,
     <<Quest(first, 1, 1, 1), Quest(early, 2, 1, 1), Quest(second, 3, 2, 2), Quest(third, 4, 1, 2)>>,
     <<Quest(second, 1, 2, 1), Quest(second, 2, 1, 2), Quest(third, 2, 1, 2)>>,
     <<Quest(weekly, 1, 2, 1), [BuyCap EXCEPT !.sender = 2], [GiftToAnn EXCEPT !.sender = 3]>>}

(* Two circles of waits at once. *)
TwoCircles == <<GiftToBen, GiftToAnn, Ann("equip", hat, 0), Ann("equip", bow, 0)>>

Workloads == {Separate(requests) : requests \in Pairs \cup Triples \cup {TwoCircles}} \cup Quests
===============================================================================
