----------------------------- MODULE Belongings -----------------------------
(***************************************************************************)
(* What a hero owns and the screens that move it: the bag with its item    *)
(* and scroll questions (src/src/input/inventorymenu.cpp), the equipment   *)
(* page (src/src/characters/sheet.cpp), the shop (src/src/town/shop.cpp),  *)
(* the rest in town, the aim of a throw or of a scroll in a fight, and the *)
(* trade a partner accepts at any moment, whatever screen is open here.    *)
(* Every screen names an item by its index in the pack, and the pack       *)
(* closes its ranks when an item leaves.                                   *)
(***************************************************************************)
EXTENDS Naturals, Sequences, FiniteSets

CONSTANTS
    Cure, Ration, Page, Axe, Sword, Shield,  \* potion, food, scroll, two- and one-handed weapon
    Nothing,       \* ITEM_NONE
    Goods,         \* bound: the items of those in circulation
    Capacity,      \* MAX_INVENTORY: 32 in the code
    Stack,         \* bound of a stack: 255 in the code
    Owned,         \* bound: how much a hero is given in all
    Richest,       \* bound of the purse: UINT32_MAX in the code
    Rests,         \* rests the study of the page takes: the spell's level
    Wizards        \* whether the hero may be a wizard, who reads pages

Wares == {Cure, Ration, Page, Axe, Sword, Shield} \cap Goods
Hands == {"melee", "shield"}

Unread == Rests + 1

VARIABLES
    pack,      \* inventory.slots: a sequence of [item, n]
    worn,      \* equipment.equipped
    gold, lack,\* inventory.gold; the pools that are not full
    place,     \* "town" or "wild"
    turn,      \* "peace", "mine", "used" (only the move action left), "theirs"
    screen,    \* the open screen or question
    cursor,    \* the row of the bag or of a list, from 1
    held,      \* the slot under change, or the scroll under question
    list,      \* sellInventoryIndices, each with the item its label shows; kept while it is open
    traded,    \* history: a trade moved the pack since the list was built
    aim,       \* the item whose use is being aimed
    mage, spell,   \* the hero is a wizard; rests until the page's spell is known, Unread before
    due        \* history: what the hero should own

belongVars == <<pack, worn, gold, lack, place, turn, screen, cursor, held,
                list, traded, aim, mage, spell, due>>

(***************************************************************************)
(* addItemToSlots, removeItemFromSlots and getItemQuantity.                *)
(***************************************************************************)
Stacked == {Cure, Ration, Page}
At(p, i) == {k \in DOMAIN p : p[k].item = i}
Quantity(p, i) == IF At(p, i) = {} THEN 0
                  ELSE IF i \in Stacked THEN p[CHOOSE k \in At(p, i) : TRUE].n
                  ELSE Cardinality(At(p, i))
Has(i) == At(pack, i) # {}

CanAdd(p, i) == IF i \in Stacked /\ At(p, i) # {} THEN Quantity(p, i) < Stack
                ELSE Len(p) < Capacity
Added(p, i) == IF i \in Stacked /\ At(p, i) # {}
               THEN [k \in DOMAIN p |-> IF p[k].item = i THEN [p[k] EXCEPT !.n = @ + 1] ELSE p[k]]
               ELSE Append(p, [item |-> i, n |-> 1])

Removed(p, i) ==
    LET k == CHOOSE k \in At(p, i) : \A j \in At(p, i) : k <= j
        rest == IF p[k].n = 1 THEN <<>> ELSE <<[p[k] EXCEPT !.n = @ - 1]>>
    IN SubSeq(p, 1, k - 1) \o rest \o SubSeq(p, k + 1, Len(p))

Gain(i) == pack' = Added(pack, i) /\ due' = [due EXCEPT ![i] = @ + 1]
Lose(i) == pack' = Removed(pack, i) /\ due' = [due EXCEPT ![i] = @ - 1]

(***************************************************************************)
(* getEquipmentSlot, getEquipmentCompatibility, equipItemWithResult and    *)
(* unequipItem: the new piece leaves the pack before the old one enters.   *)
(***************************************************************************)
Hand(i) == IF i \in {Axe, Sword} THEN "melee" ELSE IF i = Shield THEN "shield" ELSE "none"

Compatible(i) ==
    /\ i = Axe => worn["shield"] = Nothing
    /\ i = Shield => worn["melee"] # Axe

Swapped(i) == LET old == worn[Hand(i)]  less == Removed(pack, i)
              IN IF old = Nothing THEN less ELSE Added(less, old)
Fits(i) == LET old == worn[Hand(i)]
           IN old = Nothing \/ CanAdd(Removed(pack, i), old)
Choices(h) == SelectSeq([k \in DOMAIN pack |-> pack[k].item], LAMBDA i : Hand(i) = h)

(***************************************************************************)
(* isSellable and buildSellMenu.                                           *)
(***************************************************************************)
Value == 2
Offered(p) == SelectSeq([k \in DOMAIN p |-> <<k, p[k].item>>], LAMBDA e : e[2] # Ration)
Listed(p) == list' = Offered(p) /\ traded' = FALSE

BelongingsInit ==
    /\ pack = <<>> /\ worn = [h \in Hands |-> Nothing]
    /\ gold = Richest /\ lack = {"hp"}
    /\ place = "town" /\ turn = "peace"
    /\ screen = "none" /\ cursor = 1 /\ held = Nothing
    /\ list = <<>> /\ traded = FALSE /\ aim = Nothing
    /\ mage \in Wizards /\ spell = Unread
    /\ due = [i \in Wares |-> 0]

same == UNCHANGED <<worn, gold, lack, place, turn, aim, mage, spell>>
kept == UNCHANGED <<pack, due>>
quiet == UNCHANGED <<cursor, held, list, traded>>

Unlisted == list' = <<>> /\ traded' = FALSE
Closed == screen' = "none" /\ cursor' = 1 /\ held' = Nothing /\ Unlisted
Show(s) == screen' = s /\ UNCHANGED <<cursor, held>>

(***************************************************************************)
(* The shop.                                                               *)
(***************************************************************************)
OpenShop ==
    /\ screen = "none" /\ place = "town"
    /\ Show("shop") /\ UNCHANGED <<list, traded>> /\ same /\ kept

OpenList(s) ==
    /\ screen = "shop" /\ s \in {"buy", "sell"}
    /\ screen' = s /\ cursor' = 1 /\ held' = held
    /\ IF s = "sell" THEN Listed(pack) ELSE UNCHANGED <<list, traded>>
    /\ same /\ kept

Buy(i) ==
    /\ screen = "buy" /\ i # Ration
    /\ gold >= Value /\ CanAdd(pack, i)
    /\ Gain(i) /\ gold' = gold - Value
    /\ UNCHANGED <<list, traded, worn, lack, place, turn, screen, cursor, held, aim, mage, spell>>

\* The list is not built again after a sale.
SellFrom(k) ==
    /\ screen = "sell" /\ k \in DOMAIN list /\ k = cursor
    /\ list[k][1] \in DOMAIN pack
    /\ LET i == pack[list[k][1]].item
       IN /\ i # Ration
          /\ Lose(i)
          /\ gold' = IF Value \div 2 > Richest - gold THEN Richest ELSE gold + Value \div 2
          /\ UNCHANGED <<list, traded, cursor>>
    /\ UNCHANGED <<worn, lack, place, turn, screen, held, aim, mage, spell>>

\* clampSellMenuSelection follows the new list.
Sell(k) ==
    /\ screen = "sell" /\ k \in DOMAIN list /\ k = cursor
    /\ list[k][1] \in DOMAIN pack
    /\ LET i == pack[list[k][1]].item
           less == Len(Offered(Removed(pack, i)))
       IN /\ i # Ration
          /\ Lose(i)
          /\ gold' = IF Value \div 2 > Richest - gold THEN Richest ELSE gold + Value \div 2
          /\ Listed(Removed(pack, i))
          /\ cursor' = IF less = 0 THEN 1 ELSE IF cursor > less THEN less ELSE cursor
    /\ UNCHANGED <<worn, lack, place, turn, screen, held, aim, mage, spell>>

(***************************************************************************)
(* Moving the cursor, and B.                                               *)
(***************************************************************************)
Rows == CASE screen = "bag" -> Len(pack)
          [] screen = "sell" -> Len(list)
          [] screen = "change" -> Len(Choices(held)) + (IF worn[held] = Nothing THEN 1 ELSE 2)
          [] OTHER -> 1

Move(k) ==
    /\ k \in 1..Rows /\ k \in {cursor - 1, cursor + 1}
    /\ cursor' = k /\ UNCHANGED <<screen, held, list, traded>> /\ same /\ kept

Back ==
    /\ screen # "none"
    /\ CASE screen \in {"item", "scroll"} -> Show("bag") /\ UNCHANGED <<list, traded>>
         [] screen = "change" -> screen' = "sheet" /\ cursor' = 1 /\ held' = Nothing
                                 /\ UNCHANGED <<list, traded>>
         [] screen \in {"buy", "sell"} -> screen' = "shop" /\ cursor' = 1 /\ held' = held /\ Unlisted
         [] OTHER -> Closed
    /\ same /\ kept

(***************************************************************************)
(* The bag.  canUseCombatItem and canUseStandardItemAction: out of a fight *)
(* always, in one only on one's own turn with the standard action left.  A *)
(* drop wants the move action and may find it spent, or no free floor.     *)
(***************************************************************************)
MayAct == turn \in {"peace", "mine"}
Spent == turn' = IF turn = "peace" THEN turn ELSE "used"

OpenBag ==
    /\ screen = "none" /\ screen' = "bag" /\ cursor' = 1
    /\ UNCHANGED <<held, list, traded>> /\ same /\ kept

Ask ==
    /\ screen = "bag" /\ cursor \in DOMAIN pack
    /\ Show("item") /\ UNCHANGED <<list, traded>> /\ same /\ kept

Chosen == pack[cursor].item

\* A trade took the item while the question stood.
Withdrawn ==
    /\ screen = "item" /\ cursor \notin DOMAIN pack
    /\ Show("bag") /\ UNCHANGED <<list, traded>> /\ same /\ kept

\* The potion may heal nothing; food fills both pools and is refused in a fight.
Use(filled) ==
    /\ screen = "item" /\ cursor \in DOMAIN pack
    /\ IF \/ Chosen = Cure /\ "hp" \in lack /\ MayAct /\ filled \subseteq {"hp"}
          \/ Chosen = Ration /\ lack # {} /\ turn = "peace"
       THEN /\ lack' = lack \ filled /\ Spent
            /\ Lose(Chosen) /\ Closed
            /\ UNCHANGED <<worn, gold, place, aim, mage, spell>>
       ELSE /\ IF Chosen = Page /\ mage
               THEN screen' = "scroll" /\ held' = Page /\ UNCHANGED cursor
               ELSE Show("bag")
            /\ UNCHANGED <<list, traded>> /\ same /\ kept

Discard ==
    /\ screen = "item" /\ cursor \in DOMAIN pack /\ place = "wild"
    /\ \/ turn # "theirs" /\ Lose(Chosen) /\ Closed
       \/ Show("bag") /\ UNCHANGED <<list, traded>> /\ kept
    /\ same

BeginThrow ==
    /\ screen = "item" /\ cursor \in DOMAIN pack /\ Chosen = Cure /\ place = "wild"
    /\ Closed
    /\ aim' \in (IF Has(Cure) /\ MayAct THEN {Cure, aim} ELSE {aim})
    /\ UNCHANGED <<worn, gold, lack, place, turn, mage, spell>> /\ kept

\* useSpellScroll: the page is spent when the study begins.
Study ==
    /\ screen = "scroll" /\ Has(Page) /\ spell = Unread
    /\ Lose(Page) /\ spell' = Rests
    /\ screen' = "bag" /\ UNCHANGED <<cursor, held, list, traded>>
    /\ UNCHANGED <<worn, gold, lack, place, turn, aim, mage>>

\* beginPlayerScrollAbility asks for a current combatant: no scroll out of a fight.
BeginCast ==
    /\ screen = "scroll" /\ Closed
    /\ aim' = IF Has(Page) /\ turn = "mine" THEN Page ELSE aim
    /\ UNCHANGED <<worn, gold, lack, place, turn, mage, spell>> /\ kept

(***************************************************************************)
(* resolveThrownHealingPotion and confirmPlayerAbility.  The spell works   *)
(* before the scroll is asked for: one that was traded away in between     *)
(* still casts, and the aim stands.                                        *)
(***************************************************************************)
Resolve ==
    /\ aim # Nothing /\ MayAct /\ screen = "none"
    /\ IF Has(aim) THEN Lose(aim) /\ aim' = Nothing ELSE kept /\ UNCHANGED aim
    /\ IF Has(aim) \/ aim = Page THEN Spent ELSE UNCHANGED turn
    /\ quiet /\ UNCHANGED <<worn, gold, lack, place, screen, mage, spell>>

CancelAim ==
    /\ aim # Nothing /\ screen = "none" /\ aim' = Nothing
    /\ quiet /\ UNCHANGED <<worn, gold, lack, place, turn, screen, mage, spell>> /\ kept

(***************************************************************************)
(* The equipment page: activateCharacterSheetSelection.                    *)
(***************************************************************************)
OpenSheet ==
    /\ screen = "none" /\ Show("sheet") /\ UNCHANGED <<list, traded>> /\ same /\ kept

Change(h) ==
    /\ screen = "sheet" /\ h \in Hands
    /\ screen' = "change" /\ held' = h /\ cursor' = 1
    /\ UNCHANGED <<list, traded>> /\ same /\ kept

Returned == screen' = "sheet" /\ cursor' = 1 /\ held' = Nothing /\ UNCHANGED <<list, traded>>

Equip ==
    /\ screen = "change" /\ cursor <= Len(Choices(held)) /\ MayAct
    /\ LET i == Choices(held)[cursor]
       IN /\ Compatible(i) /\ Fits(i)
          /\ pack' = Swapped(i) /\ worn' = [worn EXCEPT ![held] = i]
    /\ Spent /\ Returned
    /\ UNCHANGED <<gold, lack, place, aim, mage, spell, due>>

Unequip ==
    /\ screen = "change" /\ cursor = Len(Choices(held)) + 1
    /\ worn[held] # Nothing /\ MayAct /\ CanAdd(pack, worn[held])
    /\ pack' = Added(pack, worn[held]) /\ worn' = [worn EXCEPT ![held] = Nothing]
    /\ Spent /\ Returned
    /\ UNCHANGED <<gold, lack, place, aim, mage, spell, due>>

(***************************************************************************)
(* Rest in town, and the level a fight's end may bring: the study is       *)
(* finished before a new starter spell is granted.                         *)
(***************************************************************************)
Rest ==
    /\ place = "town" /\ screen = "none"
    /\ lack' \in {lack, lack \ {"hp"}}
    /\ spell' = IF spell \in {0, Unread} THEN spell ELSE spell - 1
    /\ quiet /\ UNCHANGED <<worn, gold, place, turn, screen, aim, mage>> /\ kept

LevelUp ==
    /\ place = "wild" /\ turn = "peace"
    /\ spell' = IF spell = Unread THEN spell ELSE 0
    /\ quiet /\ UNCHANGED <<worn, gold, lack, place, turn, screen, aim, mage>> /\ kept

(***************************************************************************)
(* Around the screens: the road, fights, wounds, and the answer of a       *)
(* partner to a trade (assignSelectedCharacter).                           *)
(***************************************************************************)
Travel ==
    /\ screen = "none" /\ turn = "peace"
    /\ place' = IF place = "town" THEN "wild" ELSE "town"
    /\ quiet /\ UNCHANGED <<worn, gold, lack, turn, screen, aim, mage, spell>> /\ kept

Fight(next) ==
    /\ place = "wild" /\ turn # next
    /\ turn' = next
    /\ aim' = IF "peace" \in {turn, next} THEN Nothing ELSE aim
    /\ lack' = IF next = "mine" THEN {"hp"} ELSE lack
    /\ quiet /\ UNCHANGED <<worn, gold, place, screen, mage, spell>> /\ kept

Moved == traded' = (screen = "sell") /\ same /\ UNCHANGED <<screen, cursor, held, list>>

Receive(i) ==
    /\ Cardinality({j \in Wares : due[j] > 0}) < Owned /\ CanAdd(pack, i)
    /\ Gain(i) /\ Moved

GiveAway(i) == Has(i) /\ Lose(i) /\ Moved

BelongingsNext ==
    \/ OpenShop \/ \E s \in {"buy", "sell"} : OpenList(s)
    \/ \E i \in Wares : Buy(i) \/ Receive(i) \/ GiveAway(i)
    \/ \E k \in 1..Capacity + 2 : Sell(k) \/ Move(k)
    \/ Back \/ OpenBag \/ Ask \/ Withdrawn
    \/ \E filled \in SUBSET {"hp", "mp"} : Use(filled)
    \/ Discard \/ BeginThrow \/ Study \/ BeginCast \/ Resolve \/ CancelAim
    \/ OpenSheet \/ \E h \in Hands : Change(h) \/ Equip \/ Unequip
    \/ Rest \/ LevelUp \/ Travel
    \/ \E next \in {"peace", "mine", "theirs"} : Fight(next)

BelongingsSpec == BelongingsInit /\ [][BelongingsNext]_belongVars

-----------------------------------------------------------------------------
(***************************************************************************)
(* What was bought, given, used, sold, studied or worn balances: each item *)
(* is in the pack or in a hand exactly as often as the hero should own it, *)
(* no pack has two rows of one stack or more rows than it holds, and no    *)
(* hand grips a two-handed weapon beside a shield.                         *)
(***************************************************************************)
InHand(i) == Cardinality({h \in Hands : worn[h] = i})
AllAccountedFor ==
    /\ \A i \in Wares : Quantity(pack, i) + InHand(i) = due[i]
    /\ Len(pack) <= Capacity
    /\ \A i \in Stacked : Cardinality(At(pack, i)) <= 1
    /\ ~(worn["melee"] = Axe /\ worn["shield"] # Nothing)

(***************************************************************************)
(* The list to sell from names what lies at its index, however often the   *)
(* hero sells, unless a trade moved the pack since the list was built.     *)
(***************************************************************************)
SellsWhatItShows ==
    screen = "sell" /\ ~traded => \A k \in DOMAIN list :
        list[k][1] \in DOMAIN pack /\ pack[list[k][1]].item = list[k][2]
=============================================================================
