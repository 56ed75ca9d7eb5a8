------------------------------ MODULE ItemTrade ------------------------------
(***************************************************************************)
(* The book of trade offers.  One player offers up to MaxLines item lines  *)
(* to another; a player is bound by at most one pending offer.  Nothing is *)
(* reserved: what the sender owns and what the recipient can carry are     *)
(* looked at again when the offer is accepted, and inventories change in   *)
(* between.                                                                *)
(*                                                                         *)
(* An inventory is the quantity of each item.  Units of a stackable item   *)
(* share one slot of at most MaxStack; every other unit takes a slot.      *)
(***************************************************************************)
EXTENDS Integers, FiniteSetsExt, SequencesExt

CONSTANTS
  TradePlayers,      \* MAX_MULTIPLAYER_PLAYERS = 4; offer slots are as many
  Items,             \* item instances
  Stackable,         \* the items whose units share a slot
  MaxStack,          \* UINT8_MAX units in a slot
  MaxInventory,      \* MAX_INVENTORY = 64 slots
  MaxLines,          \* MAX_TRADE_OFFER_ITEMS = 4
  MaxQuantity,       \* largest quantity of a line (uint8_t)
  MaxOfferID,        \* ids drawn in the life of a book; it wraps at 2^32
  StartingInventory, \* what each player carries at first
  Adventurers        \* players who find and use items between offers

ASSUME TradePlayersAssumption == TradePlayers \in Nat \ {0, 1}
ASSUME MaxOfferIDAssumption == MaxOfferID \in Nat \ {0}
ASSUME StackableAssumption == Stackable \subseteq Items
ASSUME AdventurersAssumption == Adventurers \subseteq 0..(TradePlayers - 1)

VARIABLES
  inventory,         \* per player: the quantity of each item
  offers,            \* the offer slots
  nextID             \* id of the next offer

tradeVars == <<inventory, offers, nextID>>

Traders == 0..(TradePlayers - 1)
OfferSlots == 0..(TradePlayers - 1)
Line == [item : Items, quantity : 1..MaxQuantity]
Lines == BoundedSeq(Line, MaxLines) \ {<<>>}
Answers == {"ACCEPTED", "DECLINED", "CANCELLED"}

NoOffer == [id |-> 0, status |-> "EMPTY", sender |-> 0, recipient |-> 0, lines |-> <<>>]

Pending == {k \in OfferSlots : offers[k].status = "PENDING"}

Binds(offer, p) == offer.sender = p \/ offer.recipient = p

\* pendingFor
Busy(p) == \E k \in Pending : Binds(offers[k], p)

-----------------------------------------------------------------------------
(* Inventories *)

SlotsUsed(inv) ==
  MapThenSumSet(LAMBDA i : IF i \in Stackable /\ inv[i] > 0 THEN 1 ELSE inv[i], Items)

\* addItemToSlots
CanAdd(inv, line) ==
  IF line.item \in Stackable /\ inv[line.item] > 0
    THEN inv[line.item] + line.quantity <= MaxStack
    ELSE SlotsUsed(inv) + (IF line.item \in Stackable THEN 1 ELSE line.quantity)
           <= MaxInventory

Added(inv, line) == [inv EXCEPT ![line.item] = @ + line.quantity]

\* removeItemFromSlotsInternal
CanRemove(inv, line) == line.quantity <= inv[line.item]

Removed(inv, line) == [inv EXCEPT ![line.item] = @ - line.quantity]

\* Units of an item in all the lines together: an offer may name it twice.
Requested(lines, item) ==
  FoldLeft(LAMBDA sum, line : IF line.item = item THEN sum + line.quantity ELSE sum,
           0, lines)

OwnsLines(inv, lines) == \A i \in Items : Requested(lines, i) <= inv[i]

\* Mutant of Moved: a line is handed over without being taken away.
MovedCopy(b, line) ==
  IF b.ok /\ CanRemove(b.from, line) /\ CanAdd(b.to, line)
    THEN [ok |-> TRUE, from |-> b.from, to |-> Added(b.to, line)]
    ELSE [b EXCEPT !.ok = FALSE]

\* One line moved; once a line has failed nothing more moves.
Moved(b, line) ==
  IF b.ok /\ CanRemove(b.from, line) /\ CanAdd(b.to, line)
    THEN [ok |-> TRUE, from |-> Removed(b.from, line), to |-> Added(b.to, line)]
    ELSE [b EXCEPT !.ok = FALSE]

Transfer(from, to, lines) == FoldLeft(Moved, [ok |-> TRUE, from |-> from, to |-> to], lines)

-----------------------------------------------------------------------------
(* Operations of the book *)

TradeInit ==
  /\ inventory = StartingInventory
  /\ offers = [k \in OfferSlots |-> NoOffer]
  /\ nextID = 1

\* Mutant of NextID: the id of an offer is used again by the next one.
NextIDSame == nextID

NextID == nextID + 1

Propose(sender, recipient, lines) ==
  LET k == Min(OfferSlots \ Pending)
  IN  /\ sender # recipient
      /\ ~Busy(sender)
      /\ ~Busy(recipient)
      /\ OwnsLines(inventory[sender], lines)
      /\ OfferSlots \ Pending # {}
      /\ nextID <= MaxOfferID
      /\ offers' = [offers EXCEPT ![k] =
                      [id |-> nextID, status |-> "PENDING", sender |-> sender,
                       recipient |-> recipient, lines |-> lines]]
      /\ nextID' = NextID
      /\ UNCHANGED inventory

Answer(k, status) == offers' = [offers EXCEPT ![k].status = status]

\* The first slot with this id: accept looks no further.
SlotOf(id) == Min({k \in OfferSlots : offers[k].id = id})

Held == {offers[k].id : k \in OfferSlots} \ {0}

Accept(id, p) ==
  LET k == SlotOf(id)
      o == offers[k]
      moved == Transfer(inventory[o.sender], inventory[o.recipient], o.lines)
  IN  /\ id \in Held
      /\ o.status = "PENDING"
      /\ o.recipient = p
      /\ IF OwnsLines(inventory[o.sender], o.lines) /\ moved.ok
           THEN /\ Answer(k, "ACCEPTED")
                /\ inventory' = [inventory EXCEPT ![o.sender] = moved.from,
                                                  ![o.recipient] = moved.to]
           ELSE /\ Answer(k, "CANCELLED")
                /\ UNCHANGED inventory
      /\ UNCHANGED nextID

\* Mutant of PendingUnder: an offer that was answered is found again.
HeldUnder(id) == {k \in OfferSlots : offers[k].id = id}

\* decline and cancel look for a pending offer of this id.
PendingUnder(id) == {k \in Pending : offers[k].id = id}

Decline(id, p) ==
  /\ PendingUnder(id) # {}
  /\ offers[Min(PendingUnder(id))].recipient = p
  /\ Answer(Min(PendingUnder(id)), "DECLINED")
  /\ UNCHANGED <<inventory, nextID>>

Cancel(id) ==
  /\ PendingUnder(id) # {}
  /\ Answer(Min(PendingUnder(id)), "CANCELLED")
  /\ UNCHANGED <<inventory, nextID>>

CancelForPlayer(p) ==
  /\ Busy(p)
  /\ offers' = [k \in OfferSlots |->
       IF k \in Pending /\ Binds(offers[k], p)
         THEN [offers[k] EXCEPT !.status = "CANCELLED"] ELSE offers[k]]
  /\ UNCHANGED <<inventory, nextID>>

\* Loot, purchases, use and loss of items: one unit at a time, any time.
Gain(p, i) ==
  /\ CanAdd(inventory[p], [item |-> i, quantity |-> 1])
  /\ inventory' = [inventory EXCEPT ![p] = Added(@, [item |-> i, quantity |-> 1])]
  /\ UNCHANGED <<offers, nextID>>

Lose(p, i) ==
  /\ CanRemove(inventory[p], [item |-> i, quantity |-> 1])
  /\ inventory' = [inventory EXCEPT ![p] = Removed(@, [item |-> i, quantity |-> 1])]
  /\ UNCHANGED <<offers, nextID>>

TradeNext ==
  \/ \E p, q \in Traders, lines \in Lines : Propose(p, q, lines)
  \/ \E id \in Held : Cancel(id) \/ \E p \in Traders : Accept(id, p) \/ Decline(id, p)
  \/ \E p \in Traders : CancelForPlayer(p)
  \/ \E p \in Adventurers, i \in Items : Gain(p, i) \/ Lose(p, i)

TradeSpec == TradeInit /\ [][TradeNext]_tradeVars

-----------------------------------------------------------------------------
(* Properties *)

\* Inventories fit their slots, stacks included; offers are well formed.
TradeTypeOK ==
  /\ inventory \in [Traders -> [Items -> Nat]]
  /\ \A p \in Traders : /\ SlotsUsed(inventory[p]) <= MaxInventory
                        /\ \A i \in Stackable : inventory[p][i] <= MaxStack
  /\ \A k \in OfferSlots : \/ offers[k] = NoOffer
                           \/ /\ offers[k].id \in 1..(nextID - 1)
                              /\ offers[k].status \in Answers \cup {"PENDING"}
                              /\ offers[k].sender \in Traders
                              /\ offers[k].recipient \in Traders \ {offers[k].sender}
                              /\ offers[k].lines \in Lines
  /\ nextID \in 1..(MaxOfferID + 1)

\* One pending offer binds both of its players: no player is in two, so nobody
\* can promise one item twice.
OneOfferEach ==
  \A j, k \in Pending :
    j # k => {offers[j].sender, offers[j].recipient}
               \cap {offers[k].sender, offers[k].recipient} = {}

\* An id names one offer, so an answer reaches the offer it was meant for,
\* whatever older offers are still in the book.
IdsNameOneOffer ==
  \A j, k \in OfferSlots : offers[j].id # 0 /\ offers[j].id = offers[k].id => j = k

\* No two offers can be taken for one another: none shares a player with
\* another while both are open, and none shares an id with another at all.
OffersApart == OneOfferEach /\ IdsNameOneOffer

AcceptedNow ==
  {k \in OfferSlots : /\ offers[k].status = "PENDING"
                      /\ offers'[k] = [offers[k] EXCEPT !.status = "ACCEPTED"]}

\* The units of an item that p gives away and receives in offers accepted now.
Given(p, i) ==
  MapThenSumSet(LAMBDA k : Requested(offers[k].lines, i),
                {k \in AcceptedNow : offers[k].sender = p})
Received(p, i) ==
  MapThenSumSet(LAMBDA k : Requested(offers[k].lines, i),
                {k \in AcceptedNow : offers[k].recipient = p})

\* An offer moves everything it lists or nothing at all: a step of the book
\* leaves every inventory as it was but for the lines of the offer accepted
\* in it (propose, accept with its preview and its rollback, decline, cancel).
TransfersAreExact ==
  [][offers' # offers =>
       \A p \in Traders, i \in Items :
         inventory'[p][i] + Given(p, i) = inventory[p][i] + Received(p, i)]_tradeVars

\* An answer is final: the slot of an answered offer is only ever taken over
\* by a pending offer with an id the book has not held before.
AnswersAreFinal ==
  [][\A k \in OfferSlots :
       offers[k].status \in Answers =>
         \/ offers'[k] = offers[k]
         \/ offers'[k].status = "PENDING" /\ offers'[k].id \notin Held]_tradeVars

=============================================================================
