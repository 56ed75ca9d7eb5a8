----------------------------- MODULE PartyLedger -----------------------------
(***************************************************************************)
(* What the party registry promises, without slots, handles or sequence    *)
(* numbers.  Parties and memberships have identities that are used once.   *)
(* A membership is in one party for life; it can be offline and come back, *)
(* and when it is over it never comes back.  A party lives exactly as long *)
(* as its leader's membership.  The company that sets out on an activity   *)
(* is made of members online at that moment and only shrinks until the     *)
(* party is home again.                                                    *)
(***************************************************************************)
EXTENDS Integers

CONSTANT Identities        \* of parties and, separately, of memberships

VARIABLES
  roster,                  \* memberships that are not over
  online,                  \* those of them that are connected
  company,                 \* those of them that are out on an activity
  away,                    \* parties out on an activity
  spentParties, spentMembers

ledger == <<roster, online, company, away, spentParties, spentMembers>>

Entry == [party : Identities, member : Identities, leader : BOOLEAN]

OpenParties == {e.party : e \in roster}

Init ==
  /\ roster = {}
  /\ online = {}
  /\ company = {}
  /\ away = {}
  /\ spentParties = {}
  /\ spentMembers = {}

Found(p, m) ==
  /\ p \notin spentParties /\ m \notin spentMembers
  /\ LET e == [party |-> p, member |-> m, leader |-> TRUE]
     IN  roster' = roster \cup {e} /\ online' = online \cup {e}
  /\ spentParties' = spentParties \cup {p}
  /\ spentMembers' = spentMembers \cup {m}
  /\ UNCHANGED <<company, away>>

\* An attempt to found a party that fails uses up an identity and nothing else.
FoundNothing(p) ==
  /\ p \notin spentParties
  /\ spentParties' = spentParties \cup {p}
  /\ UNCHANGED <<roster, online, company, away, spentMembers>>

Enter(p, m) ==
  /\ p \in OpenParties \ away
  /\ m \notin spentMembers
  /\ LET e == [party |-> p, member |-> m, leader |-> FALSE]
     IN  roster' = roster \cup {e} /\ online' = online \cup {e}
  /\ spentMembers' = spentMembers \cup {m}
  /\ UNCHANGED <<company, away, spentParties>>

GoOffline(e) ==
  /\ e \in online
  /\ online' = online \ {e}
  /\ company' = company \ {e}
  /\ UNCHANGED <<roster, away, spentParties, spentMembers>>

ComeBack(e) ==
  /\ e \in roster \ online
  /\ online' = online \cup {e}
  /\ UNCHANGED <<roster, company, away, spentParties, spentMembers>>

Depart(e) ==
  /\ e \in roster /\ ~e.leader
  /\ roster' = roster \ {e}
  /\ online' = online \ {e}
  /\ company' = company \ {e}
  /\ UNCHANGED <<away, spentParties, spentMembers>>

\* The leader leaves or closes the party: everybody's membership is over.
Dissolve(e) ==
  /\ e \in roster /\ e.leader
  /\ LET Stays(f) == f.party # e.party
     IN  /\ roster' = {f \in roster : Stays(f)}
         /\ online' = {f \in online : Stays(f)}
         /\ company' = {f \in company : Stays(f)}
  /\ away' = away \ {e.party}
  /\ UNCHANGED <<spentParties, spentMembers>>

SetOut(e) ==
  /\ e \in online /\ e.leader /\ e.party \notin away
  /\ away' = away \cup {e.party}
  /\ company' = company \cup {f \in online : f.party = e.party}
  /\ UNCHANGED <<roster, online, spentParties, spentMembers>>

ComeHome(p) ==
  /\ p \in away
  /\ away' = away \ {p}
  /\ company' = {f \in company : f.party # p}
  /\ UNCHANGED <<roster, online, spentParties, spentMembers>>

Next ==
  \/ \E p, m \in Identities : Found(p, m) \/ Enter(p, m)
  \/ \E p \in Identities : FoundNothing(p)
  \/ \E e \in roster : GoOffline(e) \/ ComeBack(e) \/ Depart(e) \/ Dissolve(e) \/ SetOut(e)
  \/ \E p \in away : ComeHome(p)

Spec == Init /\ [][Next]_ledger

=============================================================================
