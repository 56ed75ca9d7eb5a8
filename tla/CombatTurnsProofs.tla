-------------------------- MODULE CombatTurnsProofs --------------------------
(***************************************************************************)
(* Proofs about CombatTurns, for any number of clients, monsters and rooms *)
(* and whatever a behaviour may contain.                                   *)
(*                                                                         *)
(* Every call of the host that acts on the fight is one of three things: it *)
(* leaves the turn alone (Quiet), it tells everybody an event of the fight *)
(* (Emitted), or it begins the fight (Started).  The invariants speak of   *)
(* the events on their way to a client, of what it shows, and of its       *)
(* acknowledgements and requests on their way back.                        *)
(***************************************************************************)
EXTENDS CombatTurns, FiniteSetTheorems, SequenceTheorems, TLAPS

-----------------------------------------------------------------------------
(* Types *)

Seat == [who : Players \cup Monsters, room : Rooms]
Left == [move : Nat, moved : BOOLEAN, acted : BOOLEAN]

Fight ==
  [active : BOOLEAN, ending : BOOLEAN, id : {0, 1}, next : Nat, turn : Nat, order : Seq(Seat),
   left : Left, acts : [Clients -> Nat], opening : {None} \cup [who : Players, seq : Nat],
   opener : {None} \cup [who : Players]]

Events ==
  [type : {"BEGIN", "TURN", "RESULT", "END"}, id : {1}, seq : Nat \ {0}, turn : Nat, order : Seq(Seat), no : Nat]
Notes == [type : {"ABILITY"}, seq : Nat] \cup [type : {"ROOM"}, who : Players, room : Rooms]

Acks == [type : {"ACK"}, id : {1}, of : Nat \ {0}]
Requests == [type : {"REQUEST"}, id : Nat, seq : Nat, action : Actions, room : Rooms, no : Nat]
Commands == [type : {"ABILITY"}, seq : Nat]
Doors == [type : {"DOOR"}, room : Rooms]
Leaves == [type : {"LEAVE"}]
UpFrames == Acks \cup Requests \cup Commands \cup Doors \cup Leaves

Views ==
  [on : BOOLEAN, id : Nat, last : Nat, turn : Nat, order : Seq(Seat), no : Nat, acts : Nat]

Tallies == [now : Nat, owing : SUBSET Players, both : Nat]

TypeOK ==
  /\ party \subseteq Clients /\ gone \subseteq Clients
  /\ behind \subseteq Clients /\ lost \subseteq Clients /\ late \subseteq Clients
  /\ place \in [Players -> Rooms]
  /\ combat \in Fight
  /\ pending \in [msg : {None} \cup Events, to : SUBSET Clients, tries : Nat]
  /\ heard \in [Players -> [seq : Nat, ready : BOOLEAN]]
  /\ view \in [Clients -> Views]
  /\ ask \in [Clients -> {None} \cup [seq : Nat, msg : Requests, tries : Nat]]
  /\ cast \in [Clients -> [seq : Nat, waits : BOOLEAN, tries : Nat]]
  /\ up \in [Clients -> Seq(UpFrames)]
  /\ down \in [Clients -> Seq(Events \cup Notes)]
  /\ turnNo \in Nat /\ strikes \in Tallies
  /\ played \in [Clients -> Nat] /\ resolved \in [Clients -> Nat]
  /\ budget \in [party : SUBSET Clients, place : [Players -> Rooms], events : Nat, requests : Nat,
                 casts : Nat, doors : Nat, leaves : Nat, disturbances : Nat]

\* Before the fight nothing of one exists, and whoever has the turn sits in the order.
FightOK ==
  /\ combat.id = 0 => /\ combat.next = 1 /\ ~combat.active /\ ~combat.ending
                      /\ pending.to = {} /\ \A c \in Clients : played[c] = 0
                      /\ strikes.owing = {} /\ strikes.both = 0
  /\ combat.id = 1 => /\ combat.next >= 2 /\ combat.turn \in DOMAIN combat.order
                      /\ combat.ending \/ combat.active
                      /\ turnNo >= 1
                      /\ pending.msg \in Events /\ pending.msg.seq = combat.next - 1
  /\ \A c \in Clients : played[c] <= combat.acts[c]

-----------------------------------------------------------------------------
(* The invariants *)

\* A command is heard after it was given and resolved after it was heard.
Commanded(c) ==
  /\ resolved[c] <= heard[c].seq /\ heard[c].seq <= cast[c].seq
  /\ \A m \in ToSet(up[c]) : m.type = "ABILITY" => m.seq <= cast[c].seq

\* While a player has its standard action it has not struck.  Until the opening spell
\* has taken effect it counts nowhere; whose next turn it counts in is its opener, and
\* the turn is another's.
Struck ==
  combat.active =>
    /\ Current.who \in Players => /\ strikes.now <= IF turnNo = strikes.both THEN 2 ELSE 1
                                  /\ ~combat.left.acted => strikes.now = 0
    /\ combat.opening # None => strikes.owing = {} /\ strikes.both = 0
    /\ \A w \in strikes.owing : combat.opener = [who |-> w] /\ w # Current.who

IsEvent(m) == m.type \notin {"ABILITY", "ROOM"}
Whos(o) == [i \in DOMAIN o |-> o[i].who]
Newest == combat.next - 1
Reached == party \ gone
\* Who need not have acknowledged the newest event.
Owing == pending.to \cup behind \cup lost

\* The newest event tells the turn and the order of the fight.
Announced ==
  combat.id = 1 => /\ pending.msg.turn = combat.turn /\ pending.msg.no = turnNo
                   /\ Whos(pending.msg.order) = Whos(combat.order)

\* Events come in the order of their numbers, none is older than what the client
\* shows, and the newest is the one the host waits for.
InOrderOf(s) ==
  \A i, j \in DOMAIN s : i < j /\ IsEvent(s[i]) /\ IsEvent(s[j]) => s[i].seq <= s[j].seq
Delivered(c) ==
  /\ InOrderOf(down[c])
  /\ \A m \in ToSet(down[c]) : IsEvent(m) =>
       /\ view[c].last <= m.seq /\ m.seq <= Newest
       /\ m.seq = Newest => m = pending.msg

\* A client that shows or has acknowledged the newest event shows the host's turn.
Shown(c) ==
  /\ view[c].last <= Newest
  /\ view[c].on \/ view[c].last > 0 => view[c].id = 1 /\ view[c].last > 0
  /\ combat.id = 1 /\ view[c].last = Newest => view[c].no = turnNo /\ view[c].turn = combat.turn
  /\ combat.id = 1 /\ c \notin Owing => view[c].last = Newest
  /\ \A m \in ToSet(up[c]) : m.type = "ACK" =>
       m.of <= Newest /\ (m.of = Newest => view[c].last = Newest)

\* Who may show an older order: it never acknowledged the last one, or has yet to see it.
Unsure(c) == c \in lost \/ (c \in pending.to /\ pending.msg.type = "BEGIN" /\ view[c].last < Newest)

\* Until the fight ends: who is not unsure shows its order, and no older order
\* can reach it.
Ordered(c) ==
  combat.id = 1 /\ ~combat.ending =>
    /\ view[c].last > 0 => view[c].on
    /\ ~Unsure(c) => view[c].on /\ Whos(view[c].order) = Whos(combat.order)
    /\ view[c].last = Newest /\ pending.msg.type = "BEGIN" => Whos(view[c].order) = Whos(combat.order)
    /\ pending.msg.type # "END"
    /\ \A m \in ToSet(down[c]) : IsEvent(m) =>
         /\ m.type # "END"
         /\ m.type = "BEGIN" => \/ m.seq <= view[c].last \/ Unsure(c)
                                \/ Whos(m.order) = Whos(combat.order)

\* Behind the acknowledgement of the newest event come only requests of this turn.
Timely(c) ==
  /\ ask[c] # None => ask[c].msg.no = view[c].no
  /\ c \notin Owing => \A m \in ToSet(up[c]) : m.type = "REQUEST" => m.no = turnNo
  /\ \A i, j \in DOMAIN up[c] :
       i < j /\ up[c][i].type = "ACK" /\ up[c][j].type = "REQUEST" /\ up[c][i].of = Newest
       => up[c][j].no = turnNo

Sight(c) == Delivered(c) /\ Shown(c) /\ Ordered(c) /\ Timely(c)

IInv ==
  /\ TypeOK /\ FightOK /\ Struck /\ Announced /\ ActedInTime
  /\ \A c \in Clients : Commanded(c)
  /\ \A c \in Reached : Sight(c)

-----------------------------------------------------------------------------
(* Sequences *)

\* t is s with one frame left out: received, or lost.
LeftOut(t, s) ==
  \E k \in DOMAIN s : /\ Len(t) = Len(s) - 1
                      /\ \A i \in DOMAIN t : t[i] = s[IF i < k THEN i ELSE i + 1]

LEMMA TailLeaves ==
  ASSUME NEW S, NEW s \in Seq(S), s # <<>>
  PROVE  Tail(s) \in Seq(S) /\ LeftOut(Tail(s), s) /\ Head(s) \in S /\ Head(s) = s[1] /\ 1 \in DOMAIN s
  BY DEF LeftOut

LEMMA ConcatSet ==
  ASSUME NEW S, NEW s \in Seq(S), NEW t \in Seq(S)
  PROVE  /\ s \o t \in Seq(S) /\ ToSet(s \o t) = ToSet(s) \cup ToSet(t)
         /\ DOMAIN (s \o t) = 1..(Len(s) + Len(t))
         /\ \A i \in 1..(Len(s) + Len(t)) : (s \o t)[i] = IF i <= Len(s) THEN s[i] ELSE t[i - Len(s)]
<1>1. /\ s \o t \in Seq(S) /\ DOMAIN (s \o t) = 1..(Len(s) + Len(t))
      /\ \A i \in 1..(Len(s) + Len(t)) : (s \o t)[i] = IF i <= Len(s) THEN s[i] ELSE t[i - Len(s)]
  OBVIOUS
<1>2. DOMAIN s = 1..Len(s) /\ Len(s) \in Nat /\ DOMAIN t = 1..Len(t) /\ Len(t) \in Nat
  OBVIOUS
<1>3. \A m \in ToSet(s) \cup ToSet(t) : m \in ToSet(s \o t)
  <2> SUFFICES ASSUME NEW m \in ToSet(s) \cup ToSet(t) PROVE m \in ToSet(s \o t)
    OBVIOUS
  <2>1. CASE m \in ToSet(s)
    <3>1. PICK i \in 1..Len(s) : m = s[i]
      BY <2>1, <1>2 DEF ToSet
    <3>2. i \in DOMAIN (s \o t) /\ (s \o t)[i] = m
      BY <3>1, <1>1, <1>2
    <3> QED BY <3>2 DEF ToSet
  <2>2. CASE m \in ToSet(t)
    <3>1. PICK i \in 1..Len(t) : m = t[i]
      BY <2>2, <1>2 DEF ToSet
    <3>2. Len(s) + i \in 1..(Len(s) + Len(t)) /\ ~(Len(s) + i <= Len(s)) /\ Len(s) + i - Len(s) = i
      BY <1>2
    <3>3. Len(s) + i \in DOMAIN (s \o t) /\ (s \o t)[Len(s) + i] = m
      BY <3>1, <3>2, <1>1
    <3> QED BY <3>3 DEF ToSet
  <2> QED BY <2>1, <2>2
<1>4. \A m \in ToSet(s \o t) : m \in ToSet(s) \cup ToSet(t)
  <2> SUFFICES ASSUME NEW i \in 1..(Len(s) + Len(t)) PROVE (s \o t)[i] \in ToSet(s) \cup ToSet(t)
    BY <1>1 DEF ToSet
  <2>1. CASE i <= Len(s)
    <3>1. i \in DOMAIN s
      BY <2>1, <1>2
    <3> QED BY <3>1, <2>1, <1>1 DEF ToSet
  <2>2. CASE ~(i <= Len(s))
    <3>1. i - Len(s) \in DOMAIN t
      BY <2>2, <1>2
    <3> QED BY <3>1, <2>2, <1>1 DEF ToSet
  <2> QED BY <2>1, <2>2
<1> QED BY <1>1, <1>3, <1>4

LEMMA WithoutLeaves ==
  ASSUME NEW S, NEW s \in Seq(S), NEW k \in DOMAIN s
  PROVE  Without(s, k) \in Seq(S) /\ LeftOut(Without(s, k), s)
<1>1. k \in 1..Len(s) /\ Len(s) \in Nat
  OBVIOUS
<1>2. SubSeq(s, 1, k - 1) \in Seq(S) /\ Len(SubSeq(s, 1, k - 1)) = k - 1
      /\ \A i \in 1..(k - 1) : SubSeq(s, 1, k - 1)[i] = s[i]
  BY <1>1
<1>3. SubSeq(s, k + 1, Len(s)) \in Seq(S) /\ Len(SubSeq(s, k + 1, Len(s))) = Len(s) - k
      /\ \A i \in 1..(Len(s) - k) : SubSeq(s, k + 1, Len(s))[i] = s[k + i]
  BY <1>1
<1>4. /\ Without(s, k) \in Seq(S) /\ Len(Without(s, k)) = Len(s) - 1
      /\ \A i \in 1..(Len(s) - 1) :
           Without(s, k)[i] = IF i < k THEN SubSeq(s, 1, k - 1)[i] ELSE SubSeq(s, k + 1, Len(s))[i - (k - 1)]
  <2> DEFINE a == SubSeq(s, 1, k - 1)
             b == SubSeq(s, k + 1, Len(s))
  <2> HIDE DEF a, b
  <2>1. a \in Seq(S) /\ b \in Seq(S) /\ Len(a) = k - 1 /\ Len(b) = Len(s) - k /\ Without(s, k) = a \o b
    BY <1>2, <1>3 DEF a, b, Without
  <2>2. /\ a \o b \in Seq(S) /\ DOMAIN (a \o b) = 1..(Len(a) + Len(b))
        /\ \A i \in 1..(Len(a) + Len(b)) : (a \o b)[i] = IF i <= Len(a) THEN a[i] ELSE b[i - Len(a)]
    BY <2>1, ConcatSet
  <2>3. Len(a \o b) = Len(s) - 1 /\ Len(a) + Len(b) = Len(s) - 1
    BY <2>1, <2>2, <1>1
  <2>4. \A i \in 1..(Len(s) - 1) : i <= Len(a) <=> i < k
    BY <2>1, <1>1
  <2>5. \A i \in 1..(Len(s) - 1) : Without(s, k)[i] = IF i < k THEN a[i] ELSE b[i - (k - 1)]
    BY <2>1, <2>2, <2>3, <2>4
  <2> QED BY <2>1, <2>2, <2>3, <2>5 DEF a, b
<1>5. \A i \in 1..(Len(s) - 1) : Without(s, k)[i] = s[IF i < k THEN i ELSE i + 1]
  <2> SUFFICES ASSUME NEW i \in 1..(Len(s) - 1) PROVE Without(s, k)[i] = s[IF i < k THEN i ELSE i + 1]
    OBVIOUS
  <2>1. CASE i < k
    <3>1. i \in 1..(k - 1)
      BY <2>1, <1>1
    <3> QED BY <3>1, <2>1, <1>4, <1>2
  <2>2. CASE ~(i < k)
    <3>1. i - (k - 1) \in 1..(Len(s) - k) /\ k + (i - (k - 1)) = i + 1
      BY <2>2, <1>1
    <3> QED BY <3>1, <2>2, <1>4, <1>3
  <2> QED BY <2>1, <2>2
<1>6. DOMAIN Without(s, k) = 1..(Len(s) - 1)
  BY <1>4, <1>1
<1> QED BY <1>1, <1>4, <1>5, <1>6 DEF LeftOut

LEMMA LeftOutSet ==
  ASSUME NEW S, NEW s \in Seq(S), NEW t \in Seq(S), LeftOut(t, s)
  PROVE  ToSet(t) \subseteq ToSet(s)
  BY DEF LeftOut, ToSet

\* Two frames of t come from two frames of s in the same order.
LEMMA LeftOutOrder ==
  ASSUME NEW S, NEW s \in Seq(S), NEW t \in Seq(S), LeftOut(t, s),
         NEW i \in DOMAIN t, NEW j \in DOMAIN t, i < j
  PROVE  \E k, l \in DOMAIN s : k < l /\ t[i] = s[k] /\ t[j] = s[l]
<1>1. PICK n \in DOMAIN s : Len(t) = Len(s) - 1 /\ \A x \in DOMAIN t : t[x] = s[IF x < n THEN x ELSE x + 1]
  BY DEF LeftOut
<1> DEFINE f(x) == IF x < n THEN x ELSE x + 1
<1>2. f(i) \in DOMAIN s /\ f(j) \in DOMAIN s /\ f(i) < f(j) /\ t[i] = s[f(i)] /\ t[j] = s[f(j)]
  BY <1>1
<1> QED BY <1>2

LEMMA AppendSet ==
  ASSUME NEW S, NEW s \in Seq(S), NEW x \in S
  PROVE  /\ Append(s, x) \in Seq(S) /\ ToSet(Append(s, x)) = ToSet(s) \cup {x}
         /\ DOMAIN Append(s, x) = 1..(Len(s) + 1) /\ Append(s, x)[Len(s) + 1] = x
         /\ \A i \in DOMAIN s : i \in 1..Len(s) /\ Append(s, x)[i] = s[i]
<1>1. /\ Append(s, x) \in Seq(S)
      /\ DOMAIN Append(s, x) = 1..(Len(s) + 1) /\ Append(s, x)[Len(s) + 1] = x
      /\ \A i \in DOMAIN s : i \in 1..Len(s) /\ Append(s, x)[i] = s[i]
  OBVIOUS
<1>2. DOMAIN s = 1..Len(s) /\ Len(s) \in Nat
  OBVIOUS
<1>3. ToSet(Append(s, x)) = ToSet(s) \cup {x}
  BY <1>1, <1>2 DEF ToSet
<1> QED BY <1>1, <1>3

LEMMA SetOfSeq ==
  ASSUME NEW S, NEW s \in Seq(S), NEW m \in ToSet(s)
  PROVE  m \in S
  BY DEF ToSet

LEMMA SeqWidens ==
  ASSUME NEW S, NEW T, S \subseteq T, NEW s \in Seq(S)
  PROVE  s \in Seq(T)
  OBVIOUS

\* What is enumerated is finite, so an enumeration is a sequence of it.
LEMMA Enumerated ==
  ASSUME NEW S, IsFiniteSet(S), NEW o \in SetToSeqs(S)
  PROVE  o \in Seq(S) /\ (S # {} => 1 \in DOMAIN o)
<1>1. Cardinality(S) \in Nat /\ (S # {} => Cardinality(S) # 0)
  BY FS_CardinalityType, FS_EmptySet
<1>2. o \in [1..Cardinality(S) -> S]
  BY DEF SetToSeqs
<1>3. o \in Seq(S)
  BY <1>1, <1>2
<1> QED BY <1>1, <1>2, <1>3

-----------------------------------------------------------------------------
(* What a call of the host does to the fight *)

\* Frames that are sent: some of E and notes that are no events.
Told(E) == \E t \in [Clients -> Seq(Notes \cup E)] : down' = [c \in Clients |-> down[c] \o t[c]]

\* a: the action numbers afterwards.  The turn and what is left of it aside, c is the
\* fight as it is.
Fits(a, c) ==
  /\ c \in Fight /\ c.id = combat.id /\ c.next = combat.next /\ c.active = combat.active
  /\ c.acts = a /\ c.turn \in DOMAIN c.order /\ (combat.ending => c.ending)
  /\ Whos(c.order) = Whos(combat.order)
\* ... and the turn goes on.
Base(a, c) == Fits(a, c) /\ c.turn = combat.turn /\ (combat.left.acted => c.left.acted)
\* The opening spell has not been resolved, and who owes for it has not paid.
Owes(c) == c.opening = combat.opening /\ c.opener = combat.opener

Quiet(a) ==
  /\ combat' \in Fight /\ combat'.id = combat.id /\ combat'.next = combat.next /\ combat'.acts = a
  /\ combat'.ending = combat.ending
  /\ combat'.active = combat.active \/ (combat.ending /\ ~combat'.active)
  /\ combat'.turn = combat.turn /\ Whos(combat'.order) = Whos(combat.order)
  /\ combat.left.acted => combat'.left.acted
  /\ combat'.opening \in {combat.opening, None} /\ combat'.opener = combat.opener
  /\ pending' = pending /\ turnNo' = turnNo /\ strikes' = strikes /\ Told({})

Sent(a) ==
  /\ combat.active /\ pending.to = {}
  /\ combat' \in Fight /\ combat'.id = combat.id /\ combat'.next = combat.next + 1
  /\ combat'.active = combat.active /\ combat'.acts = a
  /\ combat'.turn \in DOMAIN combat'.order /\ (combat.ending => combat'.ending)
  /\ pending' \in [msg : Events, to : {party}, tries : {0}]
  /\ pending'.msg.seq = combat.next /\ pending'.msg.turn = combat'.turn /\ pending'.msg.no = turnNo'
  /\ Whos(pending'.msg.order) = Whos(combat'.order)
  /\ pending'.msg.type = "END" => combat'.ending
  /\ pending'.msg.type # "BEGIN" => Whos(combat'.order) = Whos(combat.order)
  /\ Told({pending'.msg})

Goes == combat'.order[combat'.turn].who = Current.who /\ (combat.left.acted => combat'.left.acted)
\* A turn that goes on, a strike in it, a turn that begins, the opening spell.
GoesOn == turnNo' = turnNo /\ Goes /\ Owes(combat') /\ UNCHANGED <<strikes>>
Struggles ==
  /\ turnNo' = turnNo /\ Goes /\ Owes(combat') /\ strikes' = [strikes EXCEPT !.now = @ + 1]
  /\ Current.who \in Players => ~combat.left.acted /\ combat'.left.acted
Begins ==
  LET w == combat'.order[combat'.turn].who
  IN /\ turnNo' = turnNo + 1 /\ combat'.opening = combat.opening
     /\ combat'.opener = combat.opener \/ combat.opener = [who |-> w]
     /\ combat.opener = [who |-> w] /\ w # Current.who => combat'.left.acted
     /\ strikes' = [strikes EXCEPT !.now = IF w \in strikes.owing THEN 1 ELSE 0, !.owing = @ \ {w}]
Opens ==
  LET p == combat.opening.who
  IN /\ turnNo' = turnNo /\ Goes /\ combat.opening # None /\ combat'.opening = None /\ Opened(p)
     /\ p = Current.who => combat'.left.acted
     /\ p # Current.who => combat'.opener = [who |-> p]
Scored == strikes' \in Tallies /\ turnNo' \in Nat /\ (GoesOn \/ Struggles \/ Begins \/ Opens)
Emitted(a) == Sent(a) /\ Scored
HostStep(a) == Quiet(a) \/ Emitted(a)

\* The fight that begins: all that was is forgotten.
Started ==
  /\ combat.id = 0 /\ pending.to = {}
  /\ combat' \in Fight /\ combat'.id = 1 /\ combat'.next = 2 /\ combat'.active /\ ~combat'.ending
  /\ combat'.acts = [c \in Clients |-> 0] /\ combat'.turn \in DOMAIN combat'.order
  /\ pending' \in [msg : Events, to : {party}, tries : {0}]
  /\ pending'.msg.seq = 1 /\ pending'.msg.turn = combat'.turn /\ pending'.msg.no = turnNo'
  /\ Whos(pending'.msg.order) = Whos(combat'.order) /\ pending'.msg.type = "BEGIN"
  /\ turnNo' = turnNo + 1 /\ strikes' = [now |-> 0, owing |-> {}, both |-> 0]
  /\ behind' = {} /\ lost' = {} /\ turnNo \in Nat
  /\ Told({pending'.msg})

Ready == TypeOK /\ FightOK
Kinds == {"BEGIN", "TURN", "RESULT", "END"}

LEMMA NothingTold ==
  Nothing \in [Clients -> Seq(Notes)]
  BY DEF Nothing

LEMMA WhosOf ==
  ASSUME NEW o, NEW q, Whos(o) = Whos(q)
  PROVE  DOMAIN o = DOMAIN q /\ \A i \in DOMAIN o : o[i].who = q[i].who
<1>1. DOMAIN Whos(o) = DOMAIN o /\ DOMAIN Whos(q) = DOMAIN q
  BY DEF Whos
<1>2. \A i \in DOMAIN o : Whos(o)[i] = o[i].who
  BY DEF Whos
<1>3. \A i \in DOMAIN q : Whos(q)[i] = q[i].who
  BY DEF Whos
<1> QED BY <1>1, <1>2, <1>3

LEMMA SameSeat ==
  ASSUME Ready, combat.id = 1, NEW a, NEW c, Base(a, c)
  PROVE  c.order[c.turn].who = Current.who
  BY WhosOf DEF Ready, FightOK, Base, Fits, Current

\* The state of a fight without what the lemmas speak of.
\* The next turn, and who has paid for the opening spell when it begins.
Next1(c, e) ==
  LET w == e.order[e.turn].who
  IN \/ e = c
     \/ /\ e.opening = c.opening /\ (e.opener = c.opener \/ c.opener = [who |-> w])
        /\ c.opener = [who |-> w] => e.left.acted

LEMMA NextTurnFits ==
  ASSUME NEW a, NEW c, Fits(a, c), NEW living
  PROVE  Fits(a, NextTurn(c, living)) /\ Next1(c, NextTurn(c, living))
<1> DEFINE n == Len(c.order)
           seat(k) == ((c.turn - 1 + k) % n) + 1
           steps == {k \in 1..n : /\ c.order[seat(k)].who \in living
                                  /\ \A j \in 1..(k - 1) : c.order[seat(j)].who \notin living}
           i == seat(CHOOSE k \in steps : TRUE)
           pays == c.opener = [who |-> c.order[i].who]
           d == [c EXCEPT !.turn = i, !.left = [FreshTurn EXCEPT !.acted = pays],
                          !.opener = IF pays THEN None ELSE @]
<1>1. NextTurn(c, living) = IF steps = {} THEN c ELSE d
  BY DEF NextTurn
<1>2. CASE steps = {}
  BY <1>1, <1>2 DEF Next1
<1>3. CASE steps # {}
  <2>1. n \in Nat /\ c.turn \in Nat /\ DOMAIN c.order = 1..n /\ c.order \in Seq(Seat)
    BY DEF Fits, Fight
  <2>2. PICK k \in steps : k = CHOOSE x \in steps : TRUE
    BY <1>3
  <2>s. steps \subseteq 1..n
    OBVIOUS
  <2>3. k \in 1..n /\ n \in Nat \ {0} /\ c.turn - 1 + k \in Int
    <3> HIDE DEF steps, n, seat, i, d
    <3>1. k \in 1..n
      BY <2>s
    <3>2. \A x, y \in Nat : \A z \in 1..y : y \in Nat \ {0} /\ x - 1 + z \in Int
      OBVIOUS
    <3> QED BY <2>1, <3>1, <3>2
  <2>4. (c.turn - 1 + k) % n \in 0..(n - 1)
    <3>1. \A x \in Int, y \in Nat \ {0} : x % y \in 0..(y - 1)
      OBVIOUS
    <3> HIDE DEF n, steps
    <3> QED BY <3>1, <2>3
  <2>5. i \in DOMAIN c.order /\ i \in Nat
    <3>1. i = ((c.turn - 1 + k) % n) + 1
      BY <2>2
    <3> HIDE DEF i, n
    <3> QED BY <3>1, <2>3, <2>4, <2>1
  <2> HIDE DEF i, steps, n
  <2>6. [FreshTurn EXCEPT !.acted = pays] \in Left
    <3>1. FreshTurn \in Left
      BY CombatTurnsAssumption DEF FreshTurn, Left
    <3>2. pays \in BOOLEAN
      OBVIOUS
    <3> HIDE DEF pays
    <3> QED BY <3>1, <3>2 DEF Left
  <2> HIDE DEF pays
  <2>7. c \in Fight
    BY DEF Fits
  <2>8. d \in Fight /\ d.id = c.id /\ d.next = c.next /\ d.active = c.active /\ d.acts = c.acts
        /\ d.turn = i /\ d.order = c.order /\ d.ending = c.ending
    BY <2>5, <2>6, <2>7 DEF Fight
  <2>9. Fits(a, d)
    BY <2>5, <2>8 DEF Fits
  <2>10. Next1(c, d)
    <3>1. /\ d.opening = c.opening /\ d.opener = IF pays THEN None ELSE c.opener
          /\ d.left = [FreshTurn EXCEPT !.acted = pays]
      BY <2>7 DEF Fight
    <3>2. [FreshTurn EXCEPT !.acted = pays].acted = pays
      BY DEF FreshTurn
    <3>3. pays <=> c.opener = [who |-> d.order[d.turn].who]
      BY <2>8 DEF pays
    <3> HIDE DEF d
    <3> QED BY <3>1, <3>2, <3>3 DEF Next1
  <2> QED BY <2>9, <2>10, <1>1, <1>3
<1> QED BY <1>2, <1>3

LEMMA EventTold ==
  ASSUME TypeOK, NEW e, NEW more \in [Clients -> Seq(Notes)],
         down' = [x \in Clients |-> down[x] \o (IF x \in party THEN <<e>> ELSE <<>>) \o more[x]]
  PROVE  Told({e})
<1> DEFINE t == [x \in Clients |-> (IF x \in party THEN <<e>> ELSE <<>>) \o more[x]]
<1>1. t \in [Clients -> Seq(Notes \cup {e})]
  <2>1. \A x \in Clients : t[x] \in Seq(Notes \cup {e})
    <3> TAKE x \in Clients
    <3>1. \A S : e \in S => (IF x \in party THEN <<e>> ELSE <<>>) \in Seq(S)
      OBVIOUS
    <3>2. more[x] \in Seq(Notes \cup {e})
      BY SeqWidens
    <3> HIDE DEF t
    <3>3. t[x] = (IF x \in party THEN <<e>> ELSE <<>>) \o more[x]
      BY DEF t
    <3>4. (IF x \in party THEN <<e>> ELSE <<>>) \in Seq(Notes \cup {e})
      BY <3>1
    <3> QED BY <3>2, <3>3, <3>4, ConcatProperties
  <2> QED BY <2>1
<1>3. \A x \in Clients : down'[x] = down[x] \o t[x]
  <2> TAKE x \in Clients
  <2> DEFINE f == IF x \in party THEN <<e>> ELSE <<>>
  <2>1. down'[x] = down[x] \o f \o more[x] /\ t[x] = f \o more[x]
    OBVIOUS
  <2>2. /\ down[x] \in Seq(Events \cup Notes \cup {e}) /\ f \in Seq(Events \cup Notes \cup {e})
        /\ more[x] \in Seq(Events \cup Notes \cup {e})
    <3>1. down[x] \in Seq(Events \cup Notes) /\ more[x] \in Seq(Notes)
      BY DEF TypeOK
    <3>2. \A S : e \in S => f \in Seq(S)
      OBVIOUS
    <3> QED BY <3>1, <3>2, SeqWidens
  <2> HIDE DEF f, t
  <2>3. \A S, u, v, w : u \in Seq(S) /\ v \in Seq(S) /\ w \in Seq(S) => (u \o v) \o w = u \o (v \o w)
    BY ConcatAssociative
  <2>4. (down[x] \o f) \o more[x] = down[x] \o (f \o more[x])
    <3> DEFINE S == Events \cup Notes \cup {e}
    <3>1. down[x] \in Seq(S) /\ f \in Seq(S) /\ more[x] \in Seq(S)
      BY <2>2
    <3> HIDE DEF S
    <3>2. \A u \in Seq(S), v \in Seq(S), w \in Seq(S) : (u \o v) \o w = u \o (v \o w)
      BY <2>3
    <3> QED BY <3>1, <3>2, Zenon
  <2> QED BY <2>1, <2>4
<1>4. down' = [x \in Clients |-> down[x] \o t[x]]
  <2> HIDE DEF t
  <2> QED BY <1>3
<1> HIDE DEF t
<1> QED BY <1>1, <1>4 DEF Told

LEMMA Emission ==
  ASSUME NEW d, NEW type \in Kinds, NEW no \in Nat, NEW more \in [Clients -> Seq(Notes)],
         TypeOK, d \in Fight, d.id = 1, d.next >= 1, Emit(d, type, no, more)
  PROVE  /\ combat' \in Fight /\ combat'.next = d.next + 1 /\ turnNo' = no
         /\ combat'.id = d.id /\ combat'.active = d.active /\ combat'.ending = d.ending
         /\ combat'.acts = d.acts /\ combat'.turn = d.turn /\ combat'.order = d.order
         /\ combat'.left = d.left /\ combat'.opening = d.opening /\ combat'.opener = d.opener
         /\ pending' = [msg |-> Event(d, type, no), to |-> party, tries |-> 0]
         /\ Event(d, type, no) \in Events /\ Told({Event(d, type, no)})
<1>1. Event(d, type, no) \in Events
  BY DEF Event, Events, Fight, Kinds
<1>2. /\ combat' = [d EXCEPT !.next = @ + 1] /\ turnNo' = no
      /\ pending' = [msg |-> Event(d, type, no), to |-> party, tries |-> 0]
  BY DEF Emit
<1>3. /\ combat' \in Fight /\ combat'.next = d.next + 1 
      /\ combat'.id = d.id /\ combat'.active = d.active /\ combat'.ending = d.ending
      /\ combat'.acts = d.acts /\ combat'.turn = d.turn /\ combat'.order = d.order
      /\ combat'.left = d.left /\ combat'.opening = d.opening /\ combat'.opener = d.opener
  <2>1. [d EXCEPT !.next = @ + 1] \in Fight
    <3>1. d.next \in Nat /\ d.next + 1 \in Nat
      BY DEF Fight
    <3> QED BY <3>1 DEF Fight
  <2> QED BY <1>2, <2>1 DEF Fight
<1>4. Told({Event(d, type, no)})
  BY EventTold DEF Emit
<1> QED BY <1>1, <1>2, <1>3, <1>4

LEMMA ActiveFight ==
  ASSUME Ready, combat.active
  PROVE  combat.id = 1 /\ combat.turn \in DOMAIN combat.order /\ pending.msg \in Events
         /\ pending.msg.seq = combat.next - 1 /\ combat.next \in Nat /\ combat.next >= 2
  BY DEF Ready, FightOK, TypeOK, Fight

LEMMA SentBy ==
  ASSUME Ready, combat.active, pending.to = {}, NEW a, NEW d, Fits(a, d),
         NEW type \in {"TURN", "RESULT", "END"}, type = "END" => d.ending,
         NEW no \in Nat, NEW more \in [Clients -> Seq(Notes)], Emit(d, type, no, more)
  PROVE  /\ Sent(a) /\ turnNo' = no /\ combat'.turn = d.turn /\ combat'.order = d.order /\ combat'.left = d.left
         /\ combat'.opening = d.opening /\ combat'.opener = d.opener
<1>1. type \in Kinds /\ d \in Fight /\ d.id = 1 /\ d.next >= 1 /\ TypeOK
  BY ActiveFight DEF Kinds, Fits, Ready
<1>2. /\ combat' \in Fight /\ combat'.next = d.next + 1 /\ turnNo' = no
      /\ combat'.id = d.id /\ combat'.active = d.active /\ combat'.ending = d.ending
      /\ combat'.acts = d.acts /\ combat'.turn = d.turn /\ combat'.order = d.order
      /\ combat'.left = d.left /\ combat'.opening = d.opening /\ combat'.opener = d.opener
      /\ pending' = [msg |-> Event(d, type, no), to |-> party, tries |-> 0]
      /\ Event(d, type, no) \in Events /\ Told({Event(d, type, no)})
  BY <1>1, Emission
<1>3. pending'.msg = Event(d, type, no) /\ pending' \in [msg : Events, to : {party}, tries : {0}]
  BY <1>2
<1>4. Event(d, type, no).seq = d.next /\ Event(d, type, no).turn = d.turn /\ Event(d, type, no).no = no
      /\ Event(d, type, no).order = d.order /\ Event(d, type, no).type = type
  BY DEF Event
<1>5. Told({pending'.msg})
  BY <1>2, <1>3
<1> QED BY <1>2, <1>3, <1>4, <1>5 DEF Sent, Fits

\* n standard actions while the turn goes on; that of a player is its first.
LEMMA ScoreGoes ==
  ASSUME Ready, combat.active, NEW a, NEW d, Base(a, d), Owes(d), turnNo' = turnNo, NEW n \in {0, 1}, Strikes(n),
         combat'.turn = d.turn, combat'.order = d.order, combat'.left = d.left,
         combat'.opening = d.opening, combat'.opener = d.opener,
         n = 1 => d.left.acted /\ (Current.who \in Players => ~combat.left.acted)
  PROVE  Scored
<1>1. turnNo \in Nat /\ strikes \in Tallies /\ strikes' = [strikes EXCEPT !.now = @ + n]
  BY DEF Ready, TypeOK, Strikes
<1>2. Goes /\ Owes(combat')
  BY SameSeat, ActiveFight DEF Goes, Base, Owes
<1>3. strikes' \in Tallies /\ (n = 0 => strikes' = strikes)
  <2>1. strikes.now \in Nat /\ strikes.now + n \in Nat
    BY <1>1 DEF Tallies
  <2> QED BY <1>1, <2>1 DEF Tallies
<1>4. CASE n = 0
  BY <1>1, <1>2, <1>3, <1>4 DEF Scored, GoesOn
<1>5. CASE n = 1
  BY <1>1, <1>2, <1>3, <1>5 DEF Scored, Struggles
<1> QED BY <1>4, <1>5

\* The turn passes on.
LEMMA ScoreTurns ==
  ASSUME Ready, NEW c, Owes(c), NEW e, Next1(c, e), c.order[c.turn].who = Current.who,
         combat'.turn = e.turn, combat'.order = e.order, combat'.left = e.left,
         combat'.opening = e.opening, combat'.opener = e.opener,
         turnNo' = turnNo + 1, NEW n \in {0, 1}, Strikes(n)
  PROVE  Scored
<1>1. turnNo \in Nat /\ turnNo' \in Nat /\ strikes \in Tallies
  BY DEF Ready, TypeOK
<1> DEFINE w == combat'.order[combat'.turn].who
<1>2. strikes' = [strikes EXCEPT !.now = IF w \in strikes.owing THEN 1 ELSE 0, !.owing = @ \ {w}]
  BY <1>1 DEF Strikes
<1>3. strikes' \in Tallies
  BY <1>1, <1>2 DEF Tallies
<1>4. /\ combat'.opening = combat.opening
      /\ combat'.opener = combat.opener \/ combat.opener = [who |-> w]
      /\ combat.opener = [who |-> w] /\ w # Current.who => combat'.left.acted
  BY DEF Next1, Owes
<1>5. Begins
  BY <1>2, <1>4 DEF Begins
<1> QED BY <1>1, <1>3, <1>5 DEF Scored

LEMMA ResultSends ==
  ASSUME Ready, combat.active, pending.to = {}, NEW a, NEW d, Base(a, d), Owes(d),
         NEW type \in {"RESULT", "END"}, type = "END" => d.ending,
         NEW more \in [Clients -> Seq(Notes)], Emit(d, type, turnNo, more),
         NEW n \in {0, 1}, Strikes(n), n = 1 => d.left.acted /\ (Current.who \in Players => ~combat.left.acted)
  PROVE  Emitted(a)
<1>1. turnNo \in Nat /\ Fits(a, d) /\ type \in {"TURN", "RESULT", "END"}
  BY DEF Ready, TypeOK, Base
<1>2. /\ Sent(a) /\ turnNo' = turnNo /\ combat'.turn = d.turn /\ combat'.order = d.order /\ combat'.left = d.left
      /\ combat'.opening = d.opening /\ combat'.opener = d.opener
  BY <1>1, SentBy
<1>3. Scored
  BY <1>2, ScoreGoes
<1> QED BY <1>2, <1>3 DEF Emitted

LEMMA TurnSends ==
  ASSUME Ready, combat.active, pending.to = {}, NEW a, NEW c, Base(a, c), Owes(c), NEW living,
         NEW type \in {"RESULT", "TURN"}, Emit(NextTurn(c, living), type, turnNo + 1, Nothing),
         NEW n \in {0, 1}, Strikes(n)
  PROVE  Emitted(a)
<1> DEFINE e == NextTurn(c, living)
<1>1. turnNo + 1 \in Nat /\ Fits(a, e) /\ Next1(c, e) /\ type \in {"TURN", "RESULT", "END"}
  BY NextTurnFits DEF Ready, TypeOK, Base
<1> HIDE DEF e
<1>2. /\ Sent(a) /\ turnNo' = turnNo + 1 /\ combat'.turn = e.turn /\ combat'.order = e.order
      /\ combat'.left = e.left /\ combat'.opening = e.opening /\ combat'.opener = e.opener
  <2>1. Emit(e, type, turnNo + 1, Nothing)
    BY DEF e
  <2> QED BY <1>1, <2>1, SentBy, NothingTold
<1>4. c.order[c.turn].who = Current.who
  BY SameSeat, ActiveFight
<1>3. Scored
  BY <1>1, <1>2, <1>4, ScoreTurns
<1> QED BY <1>2, <1>3 DEF Emitted

LEMMA ActedFits ==
  ASSUME NEW a, NEW c, Base(a, c)
  PROVE  /\ Owes(c) => Owes([c EXCEPT !.left.acted = TRUE]) /\ Owes([c EXCEPT !.ending = TRUE])
         /\ Base(a, [c EXCEPT !.left.acted = TRUE]) /\ [c EXCEPT !.left.acted = TRUE].left.acted
         /\ Base(a, [c EXCEPT !.ending = TRUE]) /\ [c EXCEPT !.ending = TRUE].ending
         /\ [c EXCEPT !.ending = TRUE].left = c.left
<1>1. c \in Fight /\ c.left \in Left
  BY DEF Base, Fits, Fight
<1>2. [c.left EXCEPT !.acted = TRUE] \in Left /\ [c.left EXCEPT !.acted = TRUE].acted
  BY <1>1 DEF Left
<1>3. [c EXCEPT !.left.acted = TRUE] \in Fight /\ [c EXCEPT !.left.acted = TRUE].left.acted
  BY <1>1, <1>2 DEF Fight
<1>4. [c EXCEPT !.ending = TRUE] \in Fight /\ [c EXCEPT !.ending = TRUE].ending
      /\ [c EXCEPT !.ending = TRUE].left = c.left
  BY <1>1 DEF Fight
<1>5. Base(a, [c EXCEPT !.left.acted = TRUE])
  BY <1>1, <1>3 DEF Base, Fits, Fight
<1>6. Base(a, [c EXCEPT !.ending = TRUE])
  BY <1>1, <1>4 DEF Base, Fits, Fight
<1>7. Owes(c) => Owes([c EXCEPT !.left.acted = TRUE]) /\ Owes([c EXCEPT !.ending = TRUE])
  BY <1>1 DEF Owes, Fight
<1> QED BY <1>3, <1>4, <1>5, <1>6, <1>7

LEMMA StandardSends ==
  ASSUME Ready, combat.active, pending.to = {}, NEW a, NEW c, Base(a, c), Owes(c),
         NEW living, Standard(c, living), Strikes(1), Current.who \in Players => ~combat.left.acted
  PROVE  Emitted(a)
<1> DEFINE d == [c EXCEPT !.left.acted = TRUE]
<1>1. Base(a, d) /\ d.left.acted /\ Owes(d)
  BY ActedFits
<1>2. Base(a, [d EXCEPT !.ending = TRUE]) /\ Owes([d EXCEPT !.ending = TRUE]) /\ [d EXCEPT !.ending = TRUE].ending
      /\ [d EXCEPT !.ending = TRUE].left.acted
  <2> HIDE DEF d
  <2> QED BY <1>1, ActedFits
<1>3. \/ Emit([d EXCEPT !.ending = TRUE], "END", turnNo, Nothing)
      \/ Emit(NextTurn(d, living \cap Living), "RESULT", turnNo + 1, Nothing)
      \/ Emit(d, "RESULT", turnNo, Nothing)
  BY DEF Standard
<1> HIDE DEF d
<1>4. CASE Emit([d EXCEPT !.ending = TRUE], "END", turnNo, Nothing)
  BY <1>2, <1>4, ResultSends, NothingTold
<1>5. CASE Emit(NextTurn(d, living \cap Living), "RESULT", turnNo + 1, Nothing)
  BY <1>1, <1>5, TurnSends
<1>6. CASE Emit(d, "RESULT", turnNo, Nothing)
  BY <1>1, <1>6, ResultSends, NothingTold
<1> QED BY <1>3, <1>4, <1>5, <1>6

LEMMA AdvanceSends ==
  ASSUME Ready, combat.active, pending.to = {}, NEW a, NEW c, Base(a, c), Owes(c), Advance(c), Strikes(0)
  PROVE  Emitted(a)
  BY TurnSends DEF Advance

-----------------------------------------------------------------------------
(* Orders that are drawn *)

LEMMA FiniteImage ==
  ASSUME NEW S, IsFiniteSet(S), NEW f, S \subseteq DOMAIN f
  PROVE  IsFiniteSet({f[x] : x \in S})
<1> DEFINE T == {f[x] : x \in S}
           g == [x \in S |-> f[x]]
<1>1. g \in [S -> T] /\ \A y \in T : \E x \in S : g[x] = y
  OBVIOUS
<1>2. g \in Surjection(S, T)
  BY <1>1 DEF Surjection
<1> HIDE DEF g, T
<1>3. IsFiniteSet(T)
  BY <1>2, FS_Surjection
<1> QED BY <1>3 DEF T

LEMMA SeatsFinite ==
  ASSUME NEW r \in Rooms, NEW ws, ws \subseteq Monsters
  PROVE  IsFiniteSet(Seats(ws, r)) /\ Seats(ws, r) \subseteq Seat
<1>1. IsFiniteSet(ws)
  BY CombatTurnsAssumption, FS_Subset
<1> DEFINE f == [w \in ws |-> [who |-> w, room |-> r]]
<1>2. Seats(ws, r) = {f[w] : w \in ws} /\ ws \subseteq DOMAIN f
  BY DEF Seats
<1>3. IsFiniteSet({f[w] : w \in ws})
  <2> HIDE DEF f
  <2> QED BY <1>1, <1>2, FiniteImage
<1> QED BY <1>2, <1>3 DEF Seats, Seat

LEMMA ReinforcedFits ==
  ASSUME NEW c \in Fight, c.turn \in DOMAIN c.order, NEW r \in Rooms, NEW e \in Reinforced(c, r)
  PROVE  /\ e \in Fight /\ e.id = c.id /\ e.next = c.next /\ e.active = c.active /\ e.ending = c.ending
         /\ e.acts = c.acts /\ e.turn = c.turn /\ e.left = c.left
         /\ e.opening = c.opening /\ e.opener = c.opener
         /\ e.turn \in DOMAIN e.order /\ e.order[e.turn] = c.order[c.turn]
<1> DEFINE later == (c.turn + 1)..Len(c.order)
           future == {c.order[i] : i \in later}
           new == Seats(Here(r) \ InOrder(c), r)
<1>1. PICK o \in SetToSeqs(future \cup new) : e = [c EXCEPT !.order = SubSeq(c.order, 1, c.turn) \o o]
  BY DEF Reinforced
<1>2. c.order \in Seq(Seat) /\ c.turn \in 1..Len(c.order) /\ Len(c.order) \in Nat /\ c.turn \in Nat
  BY DEF Fight
<1>3. IsFiniteSet(future) /\ future \subseteq Seat
  <2>1. later \subseteq DOMAIN c.order
    BY <1>2
  <2>2. IsFiniteSet(later)
    BY <1>2, FS_Interval
  <2>3. \A i \in later : c.order[i] \in Seat
    BY <2>1, <1>2
  <2> HIDE DEF later
  <2> QED BY <2>1, <2>2, <2>3, FiniteImage
<1>4. IsFiniteSet(new) /\ new \subseteq Seat
  <2>1. Here(r) \ InOrder(c) \subseteq Monsters
    BY DEF Here
  <2> QED BY <2>1, SeatsFinite
<1> HIDE DEF later, future, new
<1>5. o \in Seq(Seat)
  <2>1. IsFiniteSet(future \cup new) /\ future \cup new \subseteq Seat
    BY <1>3, <1>4, FS_Union
  <2>2. o \in Seq(future \cup new)
    BY <2>1, Enumerated
  <2> QED BY <2>1, <2>2, SeqWidens
<1> DEFINE p == SubSeq(c.order, 1, c.turn)
<1>6. p \in Seq(Seat) /\ Len(p) = c.turn /\ p[c.turn] = c.order[c.turn]
  BY <1>2
<1> HIDE DEF p
<1>7. /\ p \o o \in Seq(Seat) /\ c.turn \in DOMAIN (p \o o) /\ (p \o o)[c.turn] = c.order[c.turn]
  <2>1. /\ p \o o \in Seq(Seat) /\ DOMAIN (p \o o) = 1..(Len(p) + Len(o))
        /\ \A i \in 1..(Len(p) + Len(o)) : (p \o o)[i] = IF i <= Len(p) THEN p[i] ELSE o[i - Len(p)]
    BY <1>5, <1>6, ConcatSet
  <2>2. c.turn \in 1..(Len(p) + Len(o)) /\ c.turn <= Len(p)
    <3>1. Len(o) \in Nat
      BY <1>5
    <3> QED BY <1>2, <1>6, <3>1
  <2> QED BY <2>1, <2>2, <1>6
<1>8. e = [c EXCEPT !.order = p \o o]
  BY <1>1 DEF p
<1> QED BY <1>7, <1>8 DEF Fight

LEMMA BegunFits ==
  ASSUME Ready, combat.id = 0, NEW r \in Rooms, Here(r) # {}, NEW e \in Begun(r)
  PROVE  /\ e \in Fight /\ e.id = 1 /\ e.next = 1 /\ e.active /\ ~e.ending
         /\ e.acts = [c \in Clients |-> 0] /\ e.turn \in DOMAIN e.order
<1> DEFINE ps == Players \cap Living
           mine == {[who |-> p, room |-> place[p]] : p \in ps}
           new == Seats(Here(r), r)
<1>1. PICK o \in SetToSeqs(mine \cup new) :
        e = [NoCombat EXCEPT !.active = TRUE, !.id = combat.id + 1, !.order = o, !.left = FreshTurn]
  BY DEF Begun
<1>2. IsFiniteSet(mine) /\ mine \subseteq Seat
  <2> DEFINE f == [p \in ps |-> [who |-> p, room |-> place[p]]]
  <2>1. mine = {f[p] : p \in ps} /\ ps \subseteq DOMAIN f
    OBVIOUS
  <2>2. IsFiniteSet(ps)
    BY CombatTurnsAssumption, FS_AddElement, FS_Subset DEF Players
  <2>3. IsFiniteSet({f[p] : p \in ps})
    <3> HIDE DEF f, ps
    <3> QED BY <2>1, <2>2, FiniteImage
  <2>4. \A p \in ps : [who |-> p, room |-> place[p]] \in Seat
    BY DEF Seat, Ready, TypeOK
  <2> HIDE DEF f, ps
  <2> QED BY <2>1, <2>3, <2>4
<1>3. IsFiniteSet(new) /\ new \subseteq Seat /\ new # {}
  <2>1. Here(r) \subseteq Monsters
    BY DEF Here
  <2>2. IsFiniteSet(new) /\ new \subseteq Seat
    BY <2>1, SeatsFinite
  <2> QED BY <2>2 DEF Seats
<1> HIDE DEF mine, new
<1>4. o \in Seq(Seat) /\ 1 \in DOMAIN o
  <2>1. IsFiniteSet(mine \cup new) /\ mine \cup new \subseteq Seat /\ mine \cup new # {}
    BY <1>2, <1>3, FS_Union
  <2>2. o \in Seq(mine \cup new) /\ 1 \in DOMAIN o
    BY <2>1, Enumerated
  <2> QED BY <2>1, <2>2, SeqWidens
<1>5. FreshTurn \in Left /\ EmptyTurn \in Left
  BY CombatTurnsAssumption DEF FreshTurn, EmptyTurn, Left
<1>6. NoCombat \in Fight /\ NoCombat.next = 1 /\ ~NoCombat.ending /\ NoCombat.turn = 1
      /\ NoCombat.acts = [c \in Clients |-> 0]
  BY <1>5 DEF NoCombat, Fight
<1>7. e = [NoCombat EXCEPT !.active = TRUE, !.id = 1, !.order = o, !.left = FreshTurn]
  BY <1>1
<1> HIDE DEF ps
<1> QED BY <1>4, <1>5, <1>6, <1>7 DEF Fight

LEMMA StartBegins ==
  ASSUME Ready, NEW r \in Rooms, NEW opening \in {None} \cup [who : Players, seq : Nat],
         StartCombat(r, opening)
  PROVE  Started
<1>1. /\ combat.id = 0 /\ Here(r) # {} /\ behind' = {} /\ lost' = {} /\ Strikes(0) /\ pending.to = {}
      /\ strikes.owing = {} /\ strikes.both = 0
  BY DEF StartCombat, Ready, FightOK
<1>2. PICK c \in Begun(r) : Emit([c EXCEPT !.opening = opening], "BEGIN", turnNo + 1, Nothing)
  BY DEF StartCombat
<1>3. /\ c \in Fight /\ c.id = 1 /\ c.next = 1 /\ c.active /\ ~c.ending
      /\ c.acts = [x \in Clients |-> 0] /\ c.turn \in DOMAIN c.order
  BY <1>1, BegunFits
<1> DEFINE d == [c EXCEPT !.opening = opening]
<1>4. /\ d \in Fight /\ d.id = 1 /\ d.next = 1 /\ d.active /\ ~d.ending
      /\ d.acts = [x \in Clients |-> 0] /\ d.turn \in DOMAIN d.order
  BY <1>3 DEF Fight
<1>a. turnNo \in Nat /\ turnNo + 1 \in Nat /\ TypeOK
  <2>1. TypeOK
    BY DEF Ready
  <2>2. turnNo \in Nat
    BY <2>1 DEF TypeOK
  <2> QED BY <2>1, <2>2
<1>5. Emit(d, "BEGIN", turnNo + 1, Nothing) /\ "BEGIN" \in Kinds
  BY <1>2 DEF Kinds
<1> HIDE DEF d
<1>6. /\ combat' \in Fight /\ combat'.next = d.next + 1 /\ turnNo' = turnNo + 1
      /\ combat'.id = d.id /\ combat'.active = d.active /\ combat'.ending = d.ending
      /\ combat'.acts = d.acts /\ combat'.turn = d.turn /\ combat'.order = d.order
      /\ pending' = [msg |-> Event(d, "BEGIN", turnNo + 1), to |-> party, tries |-> 0]
      /\ Event(d, "BEGIN", turnNo + 1) \in Events /\ Told({Event(d, "BEGIN", turnNo + 1)})
  <2>1. d.next >= 1
    BY <1>4
  <2> QED BY <1>4, <1>5, <1>a, <2>1, NothingTold, Emission
<1>7. pending'.msg = Event(d, "BEGIN", turnNo + 1) /\ pending' \in [msg : Events, to : {party}, tries : {0}]
  BY <1>6
<1>8. /\ pending'.msg.seq = 1 /\ pending'.msg.turn = combat'.turn /\ pending'.msg.no = turnNo'
      /\ Whos(pending'.msg.order) = Whos(combat'.order) /\ pending'.msg.type = "BEGIN"
  BY <1>4, <1>6, <1>7 DEF Event
<1>9. strikes' = [now |-> 0, owing |-> {}, both |-> 0]
  <2>1. strikes \in Tallies /\ turnNo' # turnNo
    BY <1>a, <1>6 DEF TypeOK
  <2> QED BY <1>1, <2>1 DEF Strikes, Tallies
<1> QED BY <1>1, <1>a, <1>4, <1>6, <1>7, <1>8, <1>9 DEF Started

-----------------------------------------------------------------------------
(* What the host does *)

LEMMA NothingNew ==
  ASSUME TypeOK, down' = down
  PROVE  Told({})
<1> DEFINE t == [c \in Clients |-> <<>>]
<1>1. t \in [Clients -> Seq(Notes \cup {})]
  OBVIOUS
<1>2. \A c \in Clients : down[c] \o t[c] = down[c]
  <2> TAKE c \in Clients
  <2>1. down[c] \in Seq(Events \cup Notes) /\ t[c] = <<>>
    BY DEF TypeOK
  <2> HIDE DEF t
  <2> QED BY <2>1, ConcatEmptySeq
<1>3. down' = [c \in Clients |-> down[c] \o t[c]]
  <2>1. down' = [c \in Clients |-> down[c]]
    BY DEF TypeOK
  <2> HIDE DEF t
  <2> QED BY <2>1, <1>2
<1> HIDE DEF t
<1> QED BY <1>1, <1>3 DEF Told

LEMMA NotesOnly ==
  ASSUME NEW t \in [Clients -> Seq(Notes)], down' = [c \in Clients |-> down[c] \o t[c]]
  PROVE  Told({})
<1>1. Notes \cup {} = Notes
  OBVIOUS
<1> QED BY <1>1 DEF Told

LEMMA SeatMoved ==
  ASSUME NEW o \in Seq(Seat), NEW i \in DOMAIN o, NEW r \in Rooms
  PROVE  [o EXCEPT ![i].room = r] \in Seq(Seat) /\ Whos([o EXCEPT ![i].room = r]) = Whos(o)
         /\ DOMAIN [o EXCEPT ![i].room = r] = DOMAIN o
<1>1. o[i] \in Seat /\ [o[i] EXCEPT !.room = r] \in Seat /\ [o[i] EXCEPT !.room = r].who = o[i].who
  <2>1. o[i] \in Seat
    OBVIOUS
  <2> QED BY <2>1 DEF Seat
<1>2. [o EXCEPT ![i].room = r] = [o EXCEPT ![i] = [o[i] EXCEPT !.room = r]]
  OBVIOUS
<1> DEFINE s == [o[i] EXCEPT !.room = r]
<1>3. s \in Seat /\ s.who = o[i].who
  BY <1>1
<1> HIDE DEF s
<1>4. /\ [o EXCEPT ![i] = s] \in Seq(Seat) /\ DOMAIN [o EXCEPT ![i] = s] = DOMAIN o
      /\ \A j \in DOMAIN o : [o EXCEPT ![i] = s][j] = IF j = i THEN s ELSE o[j]
  BY <1>3
<1>5. Whos([o EXCEPT ![i] = s]) = Whos(o)
  BY <1>3, <1>4 DEF Whos
<1>6. [o EXCEPT ![i].room = r] = [o EXCEPT ![i] = s]
  BY <1>2 DEF s
<1> QED BY <1>4, <1>5, <1>6

LEMMA NotedBase ==
  ASSUME Ready, combat.active, NEW a \in [Clients -> Nat]
  PROVE  /\ Owes(combat) /\ Owes([combat EXCEPT !.acts = a])
         /\ Base(a, [combat EXCEPT !.acts = a]) /\ [combat EXCEPT !.acts = a].left = combat.left
         /\ Base(combat.acts, combat) /\ combat.acts \in [Clients -> Nat] /\ combat.left \in Left
<1>1. combat \in Fight /\ combat.turn \in DOMAIN combat.order
  BY ActiveFight DEF Ready, TypeOK
<1>2. [combat EXCEPT !.acts = a] \in Fight
  BY <1>1 DEF Fight
<1>3. Owes(combat) /\ Owes([combat EXCEPT !.acts = a])
  BY <1>1 DEF Owes, Fight
<1> QED BY <1>1, <1>2, <1>3 DEF Base, Fits, Fight

LEMMA MoveSends ==
  ASSUME Ready, combat.active, pending.to = {}, NEW a \in [Clients -> Nat], NEW c, Base(a, c), Owes(c),
         NEW p \in Players, Move(c, p), Strikes(0)
  PROVE  Emitted(a)
<1> DEFINE left == [c.left EXCEPT !.move = @ - 1, !.moved = TRUE]
           d == [c EXCEPT !.left = left]
<1>1. d = [c EXCEPT !.left.move = @ - 1, !.left.moved = TRUE]
  BY DEF Base, Fits, Fight
<1>2. \/ Result(c)
      \/ /\ c.left.move > 0
         /\ \/ \E r \in Reinforced(d, place[p]) : Emit(r, "BEGIN", turnNo, Nothing)
            \/ Emit(NextTurn(d, Living), "RESULT", turnNo + 1, Nothing)
            \/ Emit(d, "RESULT", turnNo, Nothing)
  BY <1>1 DEF Move
<1>3. CASE Result(c)
  BY <1>3, ResultSends, NothingTold DEF Result
<1>4. ASSUME c.left.move > 0 PROVE Base(a, d) /\ Owes(d)
  <2>1. c \in Fight /\ c.left \in Left
    BY DEF Base, Fits, Fight
  <2>2. left \in Left /\ left.acted = c.left.acted
    <3>1. c.left.move \in Nat /\ c.left.move - 1 \in Nat
      BY <2>1, <1>4 DEF Left
    <3> QED BY <2>1, <3>1 DEF Left
  <2> HIDE DEF left
  <2>3. d \in Fight /\ d.left = left /\ d.opening = c.opening /\ d.opener = c.opener
    BY <2>1, <2>2 DEF Fight
  <2> QED BY <2>1, <2>2, <2>3 DEF Base, Fits, Fight, Owes
<1> HIDE DEF d, left
<1>5. CASE c.left.move > 0 /\ Emit(NextTurn(d, Living), "RESULT", turnNo + 1, Nothing)
  BY <1>4, <1>5, TurnSends
<1>6. CASE c.left.move > 0 /\ Emit(d, "RESULT", turnNo, Nothing)
  BY <1>4, <1>6, ResultSends, NothingTold
<1>7. CASE c.left.move > 0 /\ \E r \in Reinforced(d, place[p]) : Emit(r, "BEGIN", turnNo, Nothing)
  <2>1. PICK e \in Reinforced(d, place[p]) : Emit(e, "BEGIN", turnNo, Nothing)
    BY <1>7
  <2>2. d \in Fight /\ d.turn \in DOMAIN d.order /\ place[p] \in Rooms /\ Base(a, d) /\ Owes(d)
    BY <1>4, <1>7 DEF Base, Fits, Ready, TypeOK
  <2>3. /\ e \in Fight /\ e.id = d.id /\ e.next = d.next /\ e.active = d.active /\ e.ending = d.ending
        /\ e.acts = d.acts /\ e.turn = d.turn /\ e.left = d.left
        /\ e.opening = d.opening /\ e.opener = d.opener
        /\ e.turn \in DOMAIN e.order /\ e.order[e.turn] = d.order[d.turn]
    BY <2>2, ReinforcedFits
  <2>4. e.id = 1 /\ e.next >= 1 /\ turnNo \in Nat /\ "BEGIN" \in Kinds /\ TypeOK
    <3>1. combat.id = 1 /\ combat.next >= 2 /\ turnNo \in Nat /\ TypeOK
      BY ActiveFight DEF Ready, TypeOK
    <3>2. e.id = combat.id /\ e.next = combat.next
      BY <2>2, <2>3 DEF Base, Fits
    <3>3. combat.next >= 2 => combat.next >= 1
      BY DEF Ready, TypeOK, Fight
    <3> QED BY <3>1, <3>2, <3>3 DEF Kinds
  <2>5. /\ combat' \in Fight /\ combat'.next = e.next + 1 /\ turnNo' = turnNo
        /\ combat'.id = e.id /\ combat'.active = e.active /\ combat'.ending = e.ending
        /\ combat'.acts = e.acts /\ combat'.turn = e.turn /\ combat'.order = e.order
        /\ combat'.left = e.left /\ combat'.opening = e.opening /\ combat'.opener = e.opener
        /\ pending' = [msg |-> Event(e, "BEGIN", turnNo), to |-> party, tries |-> 0]
        /\ Event(e, "BEGIN", turnNo) \in Events /\ Told({Event(e, "BEGIN", turnNo)})
    BY <2>1, <2>3, <2>4, NothingTold, Emission
  <2>6. pending'.msg = Event(e, "BEGIN", turnNo) /\ pending' \in [msg : Events, to : {party}, tries : {0}]
    BY <2>5
  <2>7. /\ pending'.msg.seq = e.next /\ pending'.msg.turn = combat'.turn /\ pending'.msg.no = turnNo'
        /\ Whos(pending'.msg.order) = Whos(combat'.order) /\ pending'.msg.type = "BEGIN"
    BY <2>5, <2>6 DEF Event
  <2>8. Sent(a)
    BY <2>2, <2>3, <2>5, <2>6, <2>7 DEF Sent, Base, Fits
  <2>9. Goes
    <3>1. d.order[d.turn].who = Current.who
      BY <2>2, ActiveFight, SameSeat
    <3> QED BY <3>1, <2>2, <2>3, <2>5 DEF Goes, Base
  <2>10. Scored
    <3>1. strikes' = strikes /\ strikes \in Tallies
      <4>1. strikes \in Tallies /\ strikes' = [strikes EXCEPT !.now = @ + 0]
        BY <2>5 DEF Strikes, Ready, TypeOK
      <4> QED BY <4>1 DEF Tallies
    <3>2. Owes(combat')
      BY <2>2, <2>3, <2>5 DEF Owes
    <3> QED BY <3>1, <3>2, <2>4, <2>5, <2>9 DEF Scored, GoesOn
  <2> QED BY <2>8, <2>10 DEF Emitted
<1> QED BY <1>2, <1>3, <1>5, <1>6, <1>7

LEMMA ActSends ==
  ASSUME Ready, combat.active, pending.to = {}, NEW a \in [Clients -> Nat],
         NEW c, Base(a, c), Owes(c), c.left = combat.left,
         NEW p \in Players, NEW r, NEW action \in Actions, Act(c, p, r, action)
  PROVE  Emitted(a) /\ Current.who = p
<1>1. Current.who = p /\ Allowed(c.left, action)
  BY DEF Act
<1>2. \/ action = "MOVE" /\ Move(c, p) /\ Strikes(0)
      \/ action = "ATTACK" /\ (\E living : Standard(c, living)) /\ Strikes(1)
      \/ action = "CAST" /\ (\E living : Standard(c, living)) /\ Strikes(1)
      \/ /\ action = "DOUBLE_MOVE"
         /\ Result([c EXCEPT !.left.acted = TRUE, !.left.move = @ + Speed]) /\ Strikes(0)
      \/ Advance(c) /\ Strikes(0)
  BY DEF Act
<1>3. CASE action = "MOVE" /\ Move(c, p) /\ Strikes(0)
  BY <1>1, <1>3, MoveSends
<1>4. CASE action \in {"ATTACK", "CAST"} /\ (\E living : Standard(c, living)) /\ Strikes(1)
  <2>1. ~combat.left.acted
    BY <1>1, <1>4 DEF Allowed
  <2> QED BY <1>1, <1>4, <2>1, StandardSends
<1>5. CASE Result([c EXCEPT !.left.acted = TRUE, !.left.move = @ + Speed]) /\ Strikes(0)
  <2> DEFINE left == [c.left EXCEPT !.acted = TRUE, !.move = @ + Speed]
             d == [c EXCEPT !.left = left]
  <2>1. c \in Fight /\ c.left \in Left
    BY DEF Base, Fits, Fight
  <2>2. d = [c EXCEPT !.left.acted = TRUE, !.left.move = @ + Speed]
    BY <2>1 DEF Fight
  <2>3. left \in Left /\ left.acted
    <3>1. c.left.move \in Nat /\ Speed \in Nat
      BY <2>1, CombatTurnsAssumption DEF Left
    <3>2. c.left.move + Speed \in Nat
      BY <3>1
    <3> QED BY <2>1, <3>2 DEF Left
  <2>4. d \in Fight /\ d.left = left /\ d.opening = c.opening /\ d.opener = c.opener
    <3> HIDE DEF left
    <3> QED BY <2>1, <2>3 DEF Fight
  <2>5. Base(a, d) /\ Owes(d)
    <3> HIDE DEF left
    <3> QED BY <2>1, <2>3, <2>4 DEF Base, Fits, Fight, Owes
  <2> HIDE DEF d
  <2>6. Emit(d, "RESULT", turnNo, Nothing)
    BY <1>5, <2>2 DEF Result
  <2> QED BY <1>1, <1>5, <2>5, <2>6, ResultSends, NothingTold
<1>6. CASE Advance(c) /\ Strikes(0)
  BY <1>1, <1>6, AdvanceSends
<1> QED BY <1>2, <1>3, <1>4, <1>5, <1>6

LEMMA OthersTold ==
  ASSUME NEW p, NEW m \in Notes
  PROVE  Others(p, m) \in [Clients -> Seq(Notes)] /\ Only(p, m) \in [Clients -> Seq(Notes)]
  BY DEF Others, Only

LEMMA CrossDoorSteps ==
  ASSUME Ready, combat.active, NEW p \in Players, NEW r \in Rooms, CrossDoor(p, r)
  PROVE  HostStep(combat.acts) /\ place' \in [Players -> Rooms]
<1> DEFINE told == Others(p, [type |-> "ROOM", who |-> p, room |-> r])
           left == [combat.left EXCEPT !.move = IF @ > 0 THEN @ - 1 ELSE 0, !.moved = TRUE]
           arrived(d) == [d EXCEPT !.order[combat.turn].room = r, !.left = left]
<1>1. told \in [Clients -> Seq(Notes)]
  <2>1. [type |-> "ROOM", who |-> p, room |-> r] \in Notes
    BY DEF Notes
  <2> QED BY <2>1, OthersTold
<1>2. place' \in [Players -> Rooms]
  BY DEF CrossDoor, Ready, TypeOK
<1>3. /\ combat \in Fight /\ combat.left \in Left /\ combat.order \in Seq(Seat)
      /\ combat.turn \in DOMAIN combat.order /\ combat.id = 1 /\ turnNo \in Nat /\ strikes \in Tallies
  BY ActiveFight DEF Ready, TypeOK, Fight
<1>4. left \in Left /\ left.acted = combat.left.acted
  <2>1. combat.left.move \in Nat
    BY <1>3 DEF Left
  <2>2. (IF combat.left.move > 0 THEN combat.left.move - 1 ELSE 0) \in Nat
    BY <2>1
  <2> QED BY <1>3, <2>2 DEF Left
<1>5. ASSUME NEW d \in Fight, d.turn = combat.turn, combat.turn \in DOMAIN d.order
      PROVE  /\ arrived(d) \in Fight /\ Whos(arrived(d).order) = Whos(d.order)
             /\ DOMAIN arrived(d).order = DOMAIN d.order /\ arrived(d).left = left
             /\ arrived(d).id = d.id /\ arrived(d).next = d.next /\ arrived(d).active = d.active
             /\ arrived(d).ending = d.ending /\ arrived(d).acts = d.acts /\ arrived(d).turn = d.turn
             /\ arrived(d).opening = d.opening /\ arrived(d).opener = d.opener
  <2> DEFINE o == [d.order EXCEPT ![combat.turn].room = r]
  <2>1. o \in Seq(Seat) /\ Whos(o) = Whos(d.order) /\ DOMAIN o = DOMAIN d.order
    BY <1>5, SeatMoved DEF Fight
  <2>2. arrived(d) = [d EXCEPT !.order = o, !.left = left]
    <3> HIDE DEF left
    <3> QED BY <1>5 DEF Fight
  <2> HIDE DEF o, left, arrived
  <2> QED BY <2>1, <2>2, <1>4, <1>5 DEF Fight
<1>6. CASE /\ combat' = [combat EXCEPT !.order[combat.turn].room = r,
                                        !.left.move = IF @ > 0 THEN @ - 1 ELSE 0, !.left.moved = TRUE]
           /\ down' = [x \in Clients |-> down[x] \o told[x]]
           /\ UNCHANGED <<pending, turnNo>>
  <2>1. combat' = arrived(combat)
    BY <1>6, <1>3 DEF Fight, Left
  <2>2. Told({})
    <3> HIDE DEF told
    <3> QED BY <1>1, <1>6, NotesOnly
  <2>3. strikes' = strikes
    BY DEF CrossDoor
  <2>4. pending' = pending /\ turnNo' = turnNo
    BY <1>6
  <2> HIDE DEF arrived, told, left
  <2>5. /\ combat' \in Fight /\ Whos(combat'.order) = Whos(combat.order) /\ combat'.left = left
        /\ combat'.id = combat.id /\ combat'.next = combat.next /\ combat'.active = combat.active
        /\ combat'.ending = combat.ending /\ combat'.acts = combat.acts /\ combat'.turn = combat.turn
        /\ combat'.opening = combat.opening /\ combat'.opener = combat.opener
    BY <1>3, <1>5, <2>1
  <2>6. Quiet(combat.acts)
    BY <1>4, <2>2, <2>3, <2>4, <2>5 DEF Quiet
  <2> QED BY <1>2, <2>6 DEF HostStep
<1>7. CASE /\ Reinforces(r)
           /\ \E d \in Reinforced(combat, r) :
                /\ combat' = [arrived(d) EXCEPT !.next = @ + 1]
                /\ pending' = [msg |-> Event(d, "BEGIN", turnNo), to |-> party, tries |-> 0]
                /\ down' = [x \in Clients |-> down[x] \o (IF x \in party THEN <<Event(d, "BEGIN", turnNo)>> ELSE <<>>)
                                              \o told[x]]
           /\ UNCHANGED turnNo
  <2>1. PICK d \in Reinforced(combat, r) :
          /\ combat' = [arrived(d) EXCEPT !.next = @ + 1]
          /\ pending' = [msg |-> Event(d, "BEGIN", turnNo), to |-> party, tries |-> 0]
          /\ down' = [x \in Clients |-> down[x] \o (IF x \in party THEN <<Event(d, "BEGIN", turnNo)>> ELSE <<>>)
                                        \o told[x]]
    BY <1>7
  <2>2. /\ d \in Fight /\ d.id = combat.id /\ d.next = combat.next /\ d.active = combat.active
        /\ d.ending = combat.ending /\ d.acts = combat.acts /\ d.turn = combat.turn /\ d.left = combat.left
        /\ d.turn \in DOMAIN d.order /\ d.order[d.turn] = combat.order[combat.turn]
        /\ d.opening = combat.opening /\ d.opener = combat.opener
    BY <1>3, ReinforcedFits
  <2>3. /\ arrived(d) \in Fight /\ Whos(arrived(d).order) = Whos(d.order)
        /\ DOMAIN arrived(d).order = DOMAIN d.order /\ arrived(d).left = left
        /\ arrived(d).id = d.id /\ arrived(d).next = d.next /\ arrived(d).active = d.active
        /\ arrived(d).ending = d.ending /\ arrived(d).acts = d.acts /\ arrived(d).turn = d.turn
        /\ arrived(d).opening = d.opening /\ arrived(d).opener = d.opener
    BY <2>2, <1>3, <1>5
  <2> DEFINE f == arrived(d)
             e == Event(d, "BEGIN", turnNo)
  <2>4. /\ combat' \in Fight /\ combat'.next = f.next + 1 /\ combat'.id = f.id /\ combat'.active = f.active
        /\ combat'.ending = f.ending /\ combat'.acts = f.acts /\ combat'.turn = f.turn
        /\ combat'.order = f.order /\ combat'.left = f.left
        /\ combat'.opening = f.opening /\ combat'.opener = f.opener
    <3> HIDE DEF arrived
    <3>1. f \in Fight /\ combat' = [f EXCEPT !.next = @ + 1]
      BY <2>1, <2>3
    <3> HIDE DEF f
    <3>2. f.next \in Nat /\ f.next + 1 \in Nat
      BY <3>1 DEF Fight
    <3> QED BY <3>1, <3>2 DEF Fight
  <2>5. e \in Events /\ e.seq = d.next /\ e.turn = d.turn /\ e.no = turnNo /\ e.order = d.order /\ e.type = "BEGIN"
    <3>1. d.id = 1 /\ d.next \in Nat \ {0} /\ d.turn \in Nat /\ d.order \in Seq(Seat)
      BY <2>2, <1>3, ActiveFight DEF Fight
    <3> QED BY <3>1, <1>3 DEF Event, Events
  <2>6. Told({e})
    <3> HIDE DEF e
    <3>1. down' = [x \in Clients |-> down[x] \o (IF x \in party THEN <<e>> ELSE <<>>) \o told[x]]
      BY <2>1 DEF e
    <3> HIDE DEF told
    <3> QED BY <1>1, <3>1, EventTold DEF Ready
  <2>7. combat.active /\ pending.to = {}
    BY <1>7 DEF Reinforces, Busy
  <2>8. pending' \in [msg : Events, to : {party}, tries : {0}] /\ pending'.msg = e
    <3> HIDE DEF e
    <3>1. pending' = [msg |-> e, to |-> party, tries |-> 0]
      BY <2>1 DEF e
    <3> QED BY <3>1, <2>5
  <2> HIDE DEF e, f
  <2>9. f = arrived(d)
    BY DEF f
  <2>10. turnNo' = turnNo /\ strikes' = strikes
    BY <1>7 DEF CrossDoor
  <2> HIDE DEF arrived, left, told
  <2>11. Sent(combat.acts)
    BY <2>2, <2>3, <2>4, <2>5, <2>6, <2>7, <2>8, <2>9, <2>10 DEF Sent
  <2>12. Goes
    <3>1. f.order[f.turn].who = d.order[d.turn].who
      BY <2>2, <2>3, <2>9, WhosOf
    <3>2. f.left.acted = combat.left.acted
      BY <1>4, <2>3, <2>9
    <3> QED BY <3>1, <3>2, <2>2, <2>4 DEF Goes, Current
  <2>13. Scored
    <3>1. Owes(combat')
      BY <2>2, <2>3, <2>4, <2>9 DEF Owes
    <3> QED BY <3>1, <2>10, <2>12, <1>3 DEF Scored, GoesOn
  <2> QED BY <1>2, <2>11, <2>13 DEF HostStep, Emitted
<1>8. CrossDoor(p, r) => \/ /\ combat' = [combat EXCEPT !.order[combat.turn].room = r,
                                                         !.left.move = IF @ > 0 THEN @ - 1 ELSE 0, !.left.moved = TRUE]
                            /\ down' = [x \in Clients |-> down[x] \o told[x]]
                            /\ UNCHANGED <<pending, turnNo>>
                         \/ /\ Reinforces(r)
                            /\ \E d \in Reinforced(combat, r) :
                                 /\ combat' = [arrived(d) EXCEPT !.next = @ + 1]
                                 /\ pending' = [msg |-> Event(d, "BEGIN", turnNo), to |-> party, tries |-> 0]
                                 /\ down' = [x \in Clients |-> down[x] \o (IF x \in party THEN <<Event(d, "BEGIN", turnNo)>> ELSE <<>>)
                                                               \o told[x]]
                            /\ UNCHANGED turnNo
  <2> DEFINE c == [combat EXCEPT !.order[combat.turn].room = r,
                                 !.left.move = IF @ > 0 THEN @ - 1 ELSE 0, !.left.moved = TRUE]
  <2>1. c.left = left
    BY <1>3 DEF Fight, Left
  <2>2. \/ /\ combat' = c
           /\ down' = [x \in Clients |-> down[x] \o told[x]]
           /\ UNCHANGED <<pending, turnNo>>
        \/ /\ Reinforces(r)
           /\ \E d \in Reinforced(combat, r) :
                /\ combat' = [[d EXCEPT !.order[combat.turn].room = r, !.left = c.left] EXCEPT !.next = @ + 1]
                /\ pending' = [msg |-> Event(d, "BEGIN", turnNo), to |-> party, tries |-> 0]
                /\ down' = [x \in Clients |-> down[x] \o (IF x \in party THEN <<Event(d, "BEGIN", turnNo)>> ELSE <<>>)
                                              \o told[x]]
           /\ UNCHANGED turnNo
    BY Zenon DEF CrossDoor
  <2> HIDE DEF left, told
  <2>3. CASE /\ Reinforces(r)
             /\ \E d \in Reinforced(combat, r) :
                  /\ combat' = [[d EXCEPT !.order[combat.turn].room = r, !.left = c.left] EXCEPT !.next = @ + 1]
                  /\ pending' = [msg |-> Event(d, "BEGIN", turnNo), to |-> party, tries |-> 0]
                  /\ down' = [x \in Clients |-> down[x] \o (IF x \in party THEN <<Event(d, "BEGIN", turnNo)>> ELSE <<>>)
                                                \o told[x]]
             /\ UNCHANGED turnNo
    <3> HIDE DEF c
    <3> QED BY <2>1, <2>3
  <2> QED BY <2>2, <2>3
<1> QED BY <1>2, <1>6, <1>7, <1>8

HeardSame ==
  heard' \in [Players -> [seq : Nat, ready : BOOLEAN]] /\ \A p \in Players : heard'[p].seq = heard[p].seq

LEMMA OpeningSteps ==
  ASSUME Ready, combat.active, pending.to = {}, combat.opening # None, OpeningAbility
  PROVE  HostStep(combat.acts) /\ HeardSame
<1> DEFINE o == combat.opening
           c == IF o.who = Current.who
                THEN [combat EXCEPT !.opening = None, !.left.acted = TRUE]
                ELSE [combat EXCEPT !.opening = None, !.opener = [who |-> o.who]]
           told == Only(o.who, [type |-> "ABILITY", seq |-> o.seq])
<1>1. o \in [who : Players, seq : Nat] /\ combat \in Fight /\ combat.left \in Left /\ Base(combat.acts, combat)
      /\ turnNo \in Nat /\ strikes \in Tallies
  BY NotedBase DEF Ready, TypeOK, Fight
<1>2. told \in [Clients -> Seq(Notes)]
  <2>1. [type |-> "ABILITY", seq |-> o.seq] \in Notes
    BY <1>1 DEF Notes
  <2> QED BY <2>1, OthersTold
<1>3. Base(combat.acts, c)
  <2>1. [combat.left EXCEPT !.acted = TRUE] \in Left
    BY <1>1 DEF Left
  <2>2. CASE o.who = Current.who
    <3>1. c = [combat EXCEPT !.opening = None, !.left = [combat.left EXCEPT !.acted = TRUE]]
      BY <2>2, <1>1 DEF Fight
    <3>2. c \in Fight /\ c.left.acted
      <4> HIDE DEF c
      <4> QED BY <2>1, <3>1, <1>1 DEF Fight, Left
    <3> HIDE DEF c
    <3> QED BY <3>1, <3>2, <1>1 DEF Base, Fits, Fight
  <2>3. CASE o.who # Current.who
    <3>1. c = [combat EXCEPT !.opening = None, !.opener = [who |-> o.who]]
      BY <2>3
    <3>2. [who |-> o.who] \in [who : Players]
      BY <1>1
    <3> HIDE DEF c
    <3>3. c \in Fight
      BY <3>1, <3>2, <1>1 DEF Fight
    <3> QED BY <3>1, <3>3, <1>1 DEF Base, Fits, Fight
  <2> QED BY <2>2, <2>3
<1>4. HeardSame
  <2>1. heard' = [heard EXCEPT ![o.who].ready = TRUE]
    BY DEF OpeningAbility
  <2>2. heard \in [Players -> [seq : Nat, ready : BOOLEAN]]
    BY DEF Ready, TypeOK
  <2> QED BY <2>1, <2>2, <1>1 DEF HeardSame
<1>5. /\ c.opening = None
      /\ o.who = Current.who => c.left.acted
      /\ o.who # Current.who => c.opener = [who |-> o.who]
  <2>1. CASE o.who = Current.who
    <3>1. [combat.left EXCEPT !.acted = TRUE].acted
      BY <1>1 DEF Left
    <3>2. c = [combat EXCEPT !.opening = None, !.left = [combat.left EXCEPT !.acted = TRUE]]
      BY <2>1, <1>1 DEF Fight
    <3> HIDE DEF c
    <3> QED BY <2>1, <3>1, <3>2, <1>1 DEF Fight
  <2>2. CASE o.who # Current.who
    BY <2>2, <1>1 DEF Fight
  <2> QED BY <2>1, <2>2
<1>6. \/ (Emit(c, "RESULT", turnNo, told) \/ Emit([c EXCEPT !.ending = TRUE], "END", turnNo, told)) /\ Opened(o.who)
      \/ /\ combat' = [combat EXCEPT !.opening = None]
         /\ down' = [x \in Clients |-> down[x] \o told[x]]
         /\ UNCHANGED <<pending, alive, turnNo, strikes>>
  BY Zenon DEF OpeningAbility
<1> HIDE DEF c, told, o
<1>7. ASSUME NEW d, Base(combat.acts, d), d.opening = c.opening, d.opener = c.opener, d.left = c.left,
             NEW type \in {"RESULT", "END"}, type = "END" => d.ending, Emit(d, type, turnNo, told), Opened(o.who)
      PROVE  Emitted(combat.acts)
  <2>1. /\ Sent(combat.acts) /\ turnNo' = turnNo /\ combat'.turn = d.turn /\ combat'.order = d.order
        /\ combat'.left = d.left /\ combat'.opening = d.opening /\ combat'.opener = d.opener
    BY <1>1, <1>2, <1>7, SentBy DEF Base
  <2>2. Goes
    BY <1>7, <2>1, SameSeat, ActiveFight DEF Goes, Base
  <2>3. strikes' \in Tallies
    <3>1. strikes.now + 1 \in Nat
      BY <1>1 DEF Tallies
    <3> QED BY <1>1, <1>7, <3>1 DEF Opened, Tallies
  <2>4. Opens
    BY <1>5, <1>7, <2>1, <2>2 DEF Opens, o
  <2> QED BY <1>1, <2>1, <2>3, <2>4 DEF Emitted, Scored
<1>8. CASE Emit(c, "RESULT", turnNo, told) /\ Opened(o.who)
  <2>1. Emitted(combat.acts)
    BY <1>3, <1>7, <1>8
  <2> QED BY <2>1, <1>4 DEF HostStep
<1>9. CASE Emit([c EXCEPT !.ending = TRUE], "END", turnNo, told) /\ Opened(o.who)
  <2> DEFINE d == [c EXCEPT !.ending = TRUE]
  <2>1. Base(combat.acts, d) /\ d.ending /\ Emit(d, "END", turnNo, told) /\ d.left = c.left
    BY <1>3, <1>9, ActedFits
  <2>2. d.opening = c.opening /\ d.opener = c.opener
    BY <1>3 DEF Base, Fits, Fight
  <2> HIDE DEF d
  <2>3. Emitted(combat.acts)
    BY <1>7, <1>9, <2>1, <2>2
  <2> QED BY <2>3, <1>4 DEF HostStep
<1>10. CASE /\ combat' = [combat EXCEPT !.opening = None]
            /\ down' = [x \in Clients |-> down[x] \o told[x]]
            /\ UNCHANGED <<pending, alive, turnNo, strikes>>
  <2>1. Told({})
    BY <1>2, <1>10, NotesOnly
  <2>2. combat' \in Fight
    BY <1>1, <1>10 DEF Fight
  <2>3. Quiet(combat.acts)
    BY <2>1, <2>2, <1>1, <1>10 DEF Quiet, Fight
  <2> QED BY <2>3, <1>4 DEF HostStep
<1> QED BY <1>6, <1>8, <1>9, <1>10

LEMMA HostUpdateSteps ==
  ASSUME Ready, HostUpdate
  PROVE  HostStep(combat.acts) /\ HeardSame
<1>1. combat.active /\ pending.to = {}
  BY DEF HostUpdate, Busy
<1>2. Base(combat.acts, combat) /\ Owes(combat) /\ combat \in Fight /\ combat.acts \in [Clients -> Nat] /\ TypeOK
  BY <1>1, NotedBase DEF Ready, TypeOK
<1>3. ASSUME heard' = heard PROVE HeardSame
  BY <1>3 DEF HeardSame, Ready, TypeOK
<1>4. CASE combat.ending
  <2>1. combat' = [combat EXCEPT !.active = FALSE] /\ UNCHANGED <<pending, down, alive, turnNo, strikes, heard>>
    BY <1>4 DEF HostUpdate
  <2>2. Told({})
    BY <2>1, <1>2, NothingNew
  <2>3. combat' \in Fight
    BY <2>1, <1>2 DEF Fight
  <2>4. Quiet(combat.acts)
    BY <2>1, <2>2, <2>3, <1>2, <1>4 DEF Quiet, Fight
  <2> QED BY <2>1, <2>4, <1>3 DEF HostStep
<1>5. CASE ~combat.ending /\ combat.opening # None
  <2>1. OpeningAbility
    BY <1>5 DEF HostUpdate
  <2> QED BY <2>1, <1>1, <1>5, OpeningSteps
<1>6. CASE ~combat.ending /\ combat.opening = None
  <2>1. heard' = heard
    BY <1>6 DEF HostUpdate
  <2>2. \/ Advance(combat) /\ Strikes(0)
        \/ Emit([combat EXCEPT !.ending = TRUE], "END", turnNo, Nothing) /\ strikes' = strikes
        \/ Current.who \in Monsters /\ \E living : Standard(combat, living) /\ Strikes(1)
    BY <1>6 DEF HostUpdate, MonsterTurn
  <2>3. CASE Advance(combat) /\ Strikes(0)
    BY <2>3, <1>1, <1>2, AdvanceSends, <2>1, <1>3 DEF HostStep
  <2>4. CASE Emit([combat EXCEPT !.ending = TRUE], "END", turnNo, Nothing) /\ strikes' = strikes
    <3> DEFINE d == [combat EXCEPT !.ending = TRUE]
    <3>1. Base(combat.acts, d) /\ Owes(d) /\ d.ending /\ Emit(d, "END", turnNo, Nothing)
      BY <1>2, <2>4, ActedFits
    <3>2. Strikes(0)
      <4>1. turnNo' = turnNo /\ strikes \in Tallies
        BY <2>4, <1>2 DEF Emit, TypeOK
      <4>2. [strikes EXCEPT !.now = @ + 0] = strikes
        BY <4>1 DEF Tallies
      <4> QED BY <2>4, <4>1, <4>2 DEF Strikes
    <3> HIDE DEF d
    <3>3. Emitted(combat.acts)
      BY <1>1, <3>1, <3>2, ResultSends, NothingTold
    <3> QED BY <3>3, <2>1, <1>3 DEF HostStep
  <2>5. CASE Current.who \in Monsters /\ \E living : Standard(combat, living) /\ Strikes(1)
    <3>1. Current.who \notin Players
      BY <2>5, CombatTurnsAssumption DEF Players
    <3>2. Emitted(combat.acts)
      BY <1>1, <1>2, <2>5, <3>1, StandardSends
    <3> QED BY <3>2, <2>1, <1>3 DEF HostStep
  <2> QED BY <2>2, <2>3, <2>4, <2>5
<1> QED BY <1>4, <1>5, <1>6

-----------------------------------------------------------------------------
(* What the host does keeps the invariants *)

Parts == FightOK /\ Struck /\ Announced /\ \A c \in Reached : Sight(c)

UpShrinks ==
  up' \in [Clients -> Seq(UpFrames)] /\ \A c \in Clients : up'[c] = up[c] \/ LeftOut(up'[c], up[c])

LEMMA UpOrder ==
  ASSUME TypeOK, UpShrinks, NEW c \in Clients
  PROVE  /\ ToSet(up'[c]) \subseteq ToSet(up[c])
         /\ \A i, j \in DOMAIN up'[c] : i < j =>
              \E k, l \in DOMAIN up[c] : k < l /\ up'[c][i] = up[c][k] /\ up'[c][j] = up[c][l]
<1>1. up[c] \in Seq(UpFrames) /\ up'[c] \in Seq(UpFrames)
  BY DEF TypeOK, UpShrinks
<1>2. CASE up'[c] = up[c]
  BY <1>2
<1>3. CASE LeftOut(up'[c], up[c])
  <2>1. ToSet(up'[c]) \subseteq ToSet(up[c])
    BY <1>1, <1>3, LeftOutSet
  <2>2. ASSUME NEW i \in DOMAIN up'[c], NEW j \in DOMAIN up'[c], i < j
        PROVE  \E k, l \in DOMAIN up[c] : k < l /\ up'[c][i] = up[c][k] /\ up'[c][j] = up[c][l]
    BY <1>1, <1>3, <2>2, LeftOutOrder
  <2> QED BY <2>1, <2>2
<1> QED BY <1>2, <1>3 DEF UpShrinks

\* Frames that follow are notes, or the newest event.
LEMMA ToldFrames ==
  ASSUME TypeOK, NEW E, E \subseteq Events, Told(E), NEW c \in Clients
  PROVE  /\ down'[c] \in Seq(Events \cup Notes)
         /\ \A m \in ToSet(down'[c]) : IsEvent(m) => m \in ToSet(down[c]) \/ m \in E
         /\ \A i, j \in DOMAIN down'[c] : i < j /\ IsEvent(down'[c][i]) /\ IsEvent(down'[c][j]) =>
              \/ i \in DOMAIN down[c] /\ j \in DOMAIN down[c]
                   /\ down'[c][i] = down[c][i] /\ down'[c][j] = down[c][j]
              \/ down'[c][i] \in ToSet(down[c]) \cup E /\ down'[c][j] \in E
<1>1. PICK t \in [Clients -> Seq(Notes \cup E)] : down' = [x \in Clients |-> down[x] \o t[x]]
  BY DEF Told
<1> DEFINE S == Events \cup Notes
           s == down[c]
           u == t[c]
<1>2. s \in Seq(S) /\ u \in Seq(Notes \cup E) /\ u \in Seq(S) /\ down'[c] = s \o u
  <2>1. s \in Seq(S) /\ u \in Seq(Notes \cup E) /\ down'[c] = s \o u
    BY <1>1 DEF TypeOK
  <2>2. u \in Seq(S)
    <3>1. Notes \cup E \subseteq S
      OBVIOUS
    <3> HIDE DEF S, u
    <3> QED BY <2>1, <3>1, SeqWidens
  <2> QED BY <2>1, <2>2
<1>3. \A m \in Notes : ~IsEvent(m)
  BY DEF Notes, IsEvent
<1> HIDE DEF S, s, u
<1>4. /\ s \o u \in Seq(S) /\ ToSet(s \o u) = ToSet(s) \cup ToSet(u)
      /\ DOMAIN (s \o u) = 1..(Len(s) + Len(u))
      /\ \A i \in 1..(Len(s) + Len(u)) : (s \o u)[i] = IF i <= Len(s) THEN s[i] ELSE u[i - Len(s)]
  BY <1>2, ConcatSet
<1>5. \A m \in ToSet(u) : IsEvent(m) => m \in E
  BY <1>2, <1>3, SetOfSeq
<1>6. ASSUME NEW i \in DOMAIN (s \o u), ~(i <= Len(s)), IsEvent((s \o u)[i]) PROVE (s \o u)[i] \in E
  <2>1. Len(s) \in Nat /\ Len(u) \in Nat /\ DOMAIN u = 1..Len(u)
    BY <1>2
  <2>2. i - Len(s) \in DOMAIN u /\ (s \o u)[i] = u[i - Len(s)]
    BY <1>4, <1>6, <2>1
  <2> QED BY <2>2, <1>5, <1>6 DEF ToSet
<1>7. ASSUME NEW i \in DOMAIN (s \o u), i <= Len(s) PROVE i \in DOMAIN s /\ (s \o u)[i] = s[i]
  BY <1>2, <1>4, <1>7
<1>8. \A i, j \in DOMAIN (s \o u) : i < j /\ IsEvent((s \o u)[i]) /\ IsEvent((s \o u)[j]) =>
        \/ i \in DOMAIN s /\ j \in DOMAIN s /\ (s \o u)[i] = s[i] /\ (s \o u)[j] = s[j]
        \/ (s \o u)[i] \in ToSet(s) \cup E /\ (s \o u)[j] \in E
  <2> SUFFICES ASSUME NEW i \in DOMAIN (s \o u), NEW j \in DOMAIN (s \o u), i < j,
                      IsEvent((s \o u)[i]), IsEvent((s \o u)[j])
               PROVE  \/ i \in DOMAIN s /\ j \in DOMAIN s /\ (s \o u)[i] = s[i] /\ (s \o u)[j] = s[j]
                      \/ (s \o u)[i] \in ToSet(s) \cup E /\ (s \o u)[j] \in E
    OBVIOUS
  <2>1. i \in Nat /\ j \in Nat /\ Len(s) \in Nat
    BY <1>2, <1>4
  <2>2. CASE j <= Len(s)
    <3>1. i <= Len(s)
      BY <2>1, <2>2
    <3> QED BY <3>1, <2>2, <1>7
  <2>3. CASE ~(j <= Len(s))
    <3>1. (s \o u)[j] \in E
      BY <2>3, <1>6
    <3>2. CASE i <= Len(s)
      <4>1. (s \o u)[i] \in ToSet(s)
        BY <3>2, <1>7 DEF ToSet
      <4> QED BY <4>1, <3>1
    <3>3. CASE ~(i <= Len(s))
      BY <3>3, <1>6, <3>1
    <3> QED BY <3>2, <3>3
  <2> QED BY <2>2, <2>3
<1>9. down'[c] = s \o u
  BY <1>2
<1> QED BY <1>2, <1>4, <1>5, <1>8, <1>9 DEF S, s

LEMMA TypedEvents ==
  ASSUME TypeOK, NEW c \in Clients
  PROVE  /\ \A m \in ToSet(down[c]) : IsEvent(m) => m \in Events
         /\ \A m \in ToSet(up[c]) : /\ m.type = "ACK" => m \in Acks
                                    /\ m.type = "REQUEST" => m \in Requests
                                    /\ m.type = "ABILITY" => m \in Commands
<1>1. \A m \in ToSet(down[c]) : m \in Events \cup Notes
  BY SetOfSeq DEF TypeOK
<1>2. \A m \in ToSet(up[c]) : m \in UpFrames
  BY SetOfSeq DEF TypeOK
<1>3. \A m \in Notes : ~IsEvent(m)
  BY DEF Notes, IsEvent
<1>4. \A m \in UpFrames : /\ m.type = "ACK" => m \in Acks
                          /\ m.type = "REQUEST" => m \in Requests
                          /\ m.type = "ABILITY" => m \in Commands
  BY DEF UpFrames, Acks, Requests, Commands, Doors, Leaves
<1> QED BY <1>1, <1>2, <1>3, <1>4

\* Who is in the activity and what the clients show stays as it is.
Elsewhere == UNCHANGED <<party, gone, view, ask>> /\ UpShrinks

LEMMA QuietKeeps ==
  ASSUME TypeOK, Parts, NEW a, Quiet(a), Elsewhere, UNCHANGED <<behind, lost>>,
         \A c \in Clients : played'[c] <= a[c] /\ (combat.id = 0 => played'[c] = 0)
  PROVE  Parts'
<1>1. /\ combat' \in Fight /\ combat'.id = combat.id /\ combat'.next = combat.next /\ combat'.acts = a
      /\ combat'.ending = combat.ending
      /\ combat'.active = combat.active \/ (combat.ending /\ ~combat'.active)
      /\ combat'.turn = combat.turn /\ Whos(combat'.order) = Whos(combat.order)
      /\ combat.left.acted => combat'.left.acted
      /\ combat'.opening \in {combat.opening, None} /\ combat'.opener = combat.opener
      /\ pending' = pending /\ turnNo' = turnNo /\ strikes' = strikes /\ Told({})
  BY DEF Quiet
<1>2. DOMAIN combat'.order = DOMAIN combat.order
      /\ \A i \in DOMAIN combat.order : combat'.order[i].who = combat.order[i].who
  BY <1>1, WhosOf
<1>3. FightOK'
  BY <1>1, <1>2 DEF Parts, FightOK
<1>4. Struck'
  <2>1. combat'.active => combat.active /\ combat.turn \in DOMAIN combat.order
    BY <1>1 DEF Parts, FightOK, TypeOK, Fight
  <2>2. combat'.active => Current'.who = Current.who
    BY <2>1, <1>1, <1>2 DEF Current
  <2> QED BY <2>1, <2>2, <1>1 DEF Parts, Struck
<1>5. Announced'
  BY <1>1 DEF Parts, Announced
<1>6. ASSUME NEW c \in Reached' PROVE Sight(c)'
  <2>1. /\ c \in Reached /\ c \in Clients /\ view'[c] = view[c] /\ ask'[c] = ask[c]
        /\ Newest' = Newest /\ Owing' = Owing /\ (Unsure(c)' <=> Unsure(c))
    BY <1>1, <1>6 DEF Elsewhere, Reached, TypeOK, Newest, Owing, Unsure
  <2>2. Delivered(c) /\ Shown(c) /\ Ordered(c) /\ Timely(c)
    BY <2>1 DEF Parts, Sight
  <2>3. /\ \A m \in ToSet(down'[c]) : IsEvent(m) => m \in ToSet(down[c])
        /\ \A i, j \in DOMAIN down'[c] : i < j /\ IsEvent(down'[c][i]) /\ IsEvent(down'[c][j]) =>
             /\ i \in DOMAIN down[c] /\ j \in DOMAIN down[c]
             /\ down'[c][i] = down[c][i] /\ down'[c][j] = down[c][j]
    <3>1. {} \subseteq Events
      OBVIOUS
    <3> QED BY <3>1, <1>1, <2>1, ToldFrames
  <2>4. /\ ToSet(up'[c]) \subseteq ToSet(up[c])
        /\ \A i, j \in DOMAIN up'[c] : i < j =>
             \E k, l \in DOMAIN up[c] : k < l /\ up'[c][i] = up[c][k] /\ up'[c][j] = up[c][l]
    BY <2>1, UpOrder DEF Elsewhere
  <2>5. Delivered(c)'
    <3>1. InOrderOf(down'[c])
      BY <2>2, <2>3 DEF Delivered, InOrderOf
    <3> QED BY <3>1, <1>1, <2>1, <2>2, <2>3 DEF Delivered
  <2>6. Shown(c)'
    BY <1>1, <2>1, <2>2, <2>4 DEF Shown
  <2>7. Ordered(c)'
    <3> SUFFICES ASSUME combat.id = 1, ~combat.ending
                 PROVE  /\ view[c].last > 0 => view[c].on
                        /\ ~Unsure(c) => view[c].on /\ Whos(view[c].order) = Whos(combat.order)
                        /\ view[c].last = Newest /\ pending.msg.type = "BEGIN" => Whos(view[c].order) = Whos(combat.order)
                        /\ pending.msg.type # "END"
                        /\ \A m \in ToSet(down'[c]) : IsEvent(m) =>
                             /\ m.type # "END"
                             /\ m.type = "BEGIN" => \/ m.seq <= view[c].last \/ Unsure(c)
                                                    \/ Whos(m.order) = Whos(combat.order)
      BY <1>1, <2>1 DEF Ordered
    <3> QED BY <2>2, <2>3 DEF Ordered
  <2>8. Timely(c)'
    BY <1>1, <2>1, <2>2, <2>4 DEF Timely
  <2> QED BY <2>5, <2>6, <2>7, <2>8 DEF Sight
<1> QED BY <1>3, <1>4, <1>5, <1>6 DEF Parts

\* Of whoever has the turn as few strikes are counted as before, or one that spends its
\* standard action.
LEMMA StruckOn ==
  ASSUME Ready, Struck, combat.active, combat'.active, Scored
  PROVE  Struck'
<1>1. /\ strikes \in Tallies /\ strikes' \in Tallies /\ turnNo \in Nat /\ turnNo >= 1
      /\ combat.opening \in {None} \cup [who : Players, seq : Nat]
  BY ActiveFight DEF Ready, TypeOK, FightOK, Scored, Fight
<1>2. strikes.now \in Nat /\ strikes'.now \in Nat /\ strikes.both \in Nat /\ strikes.owing \in SUBSET Players
  BY <1>1 DEF Tallies
<1>3. CASE GoesOn
  BY <1>3 DEF GoesOn, Goes, Owes, Struck, Current
<1>4. CASE Struggles
  <2>1. strikes'.now = strikes.now + 1 /\ strikes'.owing = strikes.owing /\ strikes'.both = strikes.both
    BY <1>1, <1>4 DEF Struggles, Tallies
  <2>2. /\ turnNo' = turnNo /\ combat'.opening = combat.opening /\ combat'.opener = combat.opener
        /\ Current'.who = Current.who
        /\ Current.who \in Players => ~combat.left.acted /\ combat'.left.acted
    BY <1>4 DEF Struggles, Goes, Owes, Current
  <2>3. Current.who \in Players => strikes.now = 0
    BY <2>2 DEF Struck
  <2> QED BY <1>2, <2>1, <2>2, <2>3 DEF Struck
<1>5. CASE Begins
  <2> DEFINE w == Current'.who
  <2>1. /\ strikes'.now = (IF w \in strikes.owing THEN 1 ELSE 0)
        /\ strikes'.owing = strikes.owing \ {w} /\ strikes'.both = strikes.both
    BY <1>1, <1>5 DEF Begins, Tallies, Current
  <2>2. /\ combat'.opening = combat.opening
        /\ combat'.opener = combat.opener \/ combat.opener = [who |-> w]
        /\ combat.opener = [who |-> w] /\ w # Current.who => combat'.left.acted
    BY <1>5 DEF Begins, Current
  <2>3. \A v \in strikes.owing : combat.opener = [who |-> v] /\ v # Current.who
    BY DEF Struck
  <2>4. \A v, x : [who |-> v] = [who |-> x] => v = x
    OBVIOUS
  <2>5. w \in strikes.owing => combat'.left.acted
    BY <2>2, <2>3
  <2>6. \A v \in strikes'.owing : combat'.opener = [who |-> v] /\ v # w
    BY <2>1, <2>2, <2>3, <2>4
  <2>7. combat'.opening # None => strikes'.owing = {} /\ strikes'.both = 0
    BY <2>1, <2>2 DEF Struck
  <2> HIDE DEF w
  <2>8. w = Current'.who
    BY DEF w
  <2> QED BY <1>2, <2>1, <2>5, <2>6, <2>7, <2>8 DEF Struck
<1>6. CASE Opens
  <2> DEFINE p == combat.opening.who
  <2>1. /\ turnNo' = turnNo /\ combat.opening # None /\ combat'.opening = None /\ Opened(p)
        /\ Current'.who = Current.who /\ (combat.left.acted => combat'.left.acted)
        /\ p = Current.who => combat'.left.acted
        /\ p # Current.who => combat'.opener = [who |-> p]
    BY <1>6 DEF Opens, Goes, Current
  <2>2. strikes.owing = {} /\ strikes.both = 0
    BY <2>1 DEF Struck
  <2>3. Current.who \in Players => strikes.now <= 1 /\ (~combat.left.acted => strikes.now = 0)
    BY <1>1, <2>2 DEF Struck
  <2> HIDE DEF p
  <2>4. CASE p = Current.who
    <3>1. /\ strikes'.now = strikes.now + 1 /\ strikes'.owing = {}
          /\ strikes'.both = IF strikes.now > 0 THEN turnNo ELSE 0
      BY <1>1, <2>1, <2>2, <2>4 DEF Opened, Tallies
    <3>2. Current.who \in Players => strikes'.now <= IF turnNo' = strikes'.both THEN 2 ELSE 1
      BY <1>2, <2>1, <2>3, <3>1
    <3> QED BY <2>1, <2>4, <3>1, <3>2 DEF Struck
  <2>5. CASE p # Current.who
    <3>1. strikes'.now = strikes.now /\ strikes'.owing = {p} /\ strikes'.both = 0
      BY <1>1, <2>1, <2>2, <2>5 DEF Opened, Tallies
    <3>2. turnNo' # strikes'.both
      BY <1>1, <2>1, <3>1
    <3> QED BY <2>1, <2>3, <2>5, <3>1, <3>2 DEF Struck
  <2> QED BY <2>4, <2>5
<1> QED BY <1>3, <1>4, <1>5, <1>6 DEF Scored

LEMMA EmittedKeeps ==
  ASSUME TypeOK, Parts, NEW a, Emitted(a), Elsewhere, UNCHANGED <<behind, lost>>,
         \A c \in Clients : played'[c] <= a[c]
  PROVE  Parts'
<1> DEFINE e == pending'.msg
<1>1. /\ combat.active /\ pending.to = {}
      /\ combat' \in Fight /\ combat'.id = combat.id /\ combat'.next = combat.next + 1
      /\ combat'.active = combat.active /\ combat'.acts = a
      /\ combat'.turn \in DOMAIN combat'.order /\ (combat.ending => combat'.ending)
      /\ pending' \in [msg : Events, to : {party}, tries : {0}]
      /\ e.seq = combat.next /\ e.turn = combat'.turn /\ e.no = turnNo'
      /\ Whos(e.order) = Whos(combat'.order)
      /\ e.type = "END" => combat'.ending
      /\ e.type # "BEGIN" => Whos(combat'.order) = Whos(combat.order)
      /\ Told({e}) /\ Scored
  BY DEF Emitted, Sent
<1>2. combat.id = 1 /\ combat.next \in Nat /\ combat.next >= 2 /\ e \in Events /\ pending'.to = party
  BY <1>1, ActiveFight DEF Ready, Parts
<1>3. Newest' = combat.next /\ Newest = combat.next - 1 /\ Newest \in Nat /\ Newest < Newest'
  BY <1>1, <1>2 DEF Newest
<1>8. \A x \in Nat : x <= Newest => x < Newest'
  <2> HIDE DEF e
  <2>1. combat.next - 1 \in Nat /\ combat.next - 1 < combat.next
    BY <1>2
  <2>2. \A x \in Nat : x <= combat.next - 1 => x < combat.next
    BY <2>1, <1>2
  <2> QED BY <2>2, <1>3
<1>4. FightOK'
  <2>1. combat'.id = 1 /\ combat'.next >= 2 /\ combat'.active
    BY <1>1, <1>2
  <2>2. pending'.msg \in Events /\ pending'.msg.seq = combat'.next - 1
    BY <1>1, <1>2
  <2>3. turnNo' = turnNo \/ turnNo' = turnNo + 1
    BY <1>1 DEF Scored, GoesOn, Struggles, Begins, Opens
  <2>4. turnNo' >= 1
    BY <1>2, <2>3 DEF TypeOK, Parts, FightOK
  <2>5. \A c \in Clients : played'[c] <= combat'.acts[c]
    BY <1>1
  <2> QED BY <1>1, <2>1, <2>2, <2>4, <2>5 DEF FightOK
<1>5. Struck'
  BY <1>1, StruckOn DEF Parts, Ready
<1>6. Announced'
  BY <1>1 DEF Announced
<1>7. ASSUME NEW c \in Reached' PROVE Sight(c)'
  <2>1. /\ c \in Reached /\ c \in Clients /\ view'[c] = view[c] /\ ask'[c] = ask[c]
        /\ c \in pending'.to /\ c \in Owing' /\ lost' = lost
    BY <1>2, <1>7 DEF Elsewhere, Reached, TypeOK, Owing
  <2>2. Delivered(c) /\ Shown(c) /\ Ordered(c) /\ Timely(c)
    BY <2>1 DEF Parts, Sight
  <2>3. /\ \A m \in ToSet(down'[c]) : IsEvent(m) => m \in ToSet(down[c]) \/ m = e
        /\ \A i, j \in DOMAIN down'[c] : i < j /\ IsEvent(down'[c][i]) /\ IsEvent(down'[c][j]) =>
             \/ i \in DOMAIN down[c] /\ j \in DOMAIN down[c]
                  /\ down'[c][i] = down[c][i] /\ down'[c][j] = down[c][j]
             \/ down'[c][i] \in ToSet(down[c]) \cup {e} /\ down'[c][j] = e
    <3>1. {e} \subseteq Events
      BY <1>2
    <3> HIDE DEF e
    <3> QED BY <3>1, <1>1, <2>1, ToldFrames
  <2>4. /\ ToSet(up'[c]) \subseteq ToSet(up[c])
        /\ \A i, j \in DOMAIN up'[c] : i < j =>
             \E k, l \in DOMAIN up[c] : k < l /\ up'[c][i] = up[c][k] /\ up'[c][j] = up[c][l]
    BY <2>1, UpOrder DEF Elsewhere
  <2>5. \A m \in ToSet(down[c]) : IsEvent(m) => m \in Events /\ m.seq \in Nat /\ m.seq < e.seq
    <3>1. \A m \in ToSet(down[c]) : IsEvent(m) => m \in Events /\ m.seq \in Nat
      BY <2>1, TypedEvents DEF Events
    <3>2. \A m \in ToSet(down[c]) : IsEvent(m) => m.seq <= Newest
      BY <2>2 DEF Delivered
    <3>3. e.seq = Newest'
      BY <1>1, <1>3
    <3> HIDE DEF e
    <3> QED BY <3>1, <3>2, <3>3, <1>8
  <2>6. \A m \in ToSet(up[c]) : m.type = "ACK" => m.of \in Nat /\ m.of < Newest'
    <3>1. \A m \in ToSet(up[c]) : m.type = "ACK" => m.of \in Nat
      BY <2>1, TypedEvents DEF Acks
    <3>2. \A m \in ToSet(up[c]) : m.type = "ACK" => m.of <= Newest
      BY <2>2 DEF Shown
    <3> HIDE DEF e
    <3> QED BY <3>1, <3>2, <1>8
  <2>7. view[c].last \in Nat /\ view[c].last < Newest'
    <3>1. view[c].last \in Nat
      BY <2>1 DEF TypeOK, Views
    <3>2. view[c].last <= Newest
      BY <2>2 DEF Shown
    <3> QED BY <3>1, <3>2, <1>8
  <2>8. e.seq = Newest' /\ e.seq \in Nat
    BY <1>1, <1>2, <1>3
  <2> HIDE DEF e
  <2>9. Delivered(c)'
    <3>1. InOrderOf(down'[c])
      <4> SUFFICES ASSUME NEW i \in DOMAIN down'[c], NEW j \in DOMAIN down'[c], i < j,
                          IsEvent(down'[c][i]), IsEvent(down'[c][j])
                   PROVE  down'[c][i].seq <= down'[c][j].seq
        BY DEF InOrderOf
      <4>1. CASE /\ i \in DOMAIN down[c] /\ j \in DOMAIN down[c]
                 /\ down'[c][i] = down[c][i] /\ down'[c][j] = down[c][j]
        BY <4>1, <2>2 DEF Delivered, InOrderOf
      <4>2. CASE down'[c][i] \in ToSet(down[c]) /\ down'[c][j] = e
        BY <4>2, <2>5, <2>8
      <4>3. CASE down'[c][i] = e /\ down'[c][j] = e
        BY <4>3, <2>8
      <4> QED BY <4>1, <4>2, <4>3, <2>3
    <3>2. \A m \in ToSet(down'[c]) : IsEvent(m) =>
            view[c].last <= m.seq /\ m.seq <= Newest' /\ (m.seq = Newest' => m = e)
      <4> SUFFICES ASSUME NEW m \in ToSet(down'[c]), IsEvent(m)
                   PROVE  view[c].last <= m.seq /\ m.seq <= Newest' /\ (m.seq = Newest' => m = e)
        OBVIOUS
      <4>1. CASE m = e
        BY <4>1, <2>7, <2>8
      <4>2. CASE m \in ToSet(down[c])
        BY <4>2, <2>2, <2>5, <2>8 DEF Delivered
      <4> QED BY <4>1, <4>2, <2>3
    <3> QED BY <3>1, <3>2, <2>1 DEF Delivered, e
  <2>10. Shown(c)'
    <3>1. view[c].last <= Newest' /\ view[c].last # Newest'
      BY <2>7, <2>8
    <3>2. \A m \in ToSet(up'[c]) : m.type = "ACK" => m.of <= Newest' /\ m.of # Newest'
      BY <2>4, <2>6, <2>8
    <3> QED BY <2>1, <2>2, <3>1, <3>2 DEF Shown
  <2>11. Ordered(c)'
    <3> SUFFICES ASSUME ~combat'.ending
                 PROVE  /\ view[c].last > 0 => view[c].on
                        /\ ~Unsure(c)' => view[c].on /\ Whos(view[c].order) = Whos(combat'.order)
                        /\ e.type # "END"
                        /\ \A m \in ToSet(down'[c]) : IsEvent(m) =>
                             /\ m.type # "END"
                             /\ m.type = "BEGIN" => \/ Unsure(c)' \/ m.seq <= view[c].last
                                                    \/ Whos(m.order) = Whos(combat'.order)
      BY <1>1, <1>2, <2>1, <2>7 DEF Ordered, e
    <3>1. ~combat.ending
      BY <1>1 DEF TypeOK, Fight
    <3>2. e.type # "END"
      BY <1>1 DEF e
    <3>3. Unsure(c) <=> c \in lost
      BY <1>1 DEF Unsure
    <3>4. Unsure(c)' <=> c \in lost \/ e.type = "BEGIN"
      BY <2>1, <2>7 DEF Unsure, e
    <3>5. /\ view[c].last > 0 => view[c].on
          /\ ~Unsure(c) => view[c].on /\ Whos(view[c].order) = Whos(combat.order)
          /\ \A m \in ToSet(down[c]) : IsEvent(m) =>
               /\ m.type # "END"
               /\ m.type = "BEGIN" => \/ m.seq <= view[c].last \/ Unsure(c)
                                      \/ Whos(m.order) = Whos(combat.order)
      BY <2>2, <3>1, <1>2 DEF Ordered
    <3>6. e.type # "BEGIN" => Whos(combat'.order) = Whos(combat.order)
      BY <1>1 DEF e
    <3>7. Whos(e.order) = Whos(combat'.order)
      BY <1>1 DEF e
    <3> QED BY <2>3, <3>2, <3>3, <3>4, <3>5, <3>6, <3>7
  <2>12. Timely(c)'
    BY <2>1, <2>2, <2>4, <2>6 DEF Timely, ToSet
  <2> QED BY <2>9, <2>10, <2>11, <2>12 DEF Sight
<1> QED BY <1>4, <1>5, <1>6, <1>7 DEF Parts

LEMMA StartedKeeps ==
  ASSUME TypeOK, Parts, Started, Elsewhere, \A c \in Clients : played'[c] = 0
  PROVE  Parts'
<1> DEFINE e == pending'.msg
<1>1. /\ combat.id = 0 /\ pending.to = {}
      /\ combat' \in Fight /\ combat'.id = 1 /\ combat'.next = 2 /\ combat'.active /\ ~combat'.ending
      /\ combat'.acts = [c \in Clients |-> 0] /\ combat'.turn \in DOMAIN combat'.order
      /\ pending' \in [msg : Events, to : {party}, tries : {0}]
      /\ e.seq = 1 /\ e.turn = combat'.turn /\ e.no = turnNo'
      /\ Whos(e.order) = Whos(combat'.order) /\ e.type = "BEGIN"
      /\ turnNo' = turnNo + 1 /\ strikes' = [now |-> 0, owing |-> {}, both |-> 0]
      /\ behind' = {} /\ lost' = {} /\ turnNo \in Nat
      /\ Told({e})
  BY DEF Started
<1>2. e \in Events /\ pending'.to = party
  BY <1>1
<1>3. Newest' = 1 /\ Newest = 0
  BY <1>1 DEF Newest, Parts, FightOK
<1>4. FightOK'
  <2>1. pending'.msg \in Events /\ pending'.msg.seq = combat'.next - 1
    BY <1>1, <1>2
  <2> QED BY <1>1, <2>1 DEF FightOK
<1>5. Struck'
  BY <1>1 DEF Struck
<1>6. Announced'
  BY <1>1 DEF Announced
<1>7. ASSUME NEW c \in Reached' PROVE Sight(c)'
  <2>1. /\ c \in Reached /\ c \in Clients /\ view'[c] = view[c] /\ ask'[c] = ask[c]
        /\ c \in pending'.to /\ c \in Owing'
    BY <1>2, <1>7 DEF Elsewhere, Reached, TypeOK, Owing
  <2>2. Delivered(c) /\ Shown(c) /\ Timely(c)
    BY <2>1 DEF Parts, Sight
  <2>3. view[c].last = 0 /\ ~view[c].on
    <3>1. view[c].last \in Nat
      BY <2>1 DEF TypeOK, Views
    <3> QED BY <3>1, <2>2, <1>3 DEF Shown
  <2>4. \A m \in ToSet(down[c]) : ~IsEvent(m)
    <3>1. \A m \in ToSet(down[c]) : IsEvent(m) => m.seq \in Nat \ {0}
      BY <2>1, TypedEvents DEF Events
    <3> QED BY <3>1, <2>2, <1>3 DEF Delivered
  <2>5. \A m \in ToSet(up[c]) : m.type # "ACK"
    <3>1. \A m \in ToSet(up[c]) : m.type = "ACK" => m.of \in Nat \ {0}
      BY <2>1, TypedEvents DEF Acks
    <3> QED BY <3>1, <2>2, <1>3 DEF Shown
  <2>6. /\ \A m \in ToSet(down'[c]) : IsEvent(m) => m \in ToSet(down[c]) \/ m = e
        /\ \A i, j \in DOMAIN down'[c] : i < j /\ IsEvent(down'[c][i]) /\ IsEvent(down'[c][j]) =>
             \/ i \in DOMAIN down[c] /\ j \in DOMAIN down[c]
                  /\ down'[c][i] = down[c][i] /\ down'[c][j] = down[c][j]
             \/ down'[c][i] \in ToSet(down[c]) \cup {e} /\ down'[c][j] = e
    <3>1. {e} \subseteq Events
      BY <1>2
    <3> HIDE DEF e
    <3> QED BY <3>1, <1>1, <2>1, ToldFrames
  <2>7. ToSet(up'[c]) \subseteq ToSet(up[c])
    BY <2>1, UpOrder DEF Elsewhere
  <2>8. e.seq = 1 /\ e.type = "BEGIN"
    BY <1>1
  <2>9. \A m \in ToSet(down'[c]) : IsEvent(m) => m = e
    BY <2>4, <2>6
  <2>10. \A m \in ToSet(up'[c]) : m.type # "ACK"
    BY <2>5, <2>7
  <2>11. Delivered(c)'
    <3>1. InOrderOf(down'[c])
      <4>1. \A i \in DOMAIN down'[c] : IsEvent(down'[c][i]) => down'[c][i] = e
        BY <2>9 DEF ToSet
      <4> HIDE DEF e
      <4> QED BY <4>1, <2>8 DEF InOrderOf
    <3> QED BY <3>1, <2>1, <2>3, <2>8, <2>9, <1>3 DEF Delivered
  <2>12. Shown(c)'
    BY <2>1, <2>2, <2>3, <2>10, <1>3 DEF Shown
  <2>13. Unsure(c)'
    BY <2>1, <2>3, <2>8, <1>3 DEF Unsure
  <2>14. Ordered(c)'
    BY <2>1, <2>3, <2>8, <2>9, <2>13, <1>3 DEF Ordered
  <2>15. Timely(c)'
    BY <2>1, <2>2, <2>10 DEF Timely, ToSet
  <2> QED BY <2>11, <2>12, <2>14, <2>15 DEF Sight
<1> QED BY <1>4, <1>5, <1>6, <1>7 DEF Parts

-----------------------------------------------------------------------------
(* Acknowledgements, departures, the radio *)

\* The fight and the event go on; fewer may owe an answer, or are in reach.
Unmoved ==
  /\ combat' = combat /\ pending'.msg = pending.msg /\ turnNo' = turnNo /\ strikes' = strikes
  /\ pending'.to \subseteq pending.to /\ played' = played

LEMMA UnmovedKeeps ==
  ASSUME TypeOK, Parts, Unmoved, \A c \in Reached' : Sight(c)'
  PROVE  Parts'
<1>1. FightOK'
  BY DEF Parts, FightOK, Unmoved
<1>2. Struck' /\ Announced'
  BY DEF Parts, Struck, Announced, Current, Unmoved
<1> QED BY <1>1, <1>2 DEF Parts

\* Nothing of c changes but that frames are lost or taken.
LEMMA FewerFrames ==
  ASSUME TypeOK, Unmoved, NEW c \in Reached, Sight(c), view'[c] = view[c], ask'[c] = ask[c],
         ToSet(up'[c]) \subseteq ToSet(up[c]),
         \A i, j \in DOMAIN up'[c] : i < j =>
           \E k, l \in DOMAIN up[c] : k < l /\ up'[c][i] = up[c][k] /\ up'[c][j] = up[c][l],
         ToSet(down'[c]) \subseteq ToSet(down[c]),
         \A i, j \in DOMAIN down'[c] : i < j =>
           \E k, l \in DOMAIN down[c] : k < l /\ down'[c][i] = down[c][k] /\ down'[c][j] = down[c][l],
         c \in Owing => c \in Owing', Unsure(c) => Unsure(c)'
  PROVE  Sight(c)'
<1>1. Delivered(c) /\ Shown(c) /\ Ordered(c) /\ Timely(c) /\ Newest' = Newest
  BY DEF Sight, Newest, Unmoved
<1>2. Delivered(c)'
  <2>1. InOrderOf(down'[c])
    BY <1>1 DEF Delivered, InOrderOf
  <2> QED BY <1>1, <2>1 DEF Delivered, Unmoved
<1>3. Shown(c)'
  BY <1>1 DEF Shown, Unmoved
<1>4. Ordered(c)'
  BY <1>1 DEF Ordered, Unmoved
<1>5. Timely(c)'
  BY <1>1 DEF Timely, Unmoved
<1> QED BY <1>2, <1>3, <1>4, <1>5 DEF Sight

LEMMA SameFrames ==
  ASSUME NEW s, NEW t, t = s
  PROVE  /\ ToSet(t) \subseteq ToSet(s)
         /\ \A i, j \in DOMAIN t : i < j => \E k, l \in DOMAIN s : k < l /\ t[i] = s[k] /\ t[j] = s[l]
  OBVIOUS

LEMMA DownOrder ==
  ASSUME NEW S, NEW s \in Seq(S), NEW t \in Seq(S), LeftOut(t, s)
  PROVE  /\ ToSet(t) \subseteq ToSet(s)
         /\ \A i, j \in DOMAIN t : i < j => \E k, l \in DOMAIN s : k < l /\ t[i] = s[k] /\ t[j] = s[l]
  BY LeftOutSet, LeftOutOrder

LEMMA TailAt ==
  ASSUME NEW S, NEW s \in Seq(S), s # <<>>
  PROVE  \A j \in DOMAIN Tail(s) : j + 1 \in DOMAIN s /\ Tail(s)[j] = s[j + 1]
  OBVIOUS

LEMMA AckKeeps ==
  ASSUME TypeOK, Parts, NEW c \in Clients, c \in party, up[c] # <<>>, NEW m, m = Head(up[c]), m.type = "ACK",
         ProcessCombatAck(c, m), up' = [up EXCEPT ![c] = Tail(@)], UNCHANGED <<gone, view, ask>>
  PROVE  Parts' /\ UpShrinks
<1>1. /\ up[c] \in Seq(UpFrames) /\ Tail(up[c]) \in Seq(UpFrames) /\ LeftOut(Tail(up[c]), up[c])
      /\ m = up[c][1] /\ 1 \in DOMAIN up[c] /\ m \in ToSet(up[c])
  <2>1. up[c] \in Seq(UpFrames)
    BY DEF TypeOK
  <2> QED BY <2>1, TailLeaves DEF ToSet
<1>2. UpShrinks
  BY <1>1 DEF UpShrinks, TypeOK
<1> DEFINE right == RightAck(m)
<1>3. /\ pending'.msg = pending.msg /\ pending'.to = IF right THEN pending.to \ {c} ELSE pending.to
      /\ behind' = IF right THEN behind \ {c} ELSE behind
      /\ lost' = IF right /\ pending.msg.type = "BEGIN" THEN lost \ {c} ELSE lost
      /\ party' = party /\ combat' = combat /\ down' = down /\ turnNo' = turnNo /\ strikes' = strikes
      /\ played' = played
  BY DEF ProcessCombatAck, TypeOK
<1>4. Unmoved
  BY <1>3 DEF Unmoved
<1>5. right => combat.id = 1 /\ m.of = Newest
  <2>1. combat.active => combat.id = 1 /\ pending.msg.seq = Newest
    BY ActiveFight DEF Ready, Parts, Newest
  <2> QED BY <2>1 DEF RightAck
<1> HIDE DEF right
<1>6. ASSUME NEW d \in Reached' PROVE Sight(d)'
  <2>1. d \in Reached /\ d \in Clients /\ Sight(d) /\ view'[d] = view[d] /\ ask'[d] = ask[d] /\ down'[d] = down[d]
    BY <1>3, <1>6 DEF Reached, TypeOK, Parts
  <2>2. /\ ToSet(up'[d]) \subseteq ToSet(up[d])
        /\ \A i, j \in DOMAIN up'[d] : i < j =>
             \E k, l \in DOMAIN up[d] : k < l /\ up'[d][i] = up[d][k] /\ up'[d][j] = up[d][l]
    BY <1>2, <2>1, UpOrder
  <2>3. CASE d # c \/ ~right
    <3>1. (d \in Owing' <=> d \in Owing) /\ (Unsure(d)' <=> Unsure(d))
      BY <1>3, <1>4, <2>1, <2>3 DEF Owing, Unsure, Newest
    <3> QED BY <1>4, <2>1, <2>2, <3>1, SameFrames, FewerFrames
  <2>4. CASE d = c /\ right
    <3>1. view[c].last = Newest /\ Delivered(c) /\ Shown(c) /\ Ordered(c) /\ Timely(c) /\ Newest' = Newest
      BY <1>1, <1>3, <1>5, <2>1, <2>4 DEF Sight, Shown, Newest
    <3>2. \A j \in DOMAIN up'[c] : j + 1 \in DOMAIN up[c] /\ up'[c][j] = up[c][j + 1]
      <4>1. up'[c] = Tail(up[c])
        BY DEF TypeOK
      <4> QED BY <4>1, <1>1, TailAt
    <3>3. \A x \in ToSet(up'[c]) : x.type = "REQUEST" => x.no = turnNo
      <4> SUFFICES ASSUME NEW j \in DOMAIN up'[c], up'[c][j].type = "REQUEST" PROVE up'[c][j].no = turnNo
        BY DEF ToSet
      <4>1. j \in Nat /\ 1 < j + 1
        <5>1. up'[c] \in Seq(UpFrames)
          BY <1>2 DEF UpShrinks
        <5> QED BY <5>1
      <4> QED BY <1>1, <1>5, <2>4, <3>1, <3>2, <4>1 DEF Timely
    <3>4. Delivered(c)'
      BY <1>3, <2>1, <2>4, <3>1 DEF Delivered
    <3>5. Shown(c)'
      BY <1>3, <2>1, <2>2, <2>4, <3>1 DEF Shown
    <3>6. Ordered(c)'
      <4> SUFFICES ASSUME combat.id = 1, ~combat.ending
                   PROVE  /\ view[c].last > 0 => view[c].on
                          /\ ~Unsure(c)' => view[c].on /\ Whos(view[c].order) = Whos(combat.order)
                          /\ view[c].last = Newest /\ pending.msg.type = "BEGIN" => Whos(view[c].order) = Whos(combat.order)
                          /\ pending.msg.type # "END"
                          /\ \A x \in ToSet(down[c]) : IsEvent(x) =>
                               /\ x.type # "END"
                               /\ x.type = "BEGIN" => \/ x.seq <= view[c].last \/ Unsure(c)'
                                                      \/ Whos(x.order) = Whos(combat.order)
        BY <1>3, <2>1, <2>4, <3>1 DEF Ordered
      <4>1. view[c].last > 0
        <5>1. combat.id = 1
          BY <1>5, <2>4
        <5>2. combat.next >= 2 /\ combat.next \in Nat
          BY <5>1 DEF Parts, FightOK, TypeOK, Fight
        <5> QED BY <5>2, <3>1 DEF Newest
      <4>2. \A x \in ToSet(down[c]) : IsEvent(x) => x.seq <= view[c].last
        BY <3>1 DEF Delivered
      <4>3. ~Unsure(c)' => Whos(view[c].order) = Whos(combat.order)
        <5>1. CASE pending.msg.type = "BEGIN"
          BY <5>1, <3>1 DEF Ordered
        <5>2. CASE pending.msg.type # "BEGIN"
          <6>1. lost' = lost /\ (Unsure(c) <=> c \in lost) /\ (Unsure(c)' <=> c \in lost)
            BY <5>2, <1>3 DEF Unsure
          <6> QED BY <6>1, <3>1 DEF Ordered
        <5> QED BY <5>1, <5>2
      <4> QED BY <3>1, <4>1, <4>2, <4>3 DEF Ordered
    <3>7. Timely(c)'
      BY <1>3, <2>1, <2>2, <2>4, <3>1, <3>3 DEF Timely
    <3> QED BY <2>4, <3>4, <3>5, <3>6, <3>7 DEF Sight
  <2> QED BY <2>3, <2>4
<1> QED BY <1>2, <1>4, <1>6, UnmovedKeeps


-----------------------------------------------------------------------------
(* The host alone *)

\* A step of the fight, or its beginning, keeps the types of what it changes.
LEMMA StepTyped ==
  ASSUME Ready, NEW a, HostStep(a) \/ Started
  PROVE  /\ combat' \in Fight /\ pending' \in [msg : {None} \cup Events, to : SUBSET Clients, tries : Nat]
         /\ down' \in [Clients -> Seq(Events \cup Notes)] /\ turnNo' \in Nat /\ strikes' \in Tallies
<1>1. TypeOK
  BY DEF Ready
<1>2. ASSUME NEW E, E \subseteq Events, Told(E) PROVE down' \in [Clients -> Seq(Events \cup Notes)]
  <2>1. \A c \in Clients : down'[c] \in Seq(Events \cup Notes)
    BY <1>1, <1>2, ToldFrames
  <2>2. PICK t : down' = [c \in Clients |-> down[c] \o t[c]]
    BY <1>2 DEF Told
  <2> QED BY <2>1, <2>2
<1>3. CASE Quiet(a)
  <2>1. combat' \in Fight /\ pending' = pending /\ turnNo' = turnNo /\ strikes' = strikes /\ Told({})
    BY <1>3 DEF Quiet
  <2>2. {} \subseteq Events
    OBVIOUS
  <2>3. down' \in [Clients -> Seq(Events \cup Notes)]
    BY <2>1, <2>2, <1>2
  <2> QED BY <2>1, <2>3, <1>1 DEF TypeOK
<1>4. ASSUME pending' \in [msg : Events, to : {party}, tries : {0}], Told({pending'.msg})
      PROVE  /\ pending' \in [msg : {None} \cup Events, to : SUBSET Clients, tries : Nat]
             /\ down' \in [Clients -> Seq(Events \cup Notes)]
  <2>1. party \subseteq Clients
    BY <1>1 DEF TypeOK
  <2>2. {pending'.msg} \subseteq Events
    BY <1>4
  <2>3. down' \in [Clients -> Seq(Events \cup Notes)]
    BY <2>2, <1>4, <1>2
  <2> QED BY <1>4, <2>1, <2>3
<1>5. CASE Emitted(a)
  BY <1>5, <1>4 DEF Emitted, Sent, Scored
<1>6. CASE Started
  <2>1. /\ combat' \in Fight /\ turnNo' = turnNo + 1 /\ strikes' = [now |-> 0, owing |-> {}, both |-> 0]
        /\ pending' \in [msg : Events, to : {party}, tries : {0}] /\ Told({pending'.msg})
    BY <1>6 DEF Started
  <2>2. turnNo \in Nat
    BY <1>1 DEF TypeOK
  <2>3. strikes' \in Tallies
    BY <2>1 DEF Tallies
  <2> QED BY <2>1, <2>2, <2>3, <1>4
<1> QED BY <1>3, <1>5, <1>6 DEF HostStep

\* The fight goes on or begins, and nothing else that the invariants speak of changes
\* but the requests that ran.
FightStep(a) == Started \/ (HostStep(a) /\ UNCHANGED <<behind, lost>>)

LEMMA FightStepKeeps ==
  ASSUME TypeOK, Parts, NEW a, FightStep(a), Elsewhere, 
         \A c \in Clients : played'[c] <= a[c] /\ (combat.id = 0 => played'[c] = 0)
  PROVE  Parts' /\ behind' \subseteq Clients /\ lost' \subseteq Clients
<1>1. CASE Quiet(a) /\ UNCHANGED <<behind, lost>>
  BY <1>1, QuietKeeps DEF TypeOK
<1>2. CASE Emitted(a) /\ UNCHANGED <<behind, lost>>
  BY <1>2, EmittedKeeps DEF TypeOK
<1>3. CASE Started
  <2>1. combat.id = 0 /\ behind' = {} /\ lost' = {}
    BY <1>3 DEF Started
  <2> QED BY <2>1, <1>3, StartedKeeps
<1> QED BY <1>1, <1>2, <1>3 DEF FightStep, HostStep

Budgeted == budget' \in [party : SUBSET Clients, place : [Players -> Rooms], events : Nat, requests : Nat,
                         casts : Nat, doors : Nat, leaves : Nat, disturbances : Nat]

LEMMA Spent ==
  ASSUME TypeOK, NEW what \in {"doors", "leaves", "disturbances"}, Spend(what)
  PROVE  Budgeted
<1> DEFINE B == [party : SUBSET Clients, place : [Players -> Rooms], events : Nat, requests : Nat,
                 casts : Nat, doors : Nat, leaves : Nat, disturbances : Nat]
<1>1. budget \in B /\ budget[what] \in Nat
  BY DEF TypeOK
<1>2. budget[what] - 1 \in Nat /\ budget' = [budget EXCEPT ![what] = budget[what] - 1]
  BY <1>1 DEF Spend
<1>3. \A n \in Nat : [budget EXCEPT ![what] = n] \in B
  BY <1>1
<1> QED BY <1>2, <1>3 DEF Budgeted

LEMMA Unspent ==
  ASSUME TypeOK, budget' = budget
  PROVE  Budgeted
  BY DEF TypeOK, Budgeted

HostAlone ==
  \/ \E p \in Players : MonsterNotices(p)
  \/ HostOpens
  \/ \E action \in Actions : HostActs(action)
  \/ \E r \in Rooms : HostCrosses(r)
  \/ HostUpdate

LEMMA HostAloneSteps ==
  ASSUME Ready, HostAlone
  PROVE  /\ FightStep(combat.acts) /\ HeardSame /\ Budgeted /\ place' \in [Players -> Rooms]
         /\ UNCHANGED <<party, gone, view, ask, cast, up, played, late, resolved>>
<1>1. TypeOK /\ Host \in Players /\ place \in [Players -> Rooms]
  BY DEF Ready, Players, TypeOK
<1>2. heard' = heard => HeardSame
  BY <1>1 DEF HeardSame, TypeOK
<1>3. ASSUME NEW p \in Players, MonsterNotices(p)
      PROVE  /\ FightStep(combat.acts) /\ HeardSame /\ Budgeted /\ place' \in [Players -> Rooms]
             /\ UNCHANGED <<party, gone, view, ask, cast, up, played, late, resolved>>
  <2>1. /\ StartCombat(place[p], None) /\ place[p] \in Rooms
        /\ UNCHANGED <<party, gone, place, heard, view, ask, cast, up, budget, played, late, resolved>>
    BY <1>1, <1>3 DEF MonsterNotices
  <2>2. Started
    BY <2>1, StartBegins
  <2> QED BY <2>1, <2>2, <1>1, <1>2, Unspent DEF FightStep
<1>4. CASE HostOpens
  <2> DEFINE o == [who |-> Host, seq |-> 0]
  <2>1. /\ StartCombat(place[Host], o) /\ place[Host] \in Rooms
        /\ o \in {None} \cup [who : Players, seq : Nat]
        /\ UNCHANGED <<party, gone, place, heard, view, ask, cast, up, budget, played, late, resolved>>
    BY <1>1, <1>4 DEF HostOpens
  <2> HIDE DEF o
  <2>2. Started
    BY <2>1, StartBegins
  <2> QED BY <2>1, <2>2, <1>1, <1>2, Unspent DEF FightStep
<1>5. ASSUME NEW action \in Actions, HostActs(action)
      PROVE  /\ FightStep(combat.acts) /\ HeardSame /\ Budgeted /\ place' \in [Players -> Rooms]
             /\ UNCHANGED <<party, gone, view, ask, cast, up, played, late, resolved>>
  <2>1. /\ combat.active /\ pending.to = {} /\ Act(combat, Host, Current.room, action)
        /\ UNCHANGED <<party, gone, place, heard, view, ask, cast, up, budget, behind, lost, played, late, resolved>>
    BY <1>5 DEF HostActs, Busy
  <2>2. Base(combat.acts, combat) /\ Owes(combat) /\ combat.acts \in [Clients -> Nat]
    BY <1>1, <2>1, NotedBase DEF TypeOK, Fight
  <2>3. Emitted(combat.acts)
    BY <1>1, <2>1, <2>2, ActSends DEF Players
  <2> QED BY <2>1, <2>3, <1>1, <1>2, Unspent DEF FightStep, HostStep
<1>6. ASSUME NEW r \in Rooms, HostCrosses(r)
      PROVE  /\ FightStep(combat.acts) /\ HeardSame /\ Budgeted /\ place' \in [Players -> Rooms]
             /\ UNCHANGED <<party, gone, view, ask, cast, up, played, late, resolved>>
  <2>1. /\ combat.active /\ Spend("doors") /\ CrossDoor(Host, r)
        /\ UNCHANGED <<party, gone, heard, view, ask, cast, up, behind, lost, played, late, resolved>>
    BY <1>6 DEF HostCrosses
  <2> QED BY <2>1, <1>1, <1>2, CrossDoorSteps, Spent DEF FightStep
<1>7. CASE HostUpdate
  <2>1. UNCHANGED <<party, gone, place, view, ask, cast, up, budget, behind, lost, played, late, resolved>>
    BY <1>7 DEF HostUpdate
  <2> QED BY <2>1, <1>1, <1>7, HostUpdateSteps, Unspent DEF FightStep
<1> QED BY <1>3, <1>4, <1>5, <1>6, <1>7 DEF HostAlone

\* What TypeOK says of the variables a step of the fight leaves to the caller.
RestTyped ==
  /\ party' \subseteq Clients /\ gone' \subseteq Clients /\ late' \subseteq Clients
  /\ place' \in [Players -> Rooms]
  /\ heard' \in [Players -> [seq : Nat, ready : BOOLEAN]]
  /\ view' \in [Clients -> Views]
  /\ ask' \in [Clients -> {None} \cup [seq : Nat, msg : Requests, tries : Nat]]
  /\ cast' \in [Clients -> [seq : Nat, waits : BOOLEAN, tries : Nat]]
  /\ up' \in [Clients -> Seq(UpFrames)]
  /\ played' \in [Clients -> Nat] /\ resolved' \in [Clients -> Nat]
  /\ Budgeted

LEMMA FightStepTyped ==
  ASSUME TypeOK, Parts, NEW a, FightStep(a), behind' \subseteq Clients, lost' \subseteq Clients, RestTyped
  PROVE  TypeOK'
<1>1. /\ combat' \in Fight /\ pending' \in [msg : {None} \cup Events, to : SUBSET Clients, tries : Nat]
      /\ down' \in [Clients -> Seq(Events \cup Notes)] /\ turnNo' \in Nat /\ strikes' \in Tallies
  BY StepTyped DEF FightStep, Ready, Parts
<1> QED BY <1>1 DEF TypeOK, RestTyped, Budgeted

LEMMA HostAloneKeeps ==
  ASSUME IInv, HostAlone
  PROVE  IInv'
<1>1. TypeOK /\ Parts /\ Ready /\ ActedInTime /\ \A c \in Clients : Commanded(c)
  BY DEF IInv, Parts, Ready
<1>2. /\ FightStep(combat.acts) /\ HeardSame /\ Budgeted /\ place' \in [Players -> Rooms]
      /\ UNCHANGED <<party, gone, view, ask, cast, up, played, late, resolved>>
  BY <1>1, HostAloneSteps
<1>3. Elsewhere
  BY <1>1, <1>2 DEF Elsewhere, UpShrinks, TypeOK
<1>4. \A c \in Clients : played'[c] <= combat.acts[c] /\ (combat.id = 0 => played'[c] = 0)
  BY <1>1, <1>2 DEF Parts, FightOK
<1>5. Parts' /\ behind' \subseteq Clients /\ lost' \subseteq Clients
  BY <1>1, <1>2, <1>3, <1>4, FightStepKeeps
<1>6. RestTyped
  BY <1>1, <1>2 DEF RestTyped, TypeOK, HeardSame
<1>7. TypeOK'
  BY <1>1, <1>2, <1>5, <1>6, FightStepTyped
<1>8. ActedInTime' /\ \A c \in Clients : Commanded(c)'
  BY <1>1, <1>2 DEF ActedInTime, Commanded, HeardSame, Players
<1> QED BY <1>5, <1>7, <1>8 DEF IInv, Parts

-----------------------------------------------------------------------------
(* A frame that reaches the host *)

\* What a frame may do that moves the fight or leaves it alone: a request runs in its
\* turn, and commands are heard after they were given and before they are resolved.
Handled ==
  /\ \E a : FightStep(a) /\ \A c \in Clients : played'[c] <= a[c] /\ (combat.id = 0 => played'[c] = 0)
  /\ party' = party /\ late' = {}
  /\ place' \in [Players -> Rooms]
  /\ heard' \in [Players -> [seq : Nat, ready : BOOLEAN]]
  /\ played' \in [Clients -> Nat] /\ resolved' \in [Clients -> Nat]
  /\ \A c \in Clients : resolved'[c] <= heard'[c].seq /\ heard'[c].seq <= cast[c].seq

LEMMA KeptQuiet ==
  ASSUME Ready, UNCHANGED <<combat, pending, turnNo, strikes>>, Told({})
  PROVE  Quiet(combat.acts)
  BY DEF Quiet, Ready, TypeOK, Fight

LEMMA KeptHandled ==
  ASSUME IInv, UNCHANGED <<combat, pending, turnNo, strikes>>, Told({}),
         UNCHANGED <<party, place, heard, behind, lost, played, late, resolved>>
  PROVE  Handled
<1>1. Ready /\ TypeOK /\ FightOK /\ ActedInTime /\ \A c \in Clients : Commanded(c)
  BY DEF IInv, Ready
<1>2. FightStep(combat.acts)
  BY <1>1, KeptQuiet DEF FightStep, HostStep
<1>3. \A c \in Clients : played'[c] <= combat.acts[c] /\ (combat.id = 0 => played'[c] = 0)
  BY <1>1 DEF FightOK
<1> QED BY <1>1, <1>2, <1>3 DEF Handled, TypeOK, ActedInTime, Commanded

LEMMA RequestHandled ==
  ASSUME IInv, NEW c \in Clients, c \in party, NEW m \in ToSet(up[c]), m.type = "REQUEST",
         ProcessRequest(c, m), gone' = gone
  PROVE  Handled
<1>1. /\ Ready /\ TypeOK /\ FightOK /\ ActedInTime /\ \A x \in Clients : Commanded(x)
      /\ m \in Requests /\ c \in Players
  BY TypedEvents DEF IInv, Ready, Players
<1>2. CASE ~NewRequest(c, m)
  <2>1. /\ UNCHANGED <<combat, pending, turnNo, strikes, down>>
        /\ UNCHANGED <<party, place, heard, behind, lost, played, late, resolved>>
    BY <1>2 DEF ProcessRequest, HostKeeps
  <2>2. Told({})
    BY <1>1, <2>1, NothingNew
  <2> QED BY <2>1, <2>2, KeptHandled
<1>3. CASE NewRequest(c, m)
  <2> DEFINE a == [combat.acts EXCEPT ![c] = m.seq]
             noted == [combat EXCEPT !.acts = a]
  <2>1. /\ combat.active /\ pending.to = {} /\ m.seq > combat.acts[c] /\ m.seq \in Nat
        /\ m.action \in Actions /\ combat.acts \in [Clients -> Nat] /\ a \in [Clients -> Nat]
    BY <1>1, <1>3 DEF NewRequest, Busy, Requests, TypeOK, Fight
  <2>2. Base(a, noted) /\ Owes(noted) /\ noted.left = combat.left /\ combat.id = 1
    BY <1>1, <2>1, NotedBase, ActiveFight
  <2>3. /\ \/ /\ Act(noted, c, m.room, m.action)
              /\ late' = IF (c \in Following /\ m.no # turnNo) \/ m.seq <= played[c] THEN late \cup {c} ELSE late
              /\ played' = [played EXCEPT ![c] = m.seq]
           \/ combat' = noted /\ UNCHANGED <<pending, alive, down, turnNo, strikes, played, late>>
        /\ UNCHANGED <<party, place, heard, behind, lost, resolved>>
    BY <1>3 DEF ProcessRequest
  <2>4. played \in [Clients -> Nat] /\ \A x \in Clients : played[x] <= combat.acts[x]
    BY <1>1 DEF TypeOK, FightOK
  <2>5. ~(m.seq <= played[c])
    BY <2>1, <2>4
  <2>6. c \in Following => m.no = turnNo
    <3>1. c \in Following => c \in Reached /\ c \notin Owing
      BY <2>1 DEF Following, Reached, Owing
    <3> QED BY <3>1 DEF IInv, Sight, Timely
  <2>7. late = {}
    BY <1>1 DEF ActedInTime
  <2>8. \A x \in Clients : a[x] = IF x = c THEN m.seq ELSE combat.acts[x]
    BY <2>1
  <2>9. CASE /\ Act(noted, c, m.room, m.action)
             /\ late' = IF (c \in Following /\ m.no # turnNo) \/ m.seq <= played[c] THEN late \cup {c} ELSE late
             /\ played' = [played EXCEPT ![c] = m.seq]
    <3> HIDE DEF a, noted
    <3>1. Emitted(a)
      BY <1>1, <2>1, <2>2, <2>9, ActSends
    <3>2. FightStep(a)
      BY <3>1, <2>3 DEF FightStep, HostStep
    <3>3. played' \in [Clients -> Nat] /\ \A x \in Clients : played'[x] <= a[x]
      BY <2>1, <2>4, <2>8, <2>9
    <3>4. late' = {}
      BY <2>5, <2>6, <2>7, <2>9
    <3> QED BY <1>1, <2>2, <2>3, <3>2, <3>3, <3>4 DEF Handled, TypeOK, Commanded
  <2>10. CASE combat' = noted /\ UNCHANGED <<pending, alive, down, turnNo, strikes, played, late>>
    <3>1. Told({})
      BY <1>1, <2>10, NothingNew
    <3>5. combat \in Fight /\ noted.ending = combat.ending /\ noted.active = combat.active
      BY <1>1 DEF TypeOK, Fight
    <3> HIDE DEF a, noted
    <3>2. Quiet(a)
      BY <2>2, <2>10, <3>1, <3>5 DEF Quiet, Base, Fits, Owes
    <3>3. FightStep(a)
      BY <3>2, <2>3 DEF FightStep, HostStep
    <3>4. \A x \in Clients : played'[x] <= a[x]
      BY <2>1, <2>4, <2>8, <2>10
    <3> QED BY <1>1, <2>2, <2>3, <2>7, <2>10, <3>3, <3>4 DEF Handled, TypeOK, Commanded
  <2> QED BY <2>3, <2>9, <2>10
<1> QED BY <1>2, <1>3

LEMMA Answered ==
  ASSUME TypeOK, NEW c \in Clients, NEW n \in Notes, down' = [down EXCEPT ![c] = Append(@, n)]
  PROVE  Told({})
<1> DEFINE t == Only(c, n)
<1>1. t \in [Clients -> Seq(Notes)] /\ t[c] = <<n>> /\ \A x \in Clients : x # c => t[x] = <<>>
  <2>1. t \in [Clients -> Seq(Notes)]
    BY OthersTold
  <2> QED BY <2>1 DEF Only
<1>2. ASSUME NEW x \in Clients PROVE down'[x] = down[x] \o t[x]
  <2>1. down[x] \in Seq(Events \cup Notes) /\ n \in Events \cup Notes
    BY DEF TypeOK
  <2>2. x # c => down'[x] = down[x]
    BY DEF TypeOK
  <2>3. x = c => down'[x] = Append(down[x], n)
    BY DEF TypeOK
  <2>4. ASSUME NEW S, NEW s \in Seq(S), NEW y \in S PROVE s \o <<>> = s /\ s \o <<y>> = Append(s, y)
    OBVIOUS
  <2>5. down[x] \o <<>> = down[x] /\ down[x] \o <<n>> = Append(down[x], n)
    <3> DEFINE S == Events \cup Notes
               s == down[x]
    <3>1. s \in Seq(S) /\ n \in S
      BY <2>1
    <3> HIDE DEF S, s
    <3>2. s \o <<>> = s /\ s \o <<n>> = Append(s, n)
      BY <3>1, <2>4
    <3> QED BY <3>2 DEF s
  <2> HIDE DEF t
  <2> QED BY <2>2, <2>3, <2>5, <1>1
<1>3. down' = [x \in Clients |-> down'[x]]
  BY DEF TypeOK
<1> HIDE DEF t
<1>4. down' = [x \in Clients |-> down[x] \o t[x]]
  BY <1>2, <1>3
<1> QED BY <1>1, <1>4, NotesOnly

LEMMA AbilityHandled ==
  ASSUME IInv, NEW c \in Clients, NEW m \in ToSet(up[c]), m.type = "ABILITY", ProcessAbility(c, m)
  PROVE  Handled
<1>1. /\ Ready /\ TypeOK /\ FightOK /\ ActedInTime /\ (\A x \in Clients : Commanded(x))
      /\ m \in Commands /\ c \in Players
  BY TypedEvents DEF IInv, Ready, Players
<1>2. m.seq \in Nat /\ m.seq <= cast[c].seq
  BY <1>1 DEF Commands, Commanded
<1> DEFINE n == [type |-> "ABILITY", seq |-> m.seq]
<1>3. n \in Notes
  BY <1>2 DEF Notes
<1>4. party' = party /\ place' = place /\ played' = played /\ late' = late
  BY DEF ProcessAbility
<1>5. /\ heard \in [Players -> [seq : Nat, ready : BOOLEAN]] /\ resolved \in [Clients -> Nat]
      /\ heard[c].seq \in Nat /\ resolved[c] \in Nat /\ resolved[c] <= heard[c].seq
  BY <1>1 DEF TypeOK, Commanded
<1>6. \A x \in Clients : played[x] <= combat.acts[x] /\ (combat.id = 0 => played[x] = 0)
  BY <1>1 DEF FightOK
<1>7. CASE m.seq = heard[c].seq /\ UNCHANGED <<heard, combat, pending, alive, turnNo, strikes, behind, lost, resolved>>
           /\ down' = IF heard[c].ready THEN [down EXCEPT ![c] = Append(@, n)] ELSE down
  <2>1. Told({})
    BY <1>1, <1>3, <1>7, Answered, NothingNew
  <2> QED BY <2>1, <1>4, <1>7, KeptHandled
<1>8. CASE HostKeeps /\ UNCHANGED <<heard, behind, lost, resolved>>
  <2>1. Told({})
    BY <1>1, <1>8, NothingNew DEF HostKeeps
  <2> QED BY <2>1, <1>4, <1>8, KeptHandled DEF HostKeeps
<1>9. ASSUME NewCommand(c, m), NEW b \in BOOLEAN, heard' = [heard EXCEPT ![c] = [seq |-> m.seq, ready |-> b]],
             resolved' \in {resolved, [resolved EXCEPT ![c] = @ + 1]}, NEW a, FightStep(a),
             \A x \in Clients : played'[x] <= a[x] /\ (combat.id = 0 => played'[x] = 0)
      PROVE  Handled
  <2>1. m.seq > heard[c].seq
    BY <1>9 DEF NewCommand
  <2>2. heard' \in [Players -> [seq : Nat, ready : BOOLEAN]] /\ resolved' \in [Clients -> Nat]
    BY <1>1, <1>2, <1>5, <1>9
  <2>3. /\ heard'[c].seq = m.seq /\ (resolved'[c] = resolved[c] \/ resolved'[c] = resolved[c] + 1)
        /\ \A x \in Clients : x # c => heard'[x] = heard[x] /\ resolved'[x] = resolved[x]
    BY <1>1, <1>5, <1>9
  <2>4. resolved'[c] <= m.seq
    BY <2>1, <2>3, <1>2, <1>5
  <2>5. \A x \in Clients : resolved'[x] <= heard'[x].seq /\ heard'[x].seq <= cast[x].seq
    BY <2>3, <2>4, <1>1, <1>2 DEF Commanded
  <2>6. late' = {} /\ place' \in [Players -> Rooms] /\ played' \in [Clients -> Nat]
    BY <1>1, <1>4 DEF ActedInTime, TypeOK
  <2> QED BY <1>4, <1>9, <2>2, <2>5, <2>6 DEF Handled
<1>10. CASE /\ NewCommand(c, m)
            /\ heard' = [heard EXCEPT ![c] = [seq |-> m.seq, ready |-> TRUE]]
            /\ down' = [down EXCEPT ![c] = Append(@, n)]
            /\ resolved' \in {resolved, [resolved EXCEPT ![c] = @ + 1]}
            /\ UNCHANGED <<combat, pending, turnNo, strikes, behind, lost>>
  <2>1. Told({})
    BY <1>1, <1>3, <1>10, Answered
  <2>2. FightStep(combat.acts)
    BY <2>1, <1>1, <1>10, KeptQuiet DEF FightStep, HostStep
  <2> QED BY <2>2, <1>4, <1>6, <1>9, <1>10
<1>11. CASE /\ NewCommand(c, m)
            /\ StartCombat(place[c], [who |-> c, seq |-> m.seq])
            /\ heard' = [heard EXCEPT ![c] = [seq |-> m.seq, ready |-> FALSE]]
            /\ resolved' = [resolved EXCEPT ![c] = @ + 1]
  <2> DEFINE o == [who |-> c, seq |-> m.seq]
  <2>1. StartCombat(place[c], o) /\ o \in {None} \cup [who : Players, seq : Nat] /\ place[c] \in Rooms
    BY <1>1, <1>2, <1>11 DEF TypeOK
  <2> HIDE DEF o
  <2>2. Started
    BY <1>1, <2>1, StartBegins
  <2>3. FightStep(combat.acts)
    BY <2>2 DEF FightStep
  <2> QED BY <2>3, <1>4, <1>6, <1>9, <1>11
<1> QED BY <1>7, <1>8, <1>10, <1>11 DEF ProcessAbility

LEMMA DoorHandled ==
  ASSUME IInv, NEW c \in Clients, NEW m \in Doors, ProcessRoomTransition(c, m)
  PROVE  Handled
<1>1. /\ Ready /\ TypeOK /\ FightOK /\ ActedInTime /\ (\A x \in Clients : Commanded(x))
      /\ m.room \in Rooms /\ c \in Players
  BY DEF IInv, Ready, Players, Doors
<1>2. UNCHANGED <<party, heard, behind, lost, played, late, resolved>>
  BY DEF ProcessRoomTransition
<1>3. CASE HostKeeps /\ UNCHANGED place
  <2>1. Told({})
    BY <1>1, <1>3, NothingNew DEF HostKeeps
  <2> QED BY <2>1, <1>2, <1>3, KeptHandled DEF HostKeeps
<1>4. CASE combat.active /\ CrossDoor(c, m.room)
  <2>1. HostStep(combat.acts) /\ place' \in [Players -> Rooms]
    BY <1>1, <1>4, CrossDoorSteps
  <2>2. \A x \in Clients : played'[x] <= combat.acts[x] /\ (combat.id = 0 => played'[x] = 0)
    BY <1>1, <1>2 DEF FightOK
  <2> QED BY <2>1, <2>2, <1>1, <1>2 DEF Handled, FightStep, TypeOK, ActedInTime, Commanded
<1> QED BY <1>3, <1>4 DEF ProcessRoomTransition

LEMMA HandledKeeps ==
  ASSUME IInv, Handled, UpShrinks, UNCHANGED <<gone, view, ask, cast, budget>>
  PROVE  IInv'
<1>1. TypeOK /\ Parts /\ \A c \in Clients : Commanded(c)
  BY DEF IInv, Parts
<1>2. PICK a : FightStep(a) /\ \A c \in Clients : played'[c] <= a[c] /\ (combat.id = 0 => played'[c] = 0)
  BY DEF Handled
<1>3. Elsewhere
  BY DEF Elsewhere, Handled
<1>4. Parts' /\ behind' \subseteq Clients /\ lost' \subseteq Clients
  BY <1>1, <1>2, <1>3, FightStepKeeps
<1>5. RestTyped
  BY <1>1, Unspent DEF RestTyped, TypeOK, Handled, UpShrinks
<1>6. TypeOK'
  BY <1>1, <1>2, <1>4, <1>5, FightStepTyped
<1>7. ActedInTime'
  BY DEF ActedInTime, Handled
<1>8. ASSUME NEW c \in Clients PROVE Commanded(c)'
  <2>1. ToSet(up'[c]) \subseteq ToSet(up[c])
    BY <1>1, UpOrder
  <2> QED BY <2>1, <1>1 DEF Handled, Commanded
<1> QED BY <1>4, <1>6, <1>7, <1>8 DEF IInv, Parts

\* The fight and the commands aside, only acknowledgements and departures.
LEMMA UnmovedStep ==
  ASSUME IInv, Parts', UpShrinks, UNCHANGED <<place, heard, view, ask, cast, combat, alive, down, turnNo, strikes,
                                              played, late, resolved>>,
         party' \subseteq party, gone' = gone, behind' \subseteq behind, lost' \subseteq lost, Budgeted,
         pending' \in [msg : {pending.msg}, to : SUBSET pending.to, tries : Nat]
  PROVE  IInv'
<1>1. TypeOK /\ ActedInTime /\ \A c \in Clients : Commanded(c)
  BY DEF IInv
<1>2. TypeOK'
  BY <1>1 DEF TypeOK, Budgeted, UpShrinks
<1>3. ActedInTime'
  BY <1>1 DEF ActedInTime
<1>4. ASSUME NEW c \in Clients PROVE Commanded(c)'
  <2>1. ToSet(up'[c]) \subseteq ToSet(up[c])
    BY <1>1, UpOrder
  <2> QED BY <2>1, <1>1 DEF Commanded
<1> QED BY <1>2, <1>3, <1>4 DEF IInv, Parts

LEMMA LeaveKeeps ==
  ASSUME TypeOK, Parts, NEW c \in Clients, ProcessLeave(c), UpShrinks, UNCHANGED <<gone, view, ask>>
  PROVE  Parts'
<1>1. /\ party' = party \ {c}
      /\ UNCHANGED <<combat, pending, alive, down, turnNo, strikes, behind, lost, played>>
  BY DEF ProcessLeave, HostKeeps
<1>2. Unmoved
  BY <1>1 DEF Unmoved
<1>3. ASSUME NEW d \in Reached' PROVE Sight(d)'
  <2>1. d \in Reached /\ d \in Clients /\ Sight(d) /\ view'[d] = view[d] /\ ask'[d] = ask[d] /\ down'[d] = down[d]
    BY <1>1, <1>3 DEF Reached, TypeOK, Parts
  <2>2. /\ ToSet(up'[d]) \subseteq ToSet(up[d])
        /\ \A i, j \in DOMAIN up'[d] : i < j =>
             \E k, l \in DOMAIN up[d] : k < l /\ up'[d][i] = up[d][k] /\ up'[d][j] = up[d][l]
    BY <2>1, UpOrder
  <2>3. (d \in Owing => d \in Owing') /\ (Unsure(d) => Unsure(d)')
    BY <1>1, <2>1 DEF Owing, Unsure, Newest
  <2> QED BY <1>2, <2>1, <2>2, <2>3, SameFrames, FewerFrames
<1> QED BY <1>2, <1>3, UnmovedKeeps

LEMMA HostReceivesKeeps ==
  ASSUME IInv, NEW c \in Clients, HostReceives(c)
  PROVE  IInv'
<1> DEFINE m == Head(up[c])
<1>1. /\ TypeOK /\ Parts /\ up[c] # <<>> /\ up' = [up EXCEPT ![c] = Tail(@)]
      /\ UNCHANGED <<gone, view, ask, cast, budget>>
  BY DEF IInv, Parts, HostReceives
<1>2. up[c] \in Seq(UpFrames)
  BY <1>1 DEF TypeOK
<1>3. Tail(up[c]) \in Seq(UpFrames) /\ LeftOut(Tail(up[c]), up[c]) /\ m \in UpFrames /\ m \in ToSet(up[c])
  BY <1>1, <1>2, TailLeaves DEF ToSet
<1>4. UpShrinks
  BY <1>1, <1>3 DEF UpShrinks, TypeOK
<1>5. \/ m.type = "ACK" \/ m.type = "REQUEST" \/ m.type = "ABILITY" \/ (m.type = "DOOR" /\ m \in Doors)
      \/ m.type = "LEAVE"
  BY <1>3 DEF UpFrames, Acks, Requests, Commands, Doors, Leaves
<1>6. Budgeted
  BY <1>1, Unspent
<1>7. CASE c \notin party
  <2>1. HostKeeps /\ UNCHANGED <<party, place, heard, behind, lost, played, late, resolved>>
    BY <1>7 DEF HostReceives
  <2>2. Told({})
    BY <2>1, <1>1, NothingNew DEF HostKeeps
  <2>3. Handled
    BY <2>1, <2>2, KeptHandled DEF HostKeeps
  <2> QED BY <2>3, <1>1, <1>4, HandledKeeps
<1>8. CASE c \in party /\ m.type = "ACK"
  <2>1. ProcessCombatAck(c, m)
    BY <1>8 DEF HostReceives
  <2> HIDE DEF m
  <2>2. Parts'
    <3>1. m = Head(up[c])
      BY DEF m
    <3> QED BY <1>1, <1>8, <2>1, <3>1, AckKeeps
  <2>3. /\ behind' \subseteq behind /\ lost' \subseteq lost /\ party' = party
        /\ UNCHANGED <<place, heard, combat, alive, down, turnNo, strikes, played, late, resolved>>
        /\ pending' \in [msg : {pending.msg}, to : SUBSET pending.to, tries : Nat]
    <3>1. pending \in [msg : {pending.msg}, to : SUBSET pending.to, tries : Nat]
      BY <1>1 DEF TypeOK
    <3> QED BY <2>1, <3>1 DEF ProcessCombatAck
  <2> QED BY <1>1, <1>4, <1>6, <2>2, <2>3, UnmovedStep
<1>9. CASE c \in party /\ m.type = "REQUEST"
  <2>1. ProcessRequest(c, m)
    BY <1>9 DEF HostReceives
  <2> HIDE DEF m
  <2>2. Handled
    BY <1>1, <1>3, <1>9, <2>1, RequestHandled
  <2> QED BY <2>2, <1>1, <1>4, HandledKeeps
<1>10. CASE c \in party /\ m.type = "ABILITY"
  <2>1. ProcessAbility(c, m)
    BY <1>10 DEF HostReceives
  <2> HIDE DEF m
  <2>2. Handled
    BY <1>3, <1>10, <2>1, AbilityHandled
  <2> QED BY <2>2, <1>1, <1>4, HandledKeeps
<1>11. CASE c \in party /\ m.type = "DOOR" /\ m \in Doors
  <2>1. ProcessRoomTransition(c, m)
    BY <1>11 DEF HostReceives
  <2> HIDE DEF m
  <2>2. Handled
    BY <1>11, <2>1, DoorHandled
  <2> QED BY <2>2, <1>1, <1>4, HandledKeeps
<1>12. CASE c \in party /\ m.type = "LEAVE"
  <2>1. ProcessLeave(c)
    BY <1>12 DEF HostReceives
  <2>2. Parts'
    BY <1>1, <1>4, <2>1, LeaveKeeps
  <2>3. /\ behind' \subseteq behind /\ lost' \subseteq lost /\ party' \subseteq party
        /\ UNCHANGED <<place, heard, combat, alive, down, turnNo, strikes, played, late, resolved>>
        /\ pending' \in [msg : {pending.msg}, to : SUBSET pending.to, tries : Nat]
    BY <2>1, <1>1 DEF ProcessLeave, HostKeeps, TypeOK
  <2> QED BY <1>1, <1>4, <1>6, <2>2, <2>3, UnmovedStep
<1> QED BY <1>5, <1>7, <1>8, <1>9, <1>10, <1>11, <1>12

-----------------------------------------------------------------------------
(* The host repeats an event, or gives it up *)

LEMMA Appended ==
  ASSUME NEW S, NEW s \in Seq(S), NEW x \in S
  PROVE  /\ Append(s, x) \in Seq(S) /\ ToSet(Append(s, x)) = ToSet(s) \cup {x}
         /\ \A i, j \in DOMAIN Append(s, x) : i < j =>
              \/ i \in DOMAIN s /\ j \in DOMAIN s /\ Append(s, x)[i] = s[i] /\ Append(s, x)[j] = s[j]
              \/ Append(s, x)[i] \in ToSet(s) /\ Append(s, x)[j] = x
<1> DEFINE t == Append(s, x)
<1>1. /\ t \in Seq(S) /\ ToSet(t) = ToSet(s) \cup {x} /\ DOMAIN t = 1..(Len(s) + 1) /\ t[Len(s) + 1] = x
      /\ \A i \in DOMAIN s : i \in 1..Len(s) /\ t[i] = s[i]
  BY AppendSet
<1>2. Len(s) \in Nat /\ DOMAIN s = 1..Len(s)
  OBVIOUS
<1> HIDE DEF t
<1>3. ASSUME NEW i \in DOMAIN t, NEW j \in DOMAIN t, i < j
      PROVE  \/ i \in DOMAIN s /\ j \in DOMAIN s /\ t[i] = s[i] /\ t[j] = s[j]
             \/ t[i] \in ToSet(s) /\ t[j] = x
  <2>1. i \in DOMAIN s /\ (j \in DOMAIN s \/ j = Len(s) + 1)
    BY <1>1, <1>2, <1>3
  <2>2. t[i] \in ToSet(s)
    BY <2>1, <1>1 DEF ToSet
  <2> QED BY <2>1, <2>2, <1>1
<1>4. \A i, j \in DOMAIN t : i < j =>
        \/ i \in DOMAIN s /\ j \in DOMAIN s /\ t[i] = s[i] /\ t[j] = s[j]
        \/ t[i] \in ToSet(s) /\ t[j] = x
  BY <1>3
<1> QED BY <1>1, <1>4 DEF t

LEMMA HostRetryKeeps ==
  ASSUME IInv, HostRetry
  PROVE  IInv'
<1>1. /\ TypeOK /\ Parts /\ Ready /\ ActedInTime /\ (\A c \in Clients : Commanded(c)) /\ pending.to # {}
      /\ UNCHANGED <<party, gone, place, alive, combat, heard, view, ask, cast, up, turnNo, strikes, played,
                     late, resolved>>
  BY DEF IInv, Parts, Ready, HostRetry, Busy
<1>2. /\ combat.id = 1 /\ pending.msg \in Events /\ pending.msg.seq = Newest /\ IsEvent(pending.msg)
      /\ Newest \in Nat
  <2>1. combat.id = 1
    BY <1>1 DEF Parts, FightOK, TypeOK, Fight
  <2>2. pending.msg \in Events /\ pending.msg.seq = combat.next - 1 /\ combat.next >= 2 /\ combat.next \in Nat
    BY <1>1, <2>1 DEF Parts, FightOK, TypeOK, Fight
  <2> QED BY <2>1, <2>2 DEF Newest, Events, IsEvent
<1>3. Budgeted
  BY <1>1, Unspent, Spent DEF HostRetry
<1>4. CASE /\ pending' = [pending EXCEPT !.tries = @ + 1]
           /\ down' = [c \in Clients |-> IF c \in pending.to THEN Append(down[c], pending.msg) ELSE down[c]]
           /\ UNCHANGED <<behind, lost>>
  <2>1. \A c \in Clients : down[c] \in Seq(Events \cup Notes)
    BY <1>1 DEF TypeOK
  <2>2. ASSUME NEW c \in Clients
        PROVE  down'[c] = IF c \in pending.to THEN Append(down[c], pending.msg) ELSE down[c]
    BY <1>4
  <2>3. Unmoved /\ pending'.to = pending.to
    BY <1>1, <1>4 DEF Unmoved, TypeOK
  <2>4. ASSUME NEW c \in Clients, c \in pending.to
        PROVE  /\ down'[c] \in Seq(Events \cup Notes) /\ ToSet(down'[c]) = ToSet(down[c]) \cup {pending.msg}
               /\ \A i, j \in DOMAIN down'[c] : i < j =>
                    \/ i \in DOMAIN down[c] /\ j \in DOMAIN down[c] /\ down'[c][i] = down[c][i] /\ down'[c][j] = down[c][j]
                    \/ down'[c][i] \in ToSet(down[c]) /\ down'[c][j] = pending.msg
    <3> DEFINE S == Events \cup Notes
    <3>1. down[c] \in Seq(S) /\ pending.msg \in S /\ down'[c] = Append(down[c], pending.msg)
      BY <2>1, <2>2, <2>4, <1>2
    <3> DEFINE s == down[c]
               x == pending.msg
               t == down'[c]
    <3> HIDE DEF S
    <3>3. s \in Seq(S) /\ x \in S /\ t = Append(s, x)
      BY <3>1
    <3> HIDE DEF s, x, t
    <3>4. /\ t \in Seq(S) /\ ToSet(t) = ToSet(s) \cup {x}
          /\ \A i, j \in DOMAIN t : i < j =>
               \/ i \in DOMAIN s /\ j \in DOMAIN s /\ t[i] = s[i] /\ t[j] = s[j]
               \/ t[i] \in ToSet(s) /\ t[j] = x
      BY <3>3, Appended
    <3>2. /\ down'[c] \in Seq(S) /\ ToSet(down'[c]) = ToSet(down[c]) \cup {pending.msg}
          /\ \A i, j \in DOMAIN down'[c] : i < j =>
               \/ i \in DOMAIN down[c] /\ j \in DOMAIN down[c] /\ down'[c][i] = down[c][i] /\ down'[c][j] = down[c][j]
               \/ down'[c][i] \in ToSet(down[c]) /\ down'[c][j] = pending.msg
      BY <3>4 DEF s, x, t
    <3> QED BY <3>2 DEF S
  <2>5. TypeOK'
    <3>1. down' \in [Clients -> Seq(Events \cup Notes)]
      BY <2>1, <2>2, <2>4, <1>4
    <3>2. pending' \in [msg : {None} \cup Events, to : SUBSET Clients, tries : Nat]
      <4>1. /\ pending \in [msg : {None} \cup Events, to : SUBSET Clients, tries : Nat]
            /\ pending.tries + 1 \in Nat
        BY <1>1 DEF TypeOK
      <4> HIDE DEF None, Events
      <4>2. \A n \in Nat : [pending EXCEPT !.tries = n] \in [msg : {None} \cup Events, to : SUBSET Clients, tries : Nat]
        BY <4>1
      <4> QED BY <4>1, <4>2, <1>4
    <3> QED BY <3>1, <3>2, <1>1, <1>3, <1>4 DEF TypeOK, Budgeted
  <2>6. ASSUME NEW c \in Reached' PROVE Sight(c)'
    <3>1. c \in Reached /\ c \in Clients /\ Sight(c) /\ view'[c] = view[c] /\ ask'[c] = ask[c] /\ up'[c] = up[c]
      BY <1>1, <2>6 DEF Reached, TypeOK, Parts
    <3>2. (c \in Owing' <=> c \in Owing) /\ (Unsure(c)' <=> Unsure(c)) /\ Newest' = Newest
      BY <1>1, <1>4, <2>3 DEF Owing, Unsure, Newest, Unmoved
    <3>3. CASE c \notin pending.to
      <4>1. down'[c] = down[c]
        BY <3>1, <3>3, <2>2
      <4> QED BY <4>1, <1>1, <2>3, <3>1, <3>2, SameFrames, FewerFrames
    <3>4. CASE c \in pending.to
      <4>1. Delivered(c) /\ Shown(c) /\ Ordered(c) /\ Timely(c) /\ pending'.msg = pending.msg
        BY <3>1, <2>3 DEF Sight, Unmoved
      <4>2. \A m \in ToSet(down[c]) : IsEvent(m) => m.seq <= pending.msg.seq
        BY <4>1, <1>2 DEF Delivered
      <4>3. Delivered(c)'
        <5>1. InOrderOf(down'[c])
          BY <2>4, <3>1, <3>4, <4>1, <4>2 DEF Delivered, InOrderOf
        <5>2. view[c].last <= pending.msg.seq /\ pending.msg.seq <= Newest
          BY <4>1, <1>2 DEF Shown
        <5> QED BY <5>1, <5>2, <2>4, <3>1, <3>2, <3>4, <4>1 DEF Delivered
      <4>4. Shown(c)'
        BY <3>1, <3>2, <4>1, <2>3, <1>1 DEF Shown, Unmoved
      <4>5. Ordered(c)'
        <5>1. pending.msg.type = "BEGIN" => pending.msg.seq <= view[c].last \/ Unsure(c)
          <6>1. view[c].last <= Newest /\ view[c].last \in Nat
            BY <3>1, <4>1, <1>1 DEF Shown, TypeOK, Views
          <6>2. view[c].last < Newest \/ Newest <= view[c].last
            BY <6>1, <1>2
          <6> QED BY <6>2, <3>4, <1>2 DEF Unsure
        <5> QED BY <5>1, <2>3, <2>4, <3>1, <3>2, <3>4, <4>1, <1>1 DEF Ordered, Unmoved
      <4>6. Timely(c)'
        BY <3>1, <3>2, <4>1, <1>1 DEF Timely
      <4> QED BY <4>3, <4>4, <4>5, <4>6 DEF Sight
    <3> QED BY <3>3, <3>4
  <2>7. Parts'
    BY <1>1, <2>3, <2>6, UnmovedKeeps
  <2>8. ActedInTime' /\ \A c \in Clients : Commanded(c)'
    BY <1>1 DEF ActedInTime, Commanded
  <2> QED BY <2>5, <2>7, <2>8 DEF IInv, Parts
<1>5. CASE /\ pending' = [pending EXCEPT !.to = {}] /\ down' = down
           /\ IF pending.msg.type = "BEGIN"
              THEN lost' = lost \cup pending.to /\ UNCHANGED behind
              ELSE behind' = behind \cup pending.to /\ UNCHANGED lost
  <2>1. Unmoved /\ pending'.to = {}
    BY <1>1, <1>5 DEF Unmoved, TypeOK
  <2>2. TypeOK'
    BY <1>1, <1>3, <1>5 DEF TypeOK, Budgeted
  <2>3. ASSUME NEW c \in Reached' PROVE Sight(c)'
    <3>1. /\ c \in Reached /\ c \in Clients /\ Sight(c) /\ view'[c] = view[c] /\ ask'[c] = ask[c] /\ up'[c] = up[c]
          /\ down'[c] = down[c]
      BY <1>1, <1>5, <2>3 DEF Reached, TypeOK, Parts
    <3>2. (c \in Owing => c \in Owing') /\ (Unsure(c) => Unsure(c)')
      BY <1>1, <1>5, <2>1 DEF Owing, Unsure, Newest
    <3>3. /\ ToSet(up'[c]) \subseteq ToSet(up[c]) /\ ToSet(down'[c]) \subseteq ToSet(down[c])
          /\ \A i, j \in DOMAIN up'[c] : i < j =>
               \E k, l \in DOMAIN up[c] : k < l /\ up'[c][i] = up[c][k] /\ up'[c][j] = up[c][l]
          /\ \A i, j \in DOMAIN down'[c] : i < j =>
               \E k, l \in DOMAIN down[c] : k < l /\ down'[c][i] = down[c][k] /\ down'[c][j] = down[c][l]
      BY <3>1, SameFrames
    <3> QED BY <1>1, <2>1, <3>1, <3>2, <3>3, FewerFrames
  <2>4. Parts'
    BY <1>1, <2>1, <2>3, UnmovedKeeps
  <2>5. ActedInTime' /\ \A c \in Clients : Commanded(c)'
    BY <1>1 DEF ActedInTime, Commanded
  <2> QED BY <2>2, <2>4, <2>5 DEF IInv, Parts
<1> QED BY <1>4, <1>5 DEF HostRetry

-----------------------------------------------------------------------------
(* One client, its radio and its player *)

\* Only c is concerned; the host at most stops waiting for it.
Concerns(c) ==
  /\ UNCHANGED <<combat, turnNo, strikes, played, behind, lost>>
  /\ pending' \in {pending, [pending EXCEPT !.to = @ \ {c}]}
  /\ \A d \in Clients \ {c} : view'[d] = view[d] /\ ask'[d] = ask[d] /\ up'[d] = up[d] /\ down'[d] = down[d]
  /\ Reached' \subseteq Reached

LEMMA OneClient ==
  ASSUME TypeOK, Parts, NEW c \in Clients, Concerns(c), c \in Reached' => Sight(c)'
  PROVE  Parts'
<1>1. Unmoved
  BY DEF Unmoved, Concerns, TypeOK
<1>2. ASSUME NEW d \in Reached' PROVE Sight(d)'
  <2>1. CASE d # c
    <3>1. /\ d \in Reached /\ d \in Clients /\ Sight(d) /\ view'[d] = view[d] /\ ask'[d] = ask[d]
          /\ up'[d] = up[d] /\ down'[d] = down[d]
      BY <1>2, <2>1 DEF Concerns, Reached, TypeOK, Parts
    <3>2. pending'.msg = pending.msg /\ (d \in pending.to => d \in pending'.to)
      <4>1. CASE pending' = [pending EXCEPT !.to = @ \ {c}]
        <5>1. pending'.to = pending.to \ {c} /\ pending'.msg = pending.msg
          BY <4>1 DEF TypeOK
        <5> QED BY <5>1, <2>1
      <4> QED BY <4>1 DEF Concerns
    <3>3. lost' = lost /\ behind' = behind /\ combat' = combat /\ view'[d] = view[d]
      BY <3>1 DEF Concerns
    <3>4. (d \in Owing => d \in Owing') /\ (Unsure(d) => Unsure(d)')
      BY <3>2, <3>3 DEF Unsure, Newest, Owing
    <3> QED BY <1>1, <3>1, <3>4, SameFrames, FewerFrames
  <2> QED BY <2>1, <1>2
<1> QED BY <1>1, <1>2, UnmovedKeeps

\* A client sends a request of the turn it shows, or a frame of another kind, or
\* withdraws its request.
LEMMA SendsKeeps ==
  ASSUME TypeOK, Parts, NEW c \in Reached, Concerns(c), pending' = pending, down'[c] = down[c],
         \A f \in {"on", "id", "last", "turn", "order", "no"} : view'[c][f] = view[c][f],
         ask'[c] # None => ask'[c].msg.no = view[c].no,
         NEW m \in UpFrames, m.type # "ACK",
         m.type = "REQUEST" => view[c].on /\ m.no = view[c].no,
         up'[c] \in {up[c], Append(up[c], m)}
  PROVE  Sight(c)'
<1>1. c \in Clients /\ Delivered(c) /\ Shown(c) /\ Ordered(c) /\ Timely(c)
  BY DEF Parts, Sight, Reached, TypeOK
<1>2. /\ view'[c].on = view[c].on /\ view'[c].id = view[c].id /\ view'[c].last = view[c].last
      /\ view'[c].turn = view[c].turn /\ view'[c].order = view[c].order /\ view'[c].no = view[c].no
  <2>1. \A f \in {"on", "id", "last", "turn", "order", "no"} : view'[c][f] = view[c][f]
    OBVIOUS
  <2> QED BY <2>1
<1>3. Newest' = Newest /\ Owing' = Owing /\ (Unsure(c)' <=> Unsure(c)) /\ combat' = combat /\ turnNo' = turnNo
  BY <1>2 DEF Newest, Owing, Unsure, Concerns
<1>4. view[c].last = Newest /\ view[c].on => view[c].no = turnNo
  <2>1. CASE combat.id = 1
    BY <2>1, <1>1 DEF Shown
  <2>2. CASE combat.id # 1
    <3>1. Newest = 0
      BY <2>2 DEF Newest, Parts, FightOK, TypeOK, Fight
    <3> QED BY <3>1, <1>1 DEF Shown
  <2> QED BY <2>1, <2>2
<1>5. c \notin Owing /\ view[c].on => view[c].last = Newest
  <2>1. CASE combat.id = 1
    BY <2>1, <1>1 DEF Shown
  <2>2. CASE combat.id # 1
    <3>1. Newest = 0 /\ view[c].last \in Nat
      BY <2>2, <1>1 DEF Newest, Parts, FightOK, TypeOK, Fight, Views
    <3>2. view[c].last <= 0
      BY <3>1, <1>1 DEF Shown
    <3> QED BY <3>1, <3>2
  <2> QED BY <2>1, <2>2
<1>6. Delivered(c)'
  BY <1>1, <1>2, <1>3 DEF Delivered
<1>7. Ordered(c)'
  BY <1>1, <1>2, <1>3 DEF Ordered
<1>8. /\ ToSet(up'[c]) \subseteq ToSet(up[c]) \cup {m}
      /\ \A i, j \in DOMAIN up'[c] : i < j =>
           \/ i \in DOMAIN up[c] /\ j \in DOMAIN up[c] /\ up'[c][i] = up[c][i] /\ up'[c][j] = up[c][j]
           \/ up'[c][i] \in ToSet(up[c]) /\ up'[c][j] = m
  <2>1. up[c] \in Seq(UpFrames)
    BY <1>1 DEF TypeOK
  <2>2. CASE up'[c] = up[c]
    BY <2>2
  <2>3. CASE up'[c] = Append(up[c], m)
    <3> DEFINE S == UpFrames
               s == up[c]
               t == up'[c]
    <3>1. s \in Seq(S) /\ m \in S /\ t = Append(s, m)
      BY <2>1, <2>3
    <3> HIDE DEF S, s, t
    <3>2. /\ ToSet(t) = ToSet(s) \cup {m}
          /\ \A i, j \in DOMAIN t : i < j =>
               \/ i \in DOMAIN s /\ j \in DOMAIN s /\ t[i] = s[i] /\ t[j] = s[j]
               \/ t[i] \in ToSet(s) /\ t[j] = m
      BY <3>1, Appended
    <3> QED BY <3>2 DEF s, t
  <2> QED BY <2>2, <2>3
<1>9. Shown(c)'
  BY <1>1, <1>2, <1>3, <1>8 DEF Shown
<1>10. Timely(c)'
  <2>1. ask'[c] # None => ask'[c].msg.no = view'[c].no
    BY <1>2
  <2>2. c \notin Owing => \A x \in ToSet(up'[c]) : x.type = "REQUEST" => x.no = turnNo
    BY <1>1, <1>4, <1>5, <1>8 DEF Timely
  <2>3. ASSUME NEW i \in DOMAIN up'[c], NEW j \in DOMAIN up'[c],
               i < j, up'[c][i].type = "ACK", up'[c][j].type = "REQUEST", up'[c][i].of = Newest
        PROVE  up'[c][j].no = turnNo
    <3>1. CASE i \in DOMAIN up[c] /\ j \in DOMAIN up[c] /\ up'[c][i] = up[c][i] /\ up'[c][j] = up[c][j]
      BY <3>1, <2>3, <1>1 DEF Timely
    <3>2. CASE up'[c][i] \in ToSet(up[c]) /\ up'[c][j] = m
      <4>1. view[c].last = Newest
        BY <3>2, <2>3, <1>1 DEF Shown
      <4> QED BY <4>1, <3>2, <2>3, <1>4
    <3> QED BY <3>1, <3>2, <2>3, <1>8
  <2> QED BY <2>1, <2>2, <2>3, <1>3 DEF Timely
<1> QED BY <1>6, <1>7, <1>9, <1>10 DEF Sight

-----------------------------------------------------------------------------
(* A frame that reaches a client *)

\* What is left of the frames for c, and the frames it has sent with one more.
LEMMA Received ==
  ASSUME TypeOK, NEW c \in Clients, down[c] # <<>>, down'[c] = Tail(down[c]),
         NEW m, m = Head(down[c])
  PROVE  /\ m \in ToSet(down[c]) /\ m \in Events \cup Notes /\ down'[c] \in Seq(Events \cup Notes)
         /\ ToSet(down'[c]) \subseteq ToSet(down[c])
         /\ \A i, j \in DOMAIN down'[c] : i < j =>
              \E k, l \in DOMAIN down[c] : k < l /\ down'[c][i] = down[c][k] /\ down'[c][j] = down[c][l]
         /\ InOrderOf(down[c]) /\ IsEvent(m) =>
              \A x \in ToSet(down'[c]) : IsEvent(x) => m.seq <= x.seq
<1> DEFINE S == Events \cup Notes
           s == down[c]
           t == down'[c]
<1>1. s \in Seq(S) /\ s # <<>> /\ t = Tail(s) /\ m = Head(s)
  BY DEF TypeOK
<1> HIDE DEF S, s, t
<1>2. t \in Seq(S) /\ LeftOut(t, s) /\ m \in S /\ m = s[1] /\ 1 \in DOMAIN s
  BY <1>1, TailLeaves
<1>3. /\ ToSet(t) \subseteq ToSet(s)
      /\ \A i, j \in DOMAIN t : i < j => \E k, l \in DOMAIN s : k < l /\ t[i] = s[k] /\ t[j] = s[l]
  <2>1. ToSet(t) \subseteq ToSet(s)
    BY <1>1, <1>2, LeftOutSet
  <2>2. \A i, j \in DOMAIN t : i < j => \E k, l \in DOMAIN s : k < l /\ t[i] = s[k] /\ t[j] = s[l]
    BY <1>1, <1>2, LeftOutOrder
  <2> QED BY <2>1, <2>2
<1>4. \A j \in DOMAIN t : j + 1 \in DOMAIN s /\ t[j] = s[j + 1] /\ 1 < j + 1
  <2>1. \A j \in DOMAIN t : j + 1 \in DOMAIN s /\ t[j] = s[j + 1]
    BY <1>1, TailAt
  <2>2. \A j \in DOMAIN t : j \in Nat /\ j >= 1
    BY <1>2
  <2> QED BY <2>1, <2>2
<1>5. ASSUME InOrderOf(s), IsEvent(m), NEW x \in ToSet(t), IsEvent(x) PROVE m.seq <= x.seq
  <2>1. PICK j \in DOMAIN t : x = t[j]
    BY <1>5 DEF ToSet
  <2>2. j + 1 \in DOMAIN s /\ x = s[j + 1] /\ 1 < j + 1
    BY <2>1, <1>4
  <2> QED BY <2>2, <1>2, <1>5 DEF InOrderOf
<1>6. m \in ToSet(s)
  BY <1>2 DEF ToSet
<1> QED BY <1>2, <1>3, <1>5, <1>6 DEF S, s, t

LEMMA Acknowledged ==
  ASSUME TypeOK, NEW c \in Clients, NEW a \in UpFrames, a.type = "ACK", up'[c] = Append(up[c], a)
  PROVE  /\ up'[c] \in Seq(UpFrames) /\ ToSet(up'[c]) = ToSet(up[c]) \cup {a}
         /\ \A i, j \in DOMAIN up'[c] : i < j /\ up'[c][j].type # "ACK" =>
              i \in DOMAIN up[c] /\ j \in DOMAIN up[c] /\ up'[c][i] = up[c][i] /\ up'[c][j] = up[c][j]
<1> DEFINE S == UpFrames
           s == up[c]
           t == up'[c]
<1>1. s \in Seq(S) /\ a \in S /\ t = Append(s, a)
  BY DEF TypeOK
<1> HIDE DEF S, s, t
<1>2. /\ t \in Seq(S) /\ ToSet(t) = ToSet(s) \cup {a}
      /\ \A i, j \in DOMAIN t : i < j =>
           \/ i \in DOMAIN s /\ j \in DOMAIN s /\ t[i] = s[i] /\ t[j] = s[j]
           \/ t[i] \in ToSet(s) /\ t[j] = a
  BY <1>1, Appended
<1> QED BY <1>2 DEF S, s, t

\* An event that is no news is acknowledged once more.
LEMMA OldNewsKeeps ==
  ASSUME TypeOK, Parts, NEW c \in Reached, Concerns(c), pending' = pending,
         down[c] # <<>>, down'[c] = Tail(down[c]), NEW m, m = Head(down[c]), m \in Events,
         m.seq <= view[c].last, view'[c] = view[c], ask'[c] = ask[c],
         NEW a \in UpFrames, a.type = "ACK", a.of = m.seq, up'[c] = Append(up[c], a)
  PROVE  Sight(c)'
<1>1. c \in Clients /\ Delivered(c) /\ Shown(c) /\ Ordered(c) /\ Timely(c)
  BY DEF Parts, Sight, Reached, TypeOK
<1>2. Newest' = Newest /\ Owing' = Owing /\ (Unsure(c)' <=> Unsure(c)) /\ combat' = combat /\ turnNo' = turnNo
  BY DEF Newest, Owing, Unsure, Concerns
<1>3. /\ m \in ToSet(down[c]) /\ ToSet(down'[c]) \subseteq ToSet(down[c])
      /\ \A i, j \in DOMAIN down'[c] : i < j =>
           \E k, l \in DOMAIN down[c] : k < l /\ down'[c][i] = down[c][k] /\ down'[c][j] = down[c][l]
  BY <1>1, Received
<1>4. /\ ToSet(up'[c]) = ToSet(up[c]) \cup {a}
      /\ \A i, j \in DOMAIN up'[c] : i < j /\ up'[c][j].type # "ACK" =>
           i \in DOMAIN up[c] /\ j \in DOMAIN up[c] /\ up'[c][i] = up[c][i] /\ up'[c][j] = up[c][j]
  BY <1>1, Acknowledged
<1>5. a.of <= Newest /\ (a.of = Newest => view[c].last = Newest)
  <2>1. IsEvent(m) /\ m.seq \in Nat /\ view[c].last \in Nat
    BY <1>1 DEF IsEvent, Events, TypeOK, Views
  <2>2. view[c].last <= m.seq /\ m.seq <= Newest
    BY <2>1, <1>1, <1>3 DEF Delivered
  <2> QED BY <2>1, <2>2
<1>6. Delivered(c)'
  <2>1. InOrderOf(down'[c])
    BY <1>1, <1>3 DEF Delivered, InOrderOf
  <2> QED BY <2>1, <1>1, <1>2, <1>3 DEF Delivered
<1>7. Shown(c)'
  BY <1>1, <1>2, <1>4, <1>5 DEF Shown
<1>8. Ordered(c)'
  BY <1>1, <1>2, <1>3 DEF Ordered
<1>9. Timely(c)'
  BY <1>1, <1>2, <1>4 DEF Timely
<1> QED BY <1>6, <1>7, <1>8, <1>9 DEF Sight

\* A new event is shown and acknowledged.
LEMMA NewsKeeps ==
  ASSUME TypeOK, Parts, NEW c \in Reached, Concerns(c), pending' = pending,
         down[c] # <<>>, down'[c] = Tail(down[c]), NEW m, m = Head(down[c]), m \in Events,
         m.seq <= view[c].last => ~view[c].on,
         view'[c].on = (m.type # "END"), view'[c].id = 1, view'[c].last = m.seq,
         view'[c].turn = m.turn, view'[c].no = m.no,
         view'[c].order = IF m.type = "BEGIN" THEN m.order ELSE view[c].order,
         ask'[c] = None,
         NEW a \in UpFrames, a.type = "ACK", a.of = m.seq, up'[c] = Append(up[c], a)
  PROVE  Sight(c)'
<1>1. c \in Clients /\ Delivered(c) /\ Shown(c) /\ Ordered(c) /\ Timely(c)
  BY DEF Parts, Sight, Reached, TypeOK
<1>2. /\ Newest' = Newest /\ Owing' = Owing /\ combat' = combat /\ turnNo' = turnNo
      /\ lost' = lost
  BY DEF Newest, Owing, Concerns
<1>3. IsEvent(m) /\ m.seq \in Nat /\ m.seq # 0 /\ view[c].last \in Nat /\ Newest \in Int
  <2>1. IsEvent(m) /\ m.seq \in Nat /\ m.seq # 0
    BY DEF IsEvent, Events
  <2>2. view[c].last \in Nat
    BY <1>1 DEF TypeOK, Views
  <2>3. combat.next \in Nat
    BY DEF TypeOK, Fight
  <2> QED BY <2>1, <2>2, <2>3 DEF Newest
<1>4. /\ m \in ToSet(down[c]) /\ ToSet(down'[c]) \subseteq ToSet(down[c])
      /\ \A i, j \in DOMAIN down'[c] : i < j =>
           \E k, l \in DOMAIN down[c] : k < l /\ down'[c][i] = down[c][k] /\ down'[c][j] = down[c][l]
      /\ InOrderOf(down[c]) /\ IsEvent(m) =>
           \A x \in ToSet(down'[c]) : IsEvent(x) => m.seq <= x.seq
  BY <1>1, Received
<1>5. /\ ToSet(up'[c]) = ToSet(up[c]) \cup {a}
      /\ \A i, j \in DOMAIN up'[c] : i < j /\ up'[c][j].type # "ACK" =>
           i \in DOMAIN up[c] /\ j \in DOMAIN up[c] /\ up'[c][i] = up[c][i] /\ up'[c][j] = up[c][j]
  BY <1>1, Acknowledged
<1>6. view[c].last <= m.seq /\ m.seq <= Newest /\ (m.seq = Newest => m = pending.msg)
  BY <1>1, <1>3, <1>4 DEF Delivered
<1>7. combat.id = 1
  <2>1. combat.id = 0 => Newest = 0
    BY DEF Newest, Parts, FightOK
  <2>2. combat.id \in {0, 1}
    BY DEF TypeOK, Fight
  <2>3. Newest # 0
    BY <1>3, <1>6
  <2> QED BY <2>1, <2>2, <2>3
<1>8. view[c].last = Newest => m.seq = Newest
  BY <1>3, <1>6
<1>9. m.seq = Newest => m.no = turnNo /\ m.turn = combat.turn /\ Whos(m.order) = Whos(combat.order)
  BY <1>6, <1>7 DEF Parts, Announced
<1>10. Delivered(c)'
  <2>1. InOrderOf(down'[c])
    BY <1>1, <1>4 DEF Delivered, InOrderOf
  <2>2. \A x \in ToSet(down'[c]) : IsEvent(x) => m.seq <= x.seq
    BY <1>1, <1>3, <1>4 DEF Delivered
  <2> QED BY <2>1, <2>2, <1>1, <1>2, <1>4 DEF Delivered
<1>11. Shown(c)'
  <2>1. m.seq > 0
    BY <1>3
  <2>2. c \notin Owing => m.seq = Newest
    BY <1>1, <1>7, <1>8 DEF Shown
  <2>3. \A x \in ToSet(up'[c]) : x.type = "ACK" => x.of <= Newest /\ (x.of = Newest => m.seq = Newest)
    BY <1>1, <1>5, <1>6, <1>8 DEF Shown
  <2> QED BY <2>1, <2>2, <2>3, <1>2, <1>6, <1>9 DEF Shown
<1>12. Ordered(c)'
  <2> SUFFICES ASSUME ~combat.ending
               PROVE  /\ m.type # "END"
                      /\ ~Unsure(c)' => Whos(view'[c].order) = Whos(combat.order)
                      /\ m.seq = Newest /\ pending.msg.type = "BEGIN" => Whos(view'[c].order) = Whos(combat.order)
                      /\ pending.msg.type # "END"
                      /\ \A x \in ToSet(down'[c]) : IsEvent(x) =>
                           /\ x.type # "END"
                           /\ x.type = "BEGIN" => \/ x.seq <= m.seq \/ Unsure(c)' \/ Whos(x.order) = Whos(combat.order)
    BY <1>2, <1>7 DEF Ordered
  <2>1. /\ view[c].last > 0 => view[c].on
        /\ ~Unsure(c) => view[c].on /\ Whos(view[c].order) = Whos(combat.order)
        /\ pending.msg.type # "END"
        /\ \A x \in ToSet(down[c]) : IsEvent(x) =>
             /\ x.type # "END"
             /\ x.type = "BEGIN" => \/ x.seq <= view[c].last \/ Unsure(c) \/ Whos(x.order) = Whos(combat.order)
    BY <1>1, <1>7 DEF Ordered
  <2>2. m.type # "END" /\ (m.type = "BEGIN" => Unsure(c) \/ Whos(m.order) = Whos(combat.order))
    <3>1. ~(m.seq <= view[c].last)
      BY <2>1, <1>3
    <3> QED BY <3>1, <2>1, <1>3, <1>4
  <2>3. Unsure(c) /\ ~Unsure(c)' => pending.msg.type = "BEGIN" /\ m.seq = Newest /\ m = pending.msg
    <3>1. Unsure(c)' <=> (c \in lost \/ (c \in pending.to /\ pending.msg.type = "BEGIN" /\ m.seq < Newest))
      BY <1>2 DEF Unsure
    <3>2. m.seq < Newest \/ m.seq = Newest
      BY <1>3, <1>6
    <3> QED BY <3>1, <3>2, <1>6 DEF Unsure
  <2>4. Whos(view'[c].order) = IF m.type = "BEGIN" THEN Whos(m.order) ELSE Whos(view[c].order)
    OBVIOUS
  <2>5. ~Unsure(c)' => Whos(view'[c].order) = Whos(combat.order)
    BY <2>1, <2>2, <2>3, <2>4, <1>9
  <2>6. m.seq = Newest /\ pending.msg.type = "BEGIN" => Whos(view'[c].order) = Whos(combat.order)
    BY <2>4, <1>6, <1>9
  <2>7. ASSUME NEW x \in ToSet(down'[c]), IsEvent(x)
        PROVE  /\ x.type # "END"
               /\ x.type = "BEGIN" => \/ x.seq <= m.seq \/ Unsure(c)' \/ Whos(x.order) = Whos(combat.order)
    <3>1. x \in ToSet(down[c]) /\ x.seq \in Nat /\ x.seq <= Newest
      <4>1. x \in ToSet(down[c])
        BY <2>7, <1>4
      <4> QED BY <4>1, <2>7, <1>1, TypedEvents DEF Events, Delivered
    <3>2. x.seq <= view[c].last => x.seq <= m.seq
      BY <3>1, <1>3, <1>6
    <3> QED BY <3>1, <3>2, <2>1, <2>3, <2>7
  <2> QED BY <2>1, <2>2, <2>5, <2>6, <2>7
<1>13. Timely(c)'
  BY <1>1, <1>2, <1>5 DEF Timely
<1> QED BY <1>10, <1>11, <1>12, <1>13 DEF Sight

-----------------------------------------------------------------------------
(* What a client, its player and the radio do *)

Asked == {None} \cup [seq : Nat, msg : Requests, tries : Nat]
Casting == [seq : Nat, waits : BOOLEAN, tries : Nat]

\* v, q, k: what c shows, asks and casts afterwards; s, t: the frames from and to it.
Client(c, v, q, k, s, t) ==
  /\ view' = [view EXCEPT ![c] = v] /\ ask' = [ask EXCEPT ![c] = q] /\ cast' = [cast EXCEPT ![c] = k]
  /\ up' = [up EXCEPT ![c] = s] /\ down' = [down EXCEPT ![c] = t]
  /\ v \in Views /\ q \in Asked /\ k \in Casting /\ s \in Seq(UpFrames) /\ t \in Seq(Events \cup Notes)
  /\ cast[c].seq <= k.seq
  /\ \A m \in ToSet(s) : m.type = "ABILITY" => m \in ToSet(up[c]) \/ m.seq <= k.seq

OnlyOf(c) ==
  /\ UNCHANGED <<place, heard, combat, turnNo, strikes, behind, lost, played, late, resolved>>
  /\ pending' \in {pending, [pending EXCEPT !.to = @ \ {c}]}
  /\ party' \subseteq party /\ gone \subseteq gone' /\ gone' \subseteq Clients
  /\ Budgeted

LEMMA ClientTyped ==
  ASSUME TypeOK, NEW c \in Clients
  PROVE  /\ view[c] \in Views /\ ask[c] \in Asked /\ cast[c] \in Casting
         /\ up[c] \in Seq(UpFrames) /\ down[c] \in Seq(Events \cup Notes)
         /\ view = [view EXCEPT ![c] = view[c]] /\ ask = [ask EXCEPT ![c] = ask[c]]
         /\ cast = [cast EXCEPT ![c] = cast[c]]
         /\ up = [up EXCEPT ![c] = up[c]] /\ down = [down EXCEPT ![c] = down[c]]
  BY DEF TypeOK, Asked, Casting

LEMMA ClientConcerned ==
  ASSUME TypeOK, NEW c \in Clients, NEW v, NEW q, NEW k, NEW s, NEW t, Client(c, v, q, k, s, t), OnlyOf(c)
  PROVE  /\ Concerns(c)
         /\ view'[c] = v /\ ask'[c] = q /\ cast'[c] = k /\ up'[c] = s /\ down'[c] = t
         /\ \A d \in Clients \ {c} : cast'[d] = cast[d] /\ up'[d] = up[d]
<1>1. \A d \in Clients \ {c} : view'[d] = view[d] /\ ask'[d] = ask[d] /\ up'[d] = up[d] /\ down'[d] = down[d]
  BY DEF Client, TypeOK
<1>2. Concerns(c)
  BY <1>1 DEF Concerns, OnlyOf, Reached
<1> QED BY <1>2 DEF Client, TypeOK

LEMMA ClientKeeps ==
  ASSUME IInv, NEW c \in Clients, NEW v, NEW q, NEW k, NEW s, NEW t, Client(c, v, q, k, s, t), OnlyOf(c),
         c \in Reached' => Sight(c)'
  PROVE  IInv'
<1>1. TypeOK /\ Parts /\ ActedInTime /\ \A d \in Clients : Commanded(d)
  BY DEF IInv, Parts
<1>2. /\ Concerns(c)
      /\ view'[c] = v /\ ask'[c] = q /\ cast'[c] = k /\ up'[c] = s /\ down'[c] = t
      /\ \A d \in Clients \ {c} : cast'[d] = cast[d] /\ up'[d] = up[d]
  BY <1>1, ClientConcerned
<1>3. Parts'
  BY <1>1, <1>2, OneClient
<1>4. TypeOK'
  <2>1. pending' \in [msg : {None} \cup Events, to : SUBSET Clients, tries : Nat]
    BY <1>1 DEF TypeOK, OnlyOf
  <2>2. view' \in [Clients -> Views] /\ ask' \in [Clients -> Asked] /\ cast' \in [Clients -> Casting]
    BY <1>1 DEF TypeOK, Client, Asked, Casting
  <2>3. up' \in [Clients -> Seq(UpFrames)] /\ down' \in [Clients -> Seq(Events \cup Notes)]
    BY <1>1 DEF TypeOK, Client
  <2> QED BY <2>1, <2>2, <2>3, <1>1 DEF TypeOK, OnlyOf, Budgeted, Asked, Casting
<1>5. ActedInTime'
  BY <1>1 DEF ActedInTime, OnlyOf
<1>6. ASSUME NEW d \in Clients PROVE Commanded(d)'
  <2>1. Commanded(d) /\ resolved' = resolved /\ heard' = heard
    BY <1>1 DEF OnlyOf
  <2>2. CASE d # c
    BY <2>1, <2>2, <1>2 DEF Commanded
  <2>3. CASE d = c
    <3>1. /\ cast[c].seq \in Nat /\ k.seq \in Nat /\ heard[c].seq \in Nat /\ cast[c].seq <= k.seq
      BY <1>1 DEF Client, Casting, TypeOK, Players
    <3>2. heard[c].seq <= k.seq
      BY <3>1, <2>1, <2>3 DEF Commanded
    <3>3. \A m \in ToSet(s) : m.type = "ABILITY" => m.seq <= k.seq
      <4>1. \A m \in ToSet(up[c]) : m.type = "ABILITY" => m.seq \in Nat
        BY <1>1, TypedEvents DEF Commands
      <4> QED BY <4>1, <3>1, <2>1, <2>3 DEF Commanded, Client
    <3> QED BY <3>2, <3>3, <2>1, <2>3, <1>2 DEF Commanded
  <2> QED BY <2>2, <2>3
<1> QED BY <1>3, <1>4, <1>5, <1>6 DEF IInv, Parts

\* A frame is sent.
LEMMA OneMore ==
  ASSUME TypeOK, NEW c \in Clients, NEW m \in UpFrames
  PROVE  Append(up[c], m) \in Seq(UpFrames) /\ ToSet(Append(up[c], m)) = ToSet(up[c]) \cup {m}
<1> DEFINE S == UpFrames
           s == up[c]
<1>1. s \in Seq(S) /\ m \in S
  BY DEF TypeOK
<1> HIDE DEF S, s
<1>2. Append(s, m) \in Seq(S) /\ ToSet(Append(s, m)) = ToSet(s) \cup {m}
  BY <1>1, AppendSet
<1> QED BY <1>2 DEF S, s

LEMMA RequestKeeps ==
  ASSUME IInv, NEW c \in Clients, NEW action \in Actions, Request(c, action)
  PROVE  IInv'
<1> DEFINE m == [type |-> "REQUEST", id |-> view[c].id, seq |-> view[c].acts + 1, action |-> action,
                 room |-> view[c].order[view[c].turn].room, no |-> view[c].no]
           v == [view[c] EXCEPT !.acts = @ + 1]
           q == [seq |-> m.seq, msg |-> m, tries |-> 0]
           s == Append(up[c], m)
<1>1. TypeOK /\ Parts
  BY DEF IInv, Parts
<1>2. /\ MyTurn(c)
      /\ ask' = [ask EXCEPT ![c] = q] /\ view' = [view EXCEPT ![c].acts = @ + 1] /\ up' = [up EXCEPT ![c] = s]
      /\ UNCHANGED <<party, gone, place, heard, cast, down, budget, combat, pending, alive, turnNo, strikes,
                     behind, lost, played, late, resolved>>
  BY DEF Request, SendUp, table
<1>3. view[c] \in Views
  BY <1>1, ClientTyped
<1>4. m \in Requests
  <2>1. view[c].order[view[c].turn] \in Seat
    BY <1>2, <1>3 DEF MyTurn, Views
  <2>2. view[c].order[view[c].turn].room \in Rooms /\ view[c].acts + 1 \in Nat /\ view[c].id \in Nat
        /\ view[c].no \in Nat
    BY <2>1, <1>3 DEF Seat, Views
  <2> QED BY <2>2 DEF Requests
<1>5. v \in Views /\ \A f \in {"on", "id", "last", "turn", "order", "no"} : v[f] = view[c][f]
  BY <1>3 DEF Views
<1>6. view' = [view EXCEPT ![c] = v]
  BY <1>1, <1>2 DEF TypeOK
<1>7. q \in Asked /\ q.msg = m
  BY <1>4 DEF Asked, Requests
<1>8. m.type = "REQUEST" /\ m.no = view[c].no /\ view[c].on /\ m \in UpFrames
  BY <1>2, <1>4 DEF MyTurn, UpFrames
<1> HIDE DEF m, v, q
<1>9. s \in Seq(UpFrames) /\ ToSet(s) = ToSet(up[c]) \cup {m}
  BY <1>1, <1>8, OneMore
<1>10. OnlyOf(c)
  BY <1>1, <1>2, Unspent DEF OnlyOf, TypeOK
<1> HIDE DEF s
<1>11. Client(c, v, q, cast[c], s, down[c])
  <2>1. cast[c].seq <= cast[c].seq
    BY <1>1 DEF TypeOK
  <2> QED BY <2>1, <1>1, <1>2, <1>5, <1>6, <1>7, <1>8, <1>9, ClientTyped DEF Client
<1>12. Concerns(c) /\ view'[c] = v /\ ask'[c] = q /\ up'[c] = s /\ down'[c] = down[c]
  BY <1>1, <1>10, <1>11, ClientConcerned
<1>13. ASSUME c \in Reached' PROVE Sight(c)'
  <2>1. c \in Reached /\ pending' = pending
    BY <1>2, <1>13 DEF Reached
  <2>2. up'[c] \in {up[c], Append(up[c], m)}
    BY <1>12 DEF s
  <2> QED BY <2>1, <2>2, <1>1, <1>5, <1>7, <1>8, <1>12, SendsKeeps
<1> QED BY <1>10, <1>11, <1>13, ClientKeeps

LEMMA DueBudgeted ==
  ASSUME TypeOK, NEW c, NEW type, Due(c, type)
  PROVE  Budgeted
  BY Spent, Unspent DEF Due

LEMMA RetryRequestKeeps ==
  ASSUME IInv, NEW c \in Clients, RetryRequest(c)
  PROVE  IInv'
<1>1. TypeOK /\ Parts
  BY DEF IInv, Parts
<1>2. /\ view[c].on /\ ask[c] # None /\ Due(c, "REQUEST")
      /\ \/ ask' = [ask EXCEPT ![c].tries = @ + 1] /\ up' = [up EXCEPT ![c] = Append(@, ask[c].msg)]
         \/ ask' = [ask EXCEPT ![c] = None] /\ up' = up
      /\ UNCHANGED <<party, gone, place, heard, view, cast, down, combat, pending, alive, turnNo, strikes,
                     behind, lost, played, late, resolved>>
  BY DEF RetryRequest, SendUp, table
<1> DEFINE m == ask[c].msg
           d == [ask[c] EXCEPT !.tries = @ + 1]
<1>3. m \in Requests /\ d \in Asked /\ d.msg = m
  <2>1. ask[c] \in [seq : Nat, msg : Requests, tries : Nat]
    BY <1>1, <1>2 DEF TypeOK
  <2> QED BY <2>1 DEF Asked
<1>4. m.type = "REQUEST" /\ m \in UpFrames
  BY <1>3 DEF Requests, UpFrames
<1>5. PICK q, s : /\ ask' = [ask EXCEPT ![c] = q] /\ up' = [up EXCEPT ![c] = s]
                  /\ (q = d \/ q = None) /\ s \in {up[c], Append(up[c], m)}
  <2>1. CASE ask' = [ask EXCEPT ![c].tries = @ + 1] /\ up' = [up EXCEPT ![c] = Append(@, ask[c].msg)]
    BY <2>1
  <2>2. CASE ask' = [ask EXCEPT ![c] = None] /\ up' = up
    BY <2>2, <1>1, ClientTyped
  <2> QED BY <2>1, <2>2, <1>2
<1>6. q \in Asked /\ (q # None => q.msg = m)
  BY <1>3, <1>5 DEF Asked
<1> HIDE DEF m, d
<1>7. s \in Seq(UpFrames) /\ ToSet(s) \subseteq ToSet(up[c]) \cup {m}
  <2>1. up[c] \in Seq(UpFrames)
    BY <1>1, ClientTyped
  <2>2. Append(up[c], m) \in Seq(UpFrames) /\ ToSet(Append(up[c], m)) = ToSet(up[c]) \cup {m}
    BY <1>1, <1>4, OneMore
  <2> QED BY <1>5, <2>1, <2>2
<1>8. OnlyOf(c)
  BY <1>1, <1>2, DueBudgeted DEF OnlyOf, TypeOK
<1>9. Client(c, view[c], q, cast[c], s, down[c])
  <2>1. cast[c].seq <= cast[c].seq
    BY <1>1 DEF TypeOK
  <2>2. \A x \in ToSet(s) : x.type = "ABILITY" => x \in ToSet(up[c])
    BY <1>4, <1>7
  <2> QED BY <2>1, <2>2, <1>1, <1>2, <1>5, <1>6, <1>7, ClientTyped DEF Client
<1>10. Concerns(c) /\ view'[c] = view[c] /\ ask'[c] = q /\ up'[c] = s /\ down'[c] = down[c]
  BY <1>1, <1>8, <1>9, ClientConcerned
<1>11. ASSUME c \in Reached' PROVE Sight(c)'
  <2>1. c \in Reached /\ pending' = pending
    BY <1>2, <1>11 DEF Reached
  <2>2. m.no = view[c].no
    BY <2>1, <1>1, <1>2 DEF Parts, Sight, Timely, m
  <2> QED BY <2>1, <2>2, <1>1, <1>2, <1>4, <1>5, <1>6, <1>10, SendsKeeps
<1> QED BY <1>8, <1>9, <1>11, ClientKeeps

\* A frame that is neither an acknowledgement nor a request.
LEMMA OthersKeep ==
  ASSUME IInv, NEW c \in Clients, NEW k \in Casting, NEW m \in UpFrames, m.type \notin {"ACK", "REQUEST"},
         m.type = "ABILITY" => m.seq <= k.seq, cast[c].seq <= k.seq,
         NEW s \in {up[c], Append(up[c], m)},
         cast' = [cast EXCEPT ![c] = k], up' = [up EXCEPT ![c] = s],
         UNCHANGED <<view, ask, down, pending, party, gone>>, OnlyOf(c)
  PROVE  IInv'
<1>1. TypeOK /\ Parts
  BY DEF IInv, Parts
<1>2. s \in Seq(UpFrames) /\ ToSet(s) \subseteq ToSet(up[c]) \cup {m}
  <2>1. CASE s = up[c]
    BY <2>1, <1>1, ClientTyped
  <2>2. CASE s = Append(up[c], m)
    <3>1. Append(up[c], m) \in Seq(UpFrames) /\ ToSet(Append(up[c], m)) = ToSet(up[c]) \cup {m}
      BY <1>1, OneMore
    <3> QED BY <2>2, <3>1
  <2> QED BY <2>1, <2>2
<1>3. Client(c, view[c], ask[c], k, s, down[c])
  <2>1. \A x \in ToSet(s) : x.type = "ABILITY" => x \in ToSet(up[c]) \/ x.seq <= k.seq
    BY <1>2
  <2> QED BY <2>1, <1>1, <1>2, ClientTyped DEF Client
<1>4. Concerns(c) /\ view'[c] = view[c] /\ ask'[c] = ask[c] /\ up'[c] = s /\ down'[c] = down[c]
  BY <1>1, <1>3, ClientConcerned
<1>5. ASSUME c \in Reached' PROVE Sight(c)'
  <2>1. c \in Reached
    BY <1>5 DEF Reached
  <2>2. ask[c] # None => ask[c].msg.no = view[c].no
    BY <2>1, <1>1 DEF Parts, Sight, Timely
  <2> QED BY <2>1, <2>2, <1>1, <1>4, SendsKeeps
<1> QED BY <1>3, <1>5, ClientKeeps

LEMMA CastKeeps ==
  ASSUME IInv, NEW c \in Clients, Cast(c)
  PROVE  IInv'
<1> DEFINE k == [seq |-> cast[c].seq + 1, waits |-> TRUE, tries |-> 0]
           m == [type |-> "ABILITY", seq |-> cast[c].seq + 1]
           s == Append(up[c], m)
<1>1. TypeOK /\ cast[c].seq \in Nat
  BY DEF IInv, TypeOK
<1>2. /\ cast' = [cast EXCEPT ![c] = k] /\ up' = [up EXCEPT ![c] = s]
      /\ UNCHANGED <<party, gone, place, heard, view, ask, down, budget, combat, pending, alive, turnNo, strikes,
                     behind, lost, played, late, resolved>>
  BY DEF Cast, SendUp, table
<1>3. /\ k \in Casting /\ m \in UpFrames /\ m.type = "ABILITY" /\ m.seq <= k.seq /\ cast[c].seq <= k.seq
  BY <1>1 DEF Casting, UpFrames, Commands
<1>4. OnlyOf(c)
  BY <1>1, <1>2, Unspent DEF OnlyOf, TypeOK
<1> HIDE DEF k, m
<1> QED BY <1>2, <1>3, <1>4, OthersKeep

LEMMA RetryCastKeeps ==
  ASSUME IInv, NEW c \in Clients, RetryCast(c)
  PROVE  IInv'
<1> DEFINE m == [type |-> "ABILITY", seq |-> cast[c].seq]
           again == [cast[c] EXCEPT !.tries = @ + 1]
           over == [cast[c] EXCEPT !.waits = FALSE]
<1>1. TypeOK /\ cast[c] \in Casting /\ cast[c].seq \in Nat
  BY DEF IInv, TypeOK, Casting
<1>2. /\ Due(c, "ABILITY")
      /\ \/ cast' = [cast EXCEPT ![c].tries = @ + 1] /\ up' = [up EXCEPT ![c] = Append(@, m)]
         \/ cast' = [cast EXCEPT ![c].waits = FALSE] /\ up' = up
      /\ UNCHANGED <<party, gone, place, heard, view, ask, down, combat, pending, alive, turnNo, strikes,
                     behind, lost, played, late, resolved>>
  BY DEF RetryCast, SendUp, table
<1>3. /\ again \in Casting /\ again.seq = cast[c].seq /\ over \in Casting /\ over.seq = cast[c].seq
      /\ m \in UpFrames /\ m.type = "ABILITY" /\ m.seq = cast[c].seq /\ cast[c].seq <= cast[c].seq
  <2>1. again \in Casting /\ again.seq = cast[c].seq
    <3>1. cast[c].tries + 1 \in Nat
      BY <1>1 DEF Casting
    <3> QED BY <3>1, <1>1 DEF Casting
  <2>2. over \in Casting /\ over.seq = cast[c].seq
    BY <1>1 DEF Casting
  <2>3. m \in UpFrames /\ m.type = "ABILITY" /\ m.seq = cast[c].seq /\ cast[c].seq <= cast[c].seq
    BY <1>1 DEF UpFrames, Commands
  <2> QED BY <2>1, <2>2, <2>3
<1>4. OnlyOf(c)
  BY <1>1, <1>2, DueBudgeted DEF OnlyOf, TypeOK
<1>5. CASE cast' = [cast EXCEPT ![c].tries = @ + 1] /\ up' = [up EXCEPT ![c] = Append(@, m)]
  <2>1. cast' = [cast EXCEPT ![c] = again] /\ up' = [up EXCEPT ![c] = Append(up[c], m)]
    BY <1>5
  <2> HIDE DEF m, again
  <2> QED BY <2>1, <1>2, <1>3, <1>4, OthersKeep
<1>6. CASE cast' = [cast EXCEPT ![c].waits = FALSE] /\ up' = up
  <2>1. cast' = [cast EXCEPT ![c] = over] /\ up' = [up EXCEPT ![c] = up[c]]
    BY <1>6, <1>1, ClientTyped
  <2> HIDE DEF m, over
  <2> QED BY <2>1, <1>2, <1>3, <1>4, OthersKeep
<1> QED BY <1>2, <1>5, <1>6

LEMMA DoorKeeps ==
  ASSUME IInv, NEW c \in Clients, NEW r \in Rooms, Door(c, r)
  PROVE  IInv'
<1> DEFINE m == [type |-> "DOOR", room |-> r]
<1>1. TypeOK /\ cast[c] \in Casting /\ cast[c].seq \in Nat
  BY DEF IInv, TypeOK, Casting
<1>2. /\ Spend("doors") /\ up' = [up EXCEPT ![c] = Append(up[c], m)]
      /\ UNCHANGED <<party, gone, place, heard, view, ask, cast, down, combat, pending, alive, turnNo, strikes,
                     behind, lost, played, late, resolved>>
  BY DEF Door, SendUp, table
<1>3. m \in UpFrames /\ m.type = "DOOR" /\ cast[c].seq <= cast[c].seq
  BY <1>1 DEF UpFrames, Doors
<1>4. OnlyOf(c)
  BY <1>1, <1>2, Spent DEF OnlyOf, TypeOK
<1>5. cast' = [cast EXCEPT ![c] = cast[c]]
  BY <1>1, <1>2, ClientTyped
<1> HIDE DEF m
<1> QED BY <1>1, <1>2, <1>3, <1>4, <1>5, OthersKeep

LEMMA LeavingTyped ==
  ASSUME TypeOK, NEW c \in Clients
  PROVE  NoView \in Views /\ None \in Asked /\ [cast[c] EXCEPT !.waits = FALSE] \in Casting
         /\ [cast[c] EXCEPT !.waits = FALSE].seq = cast[c].seq /\ cast[c].seq <= cast[c].seq
<1>1. cast[c] \in Casting
  BY ClientTyped
<1>2. <<>> \in Seq(Seat)
  OBVIOUS
<1>3. NoView \in Views
  BY <1>2 DEF NoView, Views
<1>4. [cast[c] EXCEPT !.waits = FALSE] \in Casting /\ [cast[c] EXCEPT !.waits = FALSE].seq = cast[c].seq
  BY <1>1 DEF Casting
<1>5. cast[c].seq <= cast[c].seq
  BY <1>1 DEF Casting
<1>6. None \in Asked
  BY DEF Asked
<1> QED BY <1>3, <1>4, <1>5, <1>6

LEMMA LeavingKeeps ==
  ASSUME IInv, NEW c \in Clients, Leave(c)
  PROVE  IInv'
<1> DEFINE m == [type |-> "LEAVE"]
           s == Append(up[c], m)
           over == [cast[c] EXCEPT !.waits = FALSE]
<1>1. TypeOK
  BY DEF IInv
<1>2. /\ Spend("leaves") /\ gone' = gone \cup {c}
      /\ view' = [view EXCEPT ![c] = NoView] /\ ask' = [ask EXCEPT ![c] = None]
      /\ cast' = [cast EXCEPT ![c] = over] /\ up' = [up EXCEPT ![c] = s]
      /\ UNCHANGED <<party, place, heard, down, combat, pending, alive, turnNo, strikes,
                     behind, lost, played, late, resolved>>
  BY DEF Leave, SendUp, table
<1>3. m \in UpFrames /\ m.type = "LEAVE"
  BY DEF UpFrames, Leaves
<1> HIDE DEF m
<1>4. s \in Seq(UpFrames) /\ ToSet(s) = ToSet(up[c]) \cup {m}
  BY <1>1, <1>3, OneMore
<1>5. OnlyOf(c)
  BY <1>1, <1>2, Spent DEF OnlyOf, TypeOK
<1>6. Client(c, NoView, None, over, s, down[c])
  <2> HIDE DEF s
  <2>1. \A x \in ToSet(s) : x.type = "ABILITY" => x \in ToSet(up[c])
    BY <1>3, <1>4
  <2> QED BY <2>1, <1>1, <1>2, <1>4, ClientTyped, LeavingTyped DEF Client
<1>7. c \notin Reached'
  BY <1>2 DEF Reached
<1> QED BY <1>5, <1>6, <1>7, ClientKeeps

LEMMA DisconnectKeeps ==
  ASSUME IInv, NEW c \in Clients, Disconnect(c)
  PROVE  IInv'
<1> DEFINE over == [cast[c] EXCEPT !.waits = FALSE]
<1>1. TypeOK
  BY DEF IInv
<1>2. /\ Spend("leaves") /\ party' = party \ {c} /\ gone' = gone \cup {c}
      /\ pending' = [pending EXCEPT !.to = @ \ {c}]
      /\ view' = [view EXCEPT ![c] = NoView] /\ ask' = [ask EXCEPT ![c] = None]
      /\ cast' = [cast EXCEPT ![c] = over] /\ up' = [up EXCEPT ![c] = <<>>] /\ down' = [down EXCEPT ![c] = <<>>]
      /\ UNCHANGED <<place, alive, combat, heard, turnNo, strikes, behind, lost, played, late, resolved>>
  BY DEF Disconnect
<1>3. OnlyOf(c)
  BY <1>1, <1>2, Spent DEF OnlyOf, TypeOK
<1>4. Client(c, NoView, None, over, <<>>, <<>>)
  <2>1. <<>> \in Seq(UpFrames) /\ <<>> \in Seq(Events \cup Notes) /\ ToSet(<<>>) = {}
    BY DEF ToSet
  <2> HIDE DEF over
  <2>2. over \in Casting /\ over.seq = cast[c].seq
    BY <1>1, LeavingTyped DEF over
  <2> QED BY <2>1, <2>2, <1>1, <1>2, LeavingTyped DEF Client
<1>5. c \notin Reached'
  BY <1>2 DEF Reached
<1> QED BY <1>3, <1>4, <1>5, ClientKeeps

\* A frame fewer, from or to c.
LEMMA OneFewer ==
  ASSUME IInv, NEW c \in Clients, NEW s \in Seq(UpFrames), NEW t \in Seq(Events \cup Notes),
         s = up[c] \/ LeftOut(s, up[c]), t = down[c] \/ LeftOut(t, down[c]), NEW k \in Casting, k.seq = cast[c].seq,
         up' = [up EXCEPT ![c] = s], down' = [down EXCEPT ![c] = t], cast' = [cast EXCEPT ![c] = k],
         UNCHANGED <<view, ask, pending, party, gone>>, OnlyOf(c)
  PROVE  IInv'
<1>1. TypeOK /\ Parts /\ up[c] \in Seq(UpFrames) /\ down[c] \in Seq(Events \cup Notes)
  BY ClientTyped DEF IInv, Parts
<1>2. /\ ToSet(s) \subseteq ToSet(up[c])
      /\ \A i, j \in DOMAIN s : i < j => \E x, y \in DOMAIN up[c] : x < y /\ s[i] = up[c][x] /\ s[j] = up[c][y]
  <2>1. CASE s = up[c]
    BY <2>1, SameFrames
  <2>2. CASE LeftOut(s, up[c])
    <3>1. ToSet(s) \subseteq ToSet(up[c])
      BY <1>1, <2>2, LeftOutSet
    <3> QED BY <1>1, <2>2, <3>1, LeftOutOrder
  <2> QED BY <2>1, <2>2
<1>3. /\ ToSet(t) \subseteq ToSet(down[c])
      /\ \A i, j \in DOMAIN t : i < j => \E x, y \in DOMAIN down[c] : x < y /\ t[i] = down[c][x] /\ t[j] = down[c][y]
  <2>1. CASE t = down[c]
    BY <2>1, SameFrames
  <2>2. CASE LeftOut(t, down[c])
    <3>1. ToSet(t) \subseteq ToSet(down[c])
      BY <1>1, <2>2, LeftOutSet
    <3> QED BY <1>1, <2>2, <3>1, LeftOutOrder
  <2> QED BY <2>1, <2>2
<1>4. Client(c, view[c], ask[c], k, s, t)
  <2>1. cast[c].seq <= k.seq
    BY <1>1 DEF TypeOK
  <2> QED BY <2>1, <1>1, <1>2, ClientTyped DEF Client
<1>5. Concerns(c) /\ view'[c] = view[c] /\ ask'[c] = ask[c] /\ up'[c] = s /\ down'[c] = t
  BY <1>1, <1>4, ClientConcerned
<1>6. ASSUME c \in Reached' PROVE Sight(c)'
  <2>1. c \in Reached /\ Sight(c)
    BY <1>1, <1>6 DEF Reached, Parts
  <2>2. Unmoved /\ (c \in Owing => c \in Owing') /\ (Unsure(c) => Unsure(c)')
    BY <1>1, <1>5 DEF Unmoved, Concerns, Owing, Unsure, Newest
  <2>3. /\ ToSet(up'[c]) \subseteq ToSet(up[c])
        /\ \A i, j \in DOMAIN up'[c] : i < j =>
             \E x, y \in DOMAIN up[c] : x < y /\ up'[c][i] = up[c][x] /\ up'[c][j] = up[c][y]
    BY <1>2, <1>5
  <2>4. /\ ToSet(down'[c]) \subseteq ToSet(down[c])
        /\ \A i, j \in DOMAIN down'[c] : i < j =>
             \E x, y \in DOMAIN down[c] : x < y /\ down'[c][i] = down[c][x] /\ down'[c][j] = down[c][y]
    <3>1. PICK u : u = down'[c]
      OBVIOUS
    <3>2. u = t
      BY <1>5, <3>1
    <3>3. /\ ToSet(u) \subseteq ToSet(down[c])
          /\ \A i, j \in DOMAIN u : i < j => \E x, y \in DOMAIN down[c] : x < y /\ u[i] = down[c][x] /\ u[j] = down[c][y]
      BY <1>3, <3>2
    <3> QED BY <3>1, <3>3
  <2>5. TypeOK /\ view'[c] = view[c] /\ ask'[c] = ask[c]
    BY <1>1, <1>5
  <2> HIDE DEF Unmoved
  <2> QED BY <2>1, <2>2, <2>3, <2>4, <2>5, FewerFrames
<1> QED BY <1>4, <1>6, ClientKeeps

LEMMA LoseKeeps ==
  ASSUME IInv, NEW c \in Clients, Lose(c)
  PROVE  IInv'
<1>1. TypeOK /\ cast[c] \in Casting /\ up[c] \in Seq(UpFrames) /\ down[c] \in Seq(Events \cup Notes)
      /\ cast' = [cast EXCEPT ![c] = cast[c]]
  BY ClientTyped DEF IInv, Lose
<1>2. /\ Spend("disturbances")
      /\ UNCHANGED <<party, gone, place, heard, view, ask, cast, combat, pending, alive, turnNo, strikes,
                     behind, lost, played, late, resolved>>
  BY DEF Lose
<1>3. OnlyOf(c)
  BY <1>1, <1>2, Spent DEF OnlyOf, TypeOK
<1>4. ASSUME NEW i \in DOMAIN up[c], up' = [up EXCEPT ![c] = Without(@, i)], UNCHANGED down
      PROVE  IInv'
  <2>1. Without(up[c], i) \in Seq(UpFrames) /\ LeftOut(Without(up[c], i), up[c])
    BY <1>1, <1>4, WithoutLeaves
  <2>2. up' = [up EXCEPT ![c] = Without(up[c], i)] /\ down' = [down EXCEPT ![c] = down[c]]
    BY <1>1, <1>4, ClientTyped
  <2> QED BY <2>1, <2>2, <1>1, <1>2, <1>3, OneFewer
<1>5. ASSUME NEW i \in DOMAIN down[c], down' = [down EXCEPT ![c] = Without(@, i)], UNCHANGED up
      PROVE  IInv'
  <2>1. Without(down[c], i) \in Seq(Events \cup Notes) /\ LeftOut(Without(down[c], i), down[c])
    BY <1>1, <1>5, WithoutLeaves
  <2>2. down' = [down EXCEPT ![c] = Without(down[c], i)] /\ up' = [up EXCEPT ![c] = up[c]]
    BY <1>1, <1>5, ClientTyped
  <2> QED BY <2>1, <2>2, <1>1, <1>2, <1>3, OneFewer
<1> QED BY <1>4, <1>5 DEF Lose

LEMMA ClientReceivesKeeps ==
  ASSUME IInv, NEW c \in Clients, ClientReceives(c)
  PROVE  IInv'
<1> DEFINE m == Head(down[c])
           a == [type |-> "ACK", id |-> m.id, of |-> m.seq]
           t == Tail(down[c])
<1>1. /\ TypeOK /\ Parts /\ down[c] # <<>> /\ down' = [down EXCEPT ![c] = t]
      /\ UNCHANGED <<party, gone, place, heard, budget, combat, pending, alive, turnNo, strikes,
                     behind, lost, played, late, resolved>>
  BY DEF IInv, Parts, ClientReceives
<1>2. /\ view[c] \in Views /\ ask[c] \in Asked /\ cast[c] \in Casting
      /\ up[c] \in Seq(UpFrames) /\ down[c] \in Seq(Events \cup Notes)
      /\ view = [view EXCEPT ![c] = view[c]] /\ ask = [ask EXCEPT ![c] = ask[c]]
      /\ cast = [cast EXCEPT ![c] = cast[c]] /\ up = [up EXCEPT ![c] = up[c]]
  BY <1>1, ClientTyped
<1>3. /\ t \in Seq(Events \cup Notes) /\ LeftOut(t, down[c]) /\ m \in Events \cup Notes /\ m \in ToSet(down[c])
  <2>1. t \in Seq(Events \cup Notes) /\ LeftOut(t, down[c]) /\ m \in Events \cup Notes /\ m = down[c][1]
        /\ 1 \in DOMAIN down[c]
    BY <1>1, <1>2, TailLeaves
  <2> QED BY <2>1 DEF ToSet
<1>4. OnlyOf(c)
  BY <1>1, Unspent DEF OnlyOf, TypeOK
<1>5. down'[c] = t
  BY <1>1, <1>2 DEF TypeOK
<1>6. cast[c].seq \in Nat /\ cast[c].seq <= cast[c].seq
  BY <1>2 DEF Casting
<1> HIDE DEF t
<1>7. CASE UNCHANGED <<view, ask, up>> /\ (cast' = cast \/ cast' = [cast EXCEPT ![c].waits = @ /\ m.seq # cast[c].seq])
  <2>1. PICK k \in Casting : k.seq = cast[c].seq /\ cast' = [cast EXCEPT ![c] = k]
    <3>1. CASE cast' = cast
      BY <3>1, <1>2
    <3>2. CASE cast' = [cast EXCEPT ![c].waits = @ /\ m.seq # cast[c].seq]
      <4> DEFINE b == cast[c].waits /\ m.seq # cast[c].seq
                 k == [cast[c] EXCEPT !.waits = b]
      <4>1. b \in BOOLEAN /\ cast' = [cast EXCEPT ![c] = k]
        BY <3>2
      <4> HIDE DEF b
      <4>2. k \in Casting /\ k.seq = cast[c].seq
        BY <4>1, <1>2 DEF Casting
      <4> QED BY <4>1, <4>2
    <3> QED BY <3>1, <3>2, <1>7
  <2>2. up' = [up EXCEPT ![c] = up[c]]
    BY <1>2, <1>7
  <2> QED BY <2>1, <2>2, <1>1, <1>2, <1>3, <1>4, <1>7, OneFewer
<1>8. CASE c \notin gone /\ m.type = "ROOM" /\ ProcessRoomChange(c, m) /\ UNCHANGED <<ask, cast, up>>
  <2> DEFINE o == view[c].order
             n == [i \in DOMAIN o |-> IF view[c].on /\ o[i].who = m.who THEN [o[i] EXCEPT !.room = m.room] ELSE o[i]]
             v == [view[c] EXCEPT !.order = n]
  <2>1. m.room \in Rooms
    BY <1>3, <1>8 DEF Events, Notes
  <2>2. view' = [view EXCEPT ![c] = v]
    BY <1>8, <1>2 DEF ProcessRoomChange
  <2>3. n \in Seq(Seat) /\ Whos(n) = Whos(o)
    <3>1. o \in Seq(Seat) /\ Len(o) \in Nat /\ DOMAIN o = 1..Len(o)
      BY <1>2 DEF Views
    <3>2. \A i \in DOMAIN o : n[i] \in Seat /\ n[i].who = o[i].who
      <4>1. ASSUME NEW i \in DOMAIN o PROVE n[i] \in Seat /\ n[i].who = o[i].who
        <5>1. o[i] \in Seat
          BY <3>1
        <5>2. [o[i] EXCEPT !.room = m.room] \in Seat /\ [o[i] EXCEPT !.room = m.room].who = o[i].who
          BY <5>1, <2>1 DEF Seat
        <5> QED BY <5>1, <5>2
      <4> QED BY <4>1
    <3>3. DOMAIN n = 1..Len(o)
      BY <3>1
    <3>4. n \in [1..Len(o) -> Seat]
      BY <3>1, <3>2
    <3>5. n \in Seq(Seat)
      BY <3>1, <3>4
    <3> HIDE DEF n
    <3> QED BY <3>1, <3>2, <3>3, <3>5 DEF Whos
  <2> HIDE DEF n
  <2>4. v \in Views /\ v.order = n /\ \A f \in {"on", "id", "last", "turn", "no"} : v[f] = view[c][f]
    BY <1>2, <2>3 DEF Views
  <2> HIDE DEF v
  <2>5. Client(c, v, ask[c], cast[c], up[c], t)
    BY <2>2, <2>4, <1>1, <1>2, <1>3, <1>6, <1>8 DEF Client
  <2>6. Concerns(c) /\ view'[c] = v /\ ask'[c] = ask[c] /\ up'[c] = up[c]
    BY <2>5, <1>1, <1>4, ClientConcerned
  <2>7. ASSUME c \in Reached' PROVE Sight(c)'
    <3>1. c \in Reached /\ Delivered(c) /\ Shown(c) /\ Ordered(c) /\ Timely(c)
      BY <1>1, <2>7 DEF Reached, Parts, Sight
    <3>2. /\ view'[c].on = view[c].on /\ view'[c].id = view[c].id /\ view'[c].last = view[c].last
          /\ view'[c].turn = view[c].turn /\ view'[c].no = view[c].no /\ Whos(view'[c].order) = Whos(view[c].order)
      <4>1. \A f \in {"on", "id", "last", "turn", "no"} : v[f] = view[c][f]
        BY <2>4
      <4> QED BY <4>1, <2>3, <2>4, <2>6
    <3>3. /\ ToSet(down'[c]) \subseteq ToSet(down[c])
          /\ \A i, j \in DOMAIN down'[c] : i < j =>
               \E k, l \in DOMAIN down[c] : k < l /\ down'[c][i] = down[c][k] /\ down'[c][j] = down[c][l]
      <4>1. down'[c] = Tail(down[c])
        BY <1>5 DEF t
      <4> HIDE DEF m
      <4>2. m = Head(down[c])
        BY DEF m
      <4> QED BY <4>1, <4>2, <1>1, Received
    <3>4. Newest' = Newest /\ Owing' = Owing /\ combat' = combat /\ turnNo' = turnNo /\ pending' = pending /\ lost' = lost
      BY <1>1 DEF Newest, Owing
    <3>5. Unsure(c)' <=> Unsure(c)
      BY <3>2, <3>4 DEF Unsure
    <3>6. Delivered(c)'
      <4>1. InOrderOf(down'[c])
        BY <3>1, <3>3 DEF Delivered, InOrderOf
      <4> QED BY <4>1, <3>1, <3>2, <3>3, <3>4 DEF Delivered
    <3>7. Shown(c)'
      BY <3>1, <3>2, <3>4, <2>6 DEF Shown
    <3>8. Ordered(c)'
      BY <3>1, <3>2, <3>3, <3>4, <3>5 DEF Ordered
    <3>9. Timely(c)'
      BY <3>1, <3>2, <3>4, <2>6 DEF Timely
    <3> QED BY <3>6, <3>7, <3>8, <3>9 DEF Sight
  <2> QED BY <2>5, <2>7, <1>4, ClientKeeps
<1>9. CASE c \notin gone /\ m \in Events /\ up' = [up EXCEPT ![c] = Append(@, a)] /\ UNCHANGED cast
           /\ \/ ProcessBegin(c, m) /\ m.type = "BEGIN"
              \/ ProcessEvent(c, m) /\ m.type # "BEGIN" /\ view[c].on /\ view[c].id = m.id
  <2> DEFINE s == Append(up[c], a)
  <2>1. a \in UpFrames /\ a.type = "ACK" /\ a.of = m.seq
    <3>1. m.id \in {1} /\ m.seq \in Nat \ {0}
      BY <1>9 DEF Events
    <3> QED BY <3>1 DEF UpFrames, Acks
  <2>2. m.seq \in Nat /\ m.id = 1 /\ m.turn \in Nat /\ m.no \in Nat /\ m.order \in Seq(Seat)
    BY <1>9 DEF Events
  <2>3. m = Head(down[c])
    OBVIOUS
  <2> HIDE DEF m, a
  <2>4. s \in Seq(UpFrames) /\ ToSet(s) = ToSet(up[c]) \cup {a} /\ up' = [up EXCEPT ![c] = s]
    BY <1>1, <1>9, <2>1, OneMore
  <2>5. \A x \in ToSet(s) : x.type = "ABILITY" => x \in ToSet(up[c])
    BY <2>1, <2>4
  <2>6. CASE UNCHANGED <<view, ask>> /\ m.seq <= view[c].last
    <3>1. Client(c, view[c], ask[c], cast[c], s, t)
      <4>1. /\ view' = [view EXCEPT ![c] = view[c]] /\ ask' = [ask EXCEPT ![c] = ask[c]]
            /\ cast' = [cast EXCEPT ![c] = cast[c]]
        BY <2>6, <1>2, <1>9
      <4> QED BY <4>1, <2>4, <2>5, <1>1, <1>2, <1>3, <1>6 DEF Client
    <3>2. Concerns(c) /\ view'[c] = view[c] /\ ask'[c] = ask[c] /\ up'[c] = Append(up[c], a)
      <4> HIDE DEF s
      <4>1. Concerns(c) /\ view'[c] = view[c] /\ ask'[c] = ask[c] /\ up'[c] = s
        BY <3>1, <1>1, <1>4, ClientConcerned
      <4> QED BY <4>1 DEF s
    <3>3. ASSUME c \in Reached' PROVE Sight(c)'
      <4>1. c \in Reached /\ pending' = pending
        BY <1>1, <3>3 DEF Reached
      <4>2. down'[c] = Tail(down[c])
        BY <1>5 DEF t
      <4> QED BY <4>1, <4>2, <3>2, <2>1, <2>3, <2>6, <1>1, <1>9, OldNewsKeeps
    <3> QED BY <3>1, <3>3, <1>4, ClientKeeps
  <2>7. ASSUME NEW v \in Views, view' = [view EXCEPT ![c] = v], ask' = [ask EXCEPT ![c] = None],
               v.on = (m.type # "END"), v.id = 1, v.last = m.seq, v.turn = m.turn, v.no = m.no,
               v.order = IF m.type = "BEGIN" THEN m.order ELSE view[c].order,
               m.seq <= view[c].last => ~(view[c].on /\ view[c].id = 1)
        PROVE  IInv'
    <3>1. Client(c, v, None, cast[c], s, t)
      <4>1. None \in Asked
        BY DEF Asked
      <4>2. cast' = [cast EXCEPT ![c] = cast[c]]
        BY <1>2, <1>9
      <4>3. v \in Views /\ view' = [view EXCEPT ![c] = v] /\ ask' = [ask EXCEPT ![c] = None]
        BY <2>7
      <4> QED BY <4>1, <4>2, <4>3, <2>4, <2>5, <1>1, <1>2, <1>3, <1>6 DEF Client
    <3>2. Concerns(c) /\ view'[c] = v /\ ask'[c] = None /\ up'[c] = Append(up[c], a)
      <4> HIDE DEF s
      <4>1. Concerns(c) /\ view'[c] = v /\ ask'[c] = None /\ up'[c] = s
        BY <3>1, <1>1, <1>4, ClientConcerned
      <4> QED BY <4>1 DEF s
    <3>3. ASSUME c \in Reached' PROVE Sight(c)'
      <4>1. c \in Reached /\ pending' = pending
        BY <1>1, <3>3 DEF Reached
      <4>2. down'[c] = Tail(down[c])
        BY <1>5 DEF t
      <4>3. m.seq <= view[c].last => ~view[c].on
        BY <4>1, <2>7, <1>1 DEF Parts, Sight, Shown
      <4> QED BY <4>1, <4>2, <4>3, <3>2, <2>1, <2>3, <2>7, <1>1, <1>9, NewsKeeps
    <3> QED BY <3>1, <3>3, <1>4, ClientKeeps
  <2>8. CASE ProcessBegin(c, m) /\ m.type = "BEGIN"
    <3>1. CASE view[c].on /\ view[c].id = m.id /\ m.seq <= view[c].last
      BY <3>1, <2>6, <2>8 DEF ProcessBegin
    <3>2. CASE ~(view[c].on /\ view[c].id = m.id /\ m.seq <= view[c].last)
      <4> DEFINE same == view[c].on /\ view[c].id = m.id
                 n == IF same THEN view[c].acts ELSE 0
                 v == [on |-> TRUE, id |-> m.id, last |-> m.seq, turn |-> m.turn, order |-> m.order,
                       no |-> m.no, acts |-> n]
      <4>1. view' = [view EXCEPT ![c] = v] /\ ask' = [ask EXCEPT ![c] = None]
        BY <3>2, <2>8 DEF ProcessBegin
      <4>2. n \in Nat
        BY <1>2 DEF Views
      <4> HIDE DEF n
      <4>3. v \in Views
        BY <4>2, <2>2 DEF Views
      <4>4. v.on = (m.type # "END") /\ v.id = 1 /\ v.last = m.seq /\ v.turn = m.turn /\ v.no = m.no /\ v.order = m.order
        BY <2>2, <2>8
      <4> HIDE DEF v
      <4> QED BY <4>1, <4>3, <4>4, <3>2, <2>2, <2>7, <2>8
    <3> QED BY <3>1, <3>2
  <2>9. CASE ProcessEvent(c, m) /\ m.type # "BEGIN" /\ view[c].on /\ view[c].id = m.id
    <3>1. CASE m.seq <= view[c].last
      BY <3>1, <2>6, <2>9 DEF ProcessEvent
    <3>2. CASE ~(m.seq <= view[c].last)
      <4> DEFINE b == m.type # "END"
                 v == [view[c] EXCEPT !.last = m.seq, !.turn = m.turn, !.no = m.no, !.on = b]
      <4>1. view' = [view EXCEPT ![c] = v] /\ ask' = [ask EXCEPT ![c] = None]
        BY <3>2, <2>9, <1>1 DEF ProcessEvent, TypeOK
      <4>2. b \in BOOLEAN
        OBVIOUS
      <4> HIDE DEF b
      <4>3. v \in Views /\ v.on = b /\ v.id = view[c].id /\ v.last = m.seq /\ v.turn = m.turn /\ v.no = m.no
            /\ v.order = view[c].order
        BY <4>2, <2>2, <1>2 DEF Views
      <4> HIDE DEF v
      <4> QED BY <4>1, <4>3, <3>2, <2>2, <2>7, <2>9 DEF b
    <3> QED BY <3>1, <3>2
  <2> QED BY <2>8, <2>9, <1>9
<1>10. \/ m.type = "ABILITY" \/ m.type = "ROOM" 
       \/ m \in Events /\ m.type \notin {"ABILITY", "ROOM"}
  BY <1>3 DEF Events, Notes
<1> QED BY <1>7, <1>8, <1>9, <1>10 DEF ClientReceives, SendUp

-----------------------------------------------------------------------------
(* The invariant *)

LEMMA Beginning ==
  ASSUME Init
  PROVE  IInv
<1>1. /\ budget \in [party : SUBSET Clients, place : [Players -> Rooms], events : Nat, requests : Nat,
                     casts : Nat, doors : Nat, leaves : Nat, disturbances : Nat]
      /\ party = budget.party /\ gone = Clients \ party /\ place = budget.place
      /\ combat = NoCombat /\ pending = [msg |-> None, to |-> {}, tries |-> 0]
      /\ heard = [p \in Players |-> [seq |-> 0, ready |-> TRUE]]
      /\ view = [c \in Clients |-> NoView] /\ ask = [c \in Clients |-> None]
      /\ cast = [c \in Clients |-> [seq |-> 0, waits |-> FALSE, tries |-> 0]]
      /\ up = [c \in Clients |-> <<>>] /\ down = [c \in Clients |-> <<>>]
      /\ turnNo = 0 /\ strikes = [now |-> 0, owing |-> {}, both |-> 0] /\ behind = {} /\ lost = {} /\ late = {}
      /\ played = [c \in Clients |-> 0] /\ resolved = [c \in Clients |-> 0]
  BY CombatTurnsAssumption DEF Init, Players
<1>2. combat \in Fight /\ combat.id = 0 /\ combat.next = 1 /\ ~combat.active /\ ~combat.ending
      /\ \A c \in Clients : combat.acts[c] = 0
  <2>1. EmptyTurn \in Left
    BY DEF EmptyTurn, Left
  <2>2. <<>> \in Seq(Seat) /\ [c \in Clients |-> 0] \in [Clients -> Nat]
    OBVIOUS
  <2>3. NoCombat \in Fight
    BY <2>1, <2>2 DEF NoCombat, Fight
  <2> QED BY <1>1, <2>3 DEF NoCombat
<1>3. NoView \in Views
  <2>1. <<>> \in Seq(Seat)
    OBVIOUS
  <2> QED BY <2>1 DEF NoView, Views
<1>4. <<>> \in Seq(UpFrames) /\ <<>> \in Seq(Events \cup Notes)
  OBVIOUS
<1>5. TypeOK
  <2>1. party \subseteq Clients /\ gone \subseteq Clients /\ place \in [Players -> Rooms]
    BY <1>1
  <2>2. pending \in [msg : {None} \cup Events, to : SUBSET Clients, tries : Nat]
    BY <1>1
  <2>3. heard \in [Players -> [seq : Nat, ready : BOOLEAN]]
    BY <1>1
  <2>4. cast \in [Clients -> [seq : Nat, waits : BOOLEAN, tries : Nat]]
    BY <1>1
  <2>5. view \in [Clients -> Views] /\ ask \in [Clients -> {None} \cup [seq : Nat, msg : Requests, tries : Nat]]
    BY <1>1, <1>3
  <2>6. up \in [Clients -> Seq(UpFrames)] /\ down \in [Clients -> Seq(Events \cup Notes)]
    BY <1>1, <1>4
  <2>7. turnNo \in Nat /\ strikes \in Tallies
    BY <1>1 DEF Tallies
  <2> QED BY <2>1, <2>2, <2>3, <2>4, <2>5, <2>6, <2>7, <1>1, <1>2 DEF TypeOK
<1>6. FightOK /\ Struck /\ Announced /\ ActedInTime
  BY <1>1, <1>2 DEF FightOK, Struck, Announced, ActedInTime
<1>7. ASSUME NEW c \in Clients
      PROVE  /\ up[c] = <<>> /\ down[c] = <<>> /\ view[c] = NoView /\ ask[c] = None
             /\ cast[c].seq = 0 /\ heard[c].seq = 0 /\ resolved[c] = 0
  BY <1>1 DEF Players
<1>8. ToSet(<<>>) = {} /\ DOMAIN <<>> = {}
  BY DEF ToSet
<1>9. ASSUME NEW c \in Clients PROVE Commanded(c)
  BY <1>7, <1>8 DEF Commanded
<1>10. ASSUME NEW c \in Reached PROVE Sight(c)
  <2>1. c \in Clients
    BY <1>5, <1>10 DEF Reached, TypeOK
  <2>2. /\ up[c] = <<>> /\ down[c] = <<>> /\ ask[c] = None /\ view[c].last = 0 /\ ~view[c].on /\ Newest = 0
    BY <1>2, <1>7, <2>1 DEF NoView, Newest
  <2> QED BY <2>2, <1>2, <1>8 DEF Sight, Delivered, InOrderOf, Shown, Ordered, Timely
<1> QED BY <1>5, <1>6, <1>9, <1>10 DEF IInv

LEMMA StepKeeps ==
  ASSUME IInv, [Next]_vars
  PROVE  IInv'
<1>1. CASE HostAlone
  BY <1>1, HostAloneKeeps
<1>2. CASE HostRetry
  BY <1>2, HostRetryKeeps
<1>3. ASSUME NEW c \in Clients, HostReceives(c) PROVE IInv'
  BY <1>3, HostReceivesKeeps
<1>4. ASSUME NEW c \in Clients, ClientReceives(c) PROVE IInv'
  BY <1>4, ClientReceivesKeeps
<1>5. ASSUME NEW c \in Clients, Lose(c) PROVE IInv'
  BY <1>5, LoseKeeps
<1>6. ASSUME NEW c \in Clients, NEW action \in Actions, Request(c, action) PROVE IInv'
  BY <1>6, RequestKeeps
<1>7. ASSUME NEW c \in Clients, RetryRequest(c) PROVE IInv'
  BY <1>7, RetryRequestKeeps
<1>8. ASSUME NEW c \in Clients, Cast(c) PROVE IInv'
  BY <1>8, CastKeeps
<1>9. ASSUME NEW c \in Clients, RetryCast(c) PROVE IInv'
  BY <1>9, RetryCastKeeps
<1>10. ASSUME NEW c \in Clients, NEW r \in Rooms, Door(c, r) PROVE IInv'
  BY <1>10, DoorKeeps
<1>11. ASSUME NEW c \in Clients, Leave(c) PROVE IInv'
  BY <1>11, LeavingKeeps
<1>12. ASSUME NEW c \in Clients, Disconnect(c) PROVE IInv'
  BY <1>12, DisconnectKeeps
<1>13. CASE UNCHANGED vars
  <2>1. UNCHANGED <<party, gone, place, heard, view, ask, cast, up, down, combat, pending, alive, turnNo,
                    strikes, behind, lost, played, late, resolved, budget>>
    BY <1>13 DEF vars, table
  <2>2. TypeOK' /\ FightOK'
    BY <2>1 DEF IInv, TypeOK, FightOK
  <2>3. Struck' /\ Announced' /\ ActedInTime'
    BY <2>1 DEF IInv, Struck, Announced, ActedInTime, Current
  <2>4. ASSUME NEW c \in Clients PROVE Commanded(c)'
    BY <2>1 DEF IInv, Commanded
  <2>5. ASSUME NEW c \in Reached' PROVE Sight(c)'
    <3>1. c \in Reached /\ Sight(c)
      BY <2>1, <2>5 DEF IInv, Reached
    <3> QED BY <3>1, <2>1 DEF Sight, Delivered, Shown, Ordered, Timely, Unsure, Owing, Newest
  <2> QED BY <2>2, <2>3, <2>4, <2>5 DEF IInv
<1>14. Next => \/ HostAlone \/ HostRetry
               \/ \E c \in Clients :
                    \/ HostReceives(c) \/ ClientReceives(c) \/ Lose(c)
                    \/ \E action \in Actions : Request(c, action)
                    \/ RetryRequest(c) \/ Cast(c) \/ RetryCast(c)
                    \/ \E r \in Rooms : Door(c, r)
                    \/ Leave(c) \/ Disconnect(c)
  BY DEF Next, HostAlone
<1> QED BY <1>1, <1>2, <1>3, <1>4, <1>5, <1>6, <1>7, <1>8, <1>9, <1>10, <1>11, <1>12, <1>13, <1>14

\* Types, what is announced, sent, shown and acknowledged, and the count of what was
\* done: IInv holds in every state of every behaviour, which the theorems below use.
THEOREM FightInvariance == Spec => []IInv
<1>1. Init => IInv
  BY Beginning
<1>2. IInv /\ [Next]_vars => IInv'
  BY StepKeeps
<1> QED BY <1>1, <1>2, PTL DEF Spec

\* Every variable keeps its type, every frame on its way is one that the host or a
\* client sends, and only combatants have a place in the order.
THEOREM CombatTurnsTyped == Spec => []TypeOK
<1>1. IInv => TypeOK
  BY DEF IInv
<1> QED BY <1>1, FightInvariance, PTL

\* While the host waits for no acknowledgement, every client it has not given up on
\* shows the turn and the order of the fight (updateMultiplayerCombat).
THEOREM TurnsShown == Spec => []EverybodySeesTheTurn
<1>1. ASSUME IInv PROVE EverybodySeesTheTurn
  <2> SUFFICES ASSUME combat.active, pending.to = {}, ~combat.ending, NEW c \in Following
               PROVE  /\ view[c].on /\ view[c].id = combat.id /\ view[c].no = turnNo /\ view[c].turn = combat.turn
                      /\ Whos(view[c].order) = Whos(combat.order)
    BY DEF EverybodySeesTheTurn, Busy, Whos
  <2>1. TypeOK /\ FightOK /\ combat.id = 1
    BY <1>1, ActiveFight DEF IInv, Ready
  <2>2. c \in Reached /\ c \notin Owing /\ ~Unsure(c)
    BY DEF Following, Reached, Owing, Unsure
  <2>3. Shown(c) /\ Ordered(c)
    BY <1>1, <2>2 DEF IInv, Sight
  <2> QED BY <2>1, <2>2, <2>3 DEF Shown, Ordered
<1> QED BY <1>1, FightInvariance, PTL

\* A request of a client that follows runs only in the turn it was made in, and no
\* request runs twice (processCombatActionRequest).
THEOREM RequestsInTime == Spec => []ActedInTime
<1>1. IInv => ActedInTime
  BY DEF IInv
<1> QED BY <1>1, FightInvariance, PTL

\* A command is resolved once however often it is repeated, and a player strikes once
\* in its turn, the spell that opened the fight counted there or in its next one.  The one
\* exception, in one turn of the fight, is the caster's request that overtakes that spell
\* (processCombatActionRequest, updateMultiplayerCombat, advanceMultiplayerTurn).
THEOREM DoneOnce == Spec => []NothingTwice
<1>1. ASSUME IInv PROVE NothingTwice
  <2>1. ASSUME NEW c \in Clients PROVE resolved[c] <= cast[c].seq
    <3>1. resolved[c] <= heard[c].seq /\ heard[c].seq <= cast[c].seq
      BY <1>1, <2>1 DEF IInv, Commanded
    <3>2. resolved[c] \in Nat /\ heard[c].seq \in Nat /\ cast[c].seq \in Nat
      BY <1>1, <2>1 DEF IInv, TypeOK, Players
    <3> QED BY <3>1, <3>2
  <2>2. PlayersStrikeOnce
    BY <1>1 DEF IInv, Struck, PlayersStrikeOnce
  <2> QED BY <2>1, <2>2 DEF NothingTwice, CommandsOnce
<1> QED BY <1>1, FightInvariance, PTL
=============================================================================
