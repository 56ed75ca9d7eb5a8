------------------------- MODULE PartyActivityProofs -------------------------
(***************************************************************************)
(* Proofs about the shared activity, for any clients and rooms, any number *)
(* of retries, and any doors, spells, combat events, losses and early      *)
(* retries.                                                                *)
(***************************************************************************)
EXTENDS PartyActivity, TLAPS

-----------------------------------------------------------------------------
(* The inductive invariant *)

Phases == {"TOWN", "WAITING", "LOADING", "ACTIVE", "OVER"}
Away == {"LOADING", "ACTIVE"}
FrameTypes ==
  ItemSet \cup {"INVITE", "RESPONSE", "START", "END", "ACK", "READY", "LEAVE", "REQUEST", "EVENT", "HEARD"}
FrameItems ==
  ItemSet \cup {"INVITE", "accepted", "declined", "START", "END", "ROOM_READY", "ACTIVITY_READY",
                "LEAVE", "REQUEST", "EVENT"}
Frames == [type : FrameTypes, item : FrameItems, epoch : Nat, room : Nat, n : Nat]
Participant ==
  [invited : BOOLEAN, responded : BOOLEAN, in : BOOLEAN, ready : BOOLEAN, startAcked : BOOLEAN,
   roomLoading : BOOLEAN, room : Rooms, epoch : Nat, stage : 1..Complete, retries : Nat,
   expect : ItemSet \cup {"NONE", "START"}, door : Nat]

HostTyped ==
  /\ phase \in Phases
  /\ part \in [Clients -> Participant]
  /\ revision \in [Rooms -> Nat]
  /\ spells \in [Rooms -> Seq(SUBSET Clients)]
  /\ turns \in Nat
  /\ eventPending \in SUBSET Clients
  /\ eventRoom \in Nat
  /\ eventPending # {} => eventRoom \in Rooms

ClientsTyped ==
  /\ cphase \in [Clients -> {"TOWN", "HOME"} \cup Away]
  /\ invitation \in [Clients -> {"no", "pending", "accepted", "declined"}]
  /\ loading \in [Clients -> BOOLEAN]
  /\ croom \in [Clients -> Nat]
  /\ cepoch \in [Clients -> Nat]
  /\ got \in [Clients -> SUBSET LoadItems]
  /\ heard \in [Clients -> Nat]
  /\ door \in [Clients -> Nat]
  /\ pendingDoor \in [Clients -> Rooms \cup {0}]

Typed ==
  /\ HostTyped
  /\ ClientsTyped
  /\ up \in [Clients -> Seq(Frames)]
  /\ down \in [Clients -> Seq(Frames)]

Contents(s) == {s[i] : i \in DOMAIN s}

Early == phase \in {"TOWN", "WAITING"}
NotStarted == phase \in {"TOWN", "WAITING", "LOADING"}

\* Only who accepted takes part, until it goes home.
Accepted(p) == invitation[p] = "accepted" \/ cphase[p] = "HOME"

\* What a frame on its way to the host says, and one on its way to the client:
\* nothing is transferred before the host loads, and nobody starts before it.
UpSays(p, f) ==
  /\ f.item \in ItemSet => f.type = "ACK"
  /\ f.type = "ACK" => f.item \in ItemSet \cup {"START"}
  /\ f.type = "REQUEST" => f.epoch \in Rooms
  /\ f.item = "accepted" => Accepted(p)
  /\ Early => f.item \notin ItemSet
  /\ NotStarted => f.item # "ROOM_READY"
DownSays(p, f) ==
  /\ f.item \in ItemSet \/ f.type \in ItemSet => f.item = f.type /\ f.room \in Rooms /\ Accepted(p)
  /\ f.type = "START" => f.item = "START"
  /\ Early => f.item \notin ItemSet
  /\ NotStarted => f.item # "START"
Told(p) ==
  /\ \A f \in Contents(up[p]) : UpSays(p, f)
  /\ \A f \in Contents(down[p]) : DownSays(p, f)

Willing(p) ==
  /\ cphase[p] \in Away => invitation[p] = "accepted"
  /\ cphase[p] = "HOME" => invitation[p] = "no"
  /\ part[p].in => Accepted(p)

\* Where a transfer stands, at the host: before it, an area is complete for a
\* participant that is not in a transfer, and for one that is ready.
Staged(p) ==
  /\ part[p].expect \in {"NONE", IF part[p].stage = Complete THEN "START" ELSE Items[part[p].stage]}
  /\ part[p].ready => part[p].stage = Complete
  /\ phase = "ACTIVE" /\ part[p].in /\ ~part[p].roomLoading => part[p].stage = Complete
  /\ Early => part[p].expect = "NONE" /\ part[p].stage = 1
  /\ NotStarted => part[p].expect # "START" /\ cphase[p] # "ACTIVE" /\ ~loading[p]
  /\ phase \in {"TOWN", "OVER"} => ~part[p].in

\* The item a transfer is at, and the one before it, which is the last item of
\* the transfer before when it is at the first.
Now(stage) == IF stage = Complete THEN "NONE" ELSE Items[stage]
Last(stage) == IF stage = 1 THEN "SPAWN" ELSE Items[stage - 1]

\* The items in u, acknowledgements, and in d, behind them: those of last,
\* then those of now.
InOrder(s, now) ==
  \A i, j \in DOMAIN s : i < j /\ s[i].item = now /\ s[j].item \in ItemSet => s[j].item = now
Ordered(u, d, last, now) ==
  /\ \A f \in Contents(u) \cup Contents(d) : f.item \in ItemSet => f.item \in {last, now}
  /\ InOrder(u, now)
  /\ InOrder(d, now)
  /\ (\E f \in Contents(u) : f.item = now) => \A f \in Contents(d) : f.item \in ItemSet => f.item = now

\* The items on their way are of the room and the epoch the host means, or the
\* last of the transfer before.
Meant(p) ==
  \A f \in Contents(down[p]) : f.item \in ItemSet =>
    \/ part[p].stage = 1 /\ f.item = "SPAWN"
    \/ f.epoch = part[p].epoch /\ f.room = part[p].room

Synced(p) == cphase[p] \in Away /\ croom[p] = part[p].room /\ cepoch[p] = part[p].epoch

\* A client that has not prepared has not said so.
Prepared(p) ==
  Synced(p) \/ (part[p].stage = 1 /\ \A f \in Contents(up[p]) : f.item # "PREPARE")

\* What the host takes for received, or is being told so, was received.
Received(p) ==
  /\ \A i \in 2..(Complete - 1) : i < part[p].stage => Items[i] \in got[p]
  /\ part[p].stage # 1 => \A f \in Contents(up[p]) : f.item \in LoadItems => f.item \in got[p]

Live(p) == part[p].in /\ cphase[p] # "HOME"

InStep(p) ==
  /\ Ordered(up[p], down[p], Last(part[p].stage), Now(part[p].stage))
  /\ Meant(p)
  /\ Prepared(p)
  /\ Received(p)

Client(p) == Told(p) /\ Willing(p) /\ Staged(p) /\ (Live(p) => InStep(p))

ActivityInv == Typed /\ \A p \in Clients : Client(p)

-----------------------------------------------------------------------------
(* Items and stages *)

LEMMA Stages ==
  /\ Complete = 6
  /\ ItemSet = {"PREPARE", "BEGIN", "CHARACTER", "SNAPSHOT", "SPAWN"}
  /\ LoadItems = {"BEGIN", "CHARACTER", "SNAPSHOT", "SPAWN"}
  /\ Items[1] = "PREPARE" /\ Items[2] = "BEGIN" /\ Items[3] = "CHARACTER" /\ Items[4] = "SNAPSHOT"
  /\ Items[5] = "SPAWN"
<1>1. DOMAIN Items = 1..5 /\ Complete = 6 /\ Items[1] = "PREPARE" /\ Items[2] = "BEGIN" /\ Items[3] = "CHARACTER"
      /\ Items[4] = "SNAPSHOT" /\ Items[5] = "SPAWN"
  BY DEF Items, Complete
<1>2. 1..5 = {1, 2, 3, 4, 5}
  OBVIOUS
<1>3. ItemSet = {Items[1], Items[2], Items[3], Items[4], Items[5]}
  BY <1>1, <1>2 DEF ItemSet
<1> QED BY <1>1, <1>3 DEF LoadItems

\* What is at a stage, and what was at the one before.
LEMMA StageItems ==
  ASSUME NEW k \in 1..6
  PROVE  /\ k # 6 => Items[k] \in ItemSet /\ Now(k) = Items[k] /\ Last(k + 1) = Items[k]
                     /\ Now(k + 1) # Items[k] /\ Items[k] \notin {"NONE", "START"}
         /\ Last(k) \in ItemSet /\ Now(k) # Last(k)
         /\ Now(6) = "NONE" /\ Last(6) = "SPAWN" /\ Now(1) = "PREPARE" /\ Last(1) = "SPAWN"
         /\ Now(k) = "PREPARE" => k = 1
         /\ Last(k) = "PREPARE" => k = 2
         /\ "NONE" \notin ItemSet /\ "START" \notin ItemSet
<1>1. k = 1 \/ k = 2 \/ k = 3 \/ k = 4 \/ k = 5 \/ k = 6
  OBVIOUS
<1> QED BY <1>1, Stages DEF Now, Last

\* All that is transferred after PREPARE is all there is to load.
LEMMA AllLoaded ==
  ASSUME NEW g, g \subseteq LoadItems, \A i \in 2..(Complete - 1) : i < Complete => Items[i] \in g
  PROVE  g = LoadItems
<1>1. 2 \in 2..5 /\ 3 \in 2..5 /\ 4 \in 2..5 /\ 5 \in 2..5
  OBVIOUS
<1>2. \A i \in 2..5 : Items[i] \in g
  BY Stages
<1>3. Items[2] \in g /\ Items[3] \in g /\ Items[4] \in g /\ Items[5] \in g
  BY <1>1, <1>2
<1> QED BY <1>3, Stages

-----------------------------------------------------------------------------
(* Frames in a queue *)

LEMMA TailFacts ==
  ASSUME NEW S, NEW s \in Seq(S), s # <<>>
  PROVE  /\ Tail(s) \in Seq(S) /\ Contents(Tail(s)) \subseteq Contents(s)
         /\ Head(s) \in Contents(s) /\ Head(s) \in S /\ Head(s) = s[1] /\ 1 \in DOMAIN s
         /\ \A i \in DOMAIN Tail(s) : i + 1 \in DOMAIN s /\ Tail(s)[i] = s[i + 1] /\ i \in 1..Len(s)
<1>1. /\ Tail(s) \in Seq(S) /\ Head(s) \in S /\ Head(s) = s[1] /\ 1 \in DOMAIN s
      /\ \A i \in DOMAIN Tail(s) : i + 1 \in DOMAIN s /\ Tail(s)[i] = s[i + 1] /\ i \in 1..Len(s)
  OBVIOUS
<1> QED BY <1>1 DEF Contents

LEMMA AppendFacts ==
  ASSUME NEW S, NEW s \in Seq(S), NEW f \in S
  PROVE  /\ Append(s, f) \in Seq(S) /\ Contents(Append(s, f)) = Contents(s) \cup {f}
         /\ DOMAIN s = 1..Len(s) /\ Len(s) \in Nat
         /\ DOMAIN Append(s, f) = 1..(Len(s) + 1) /\ Append(s, f)[Len(s) + 1] = f
         /\ \A i \in 1..Len(s) : Append(s, f)[i] = s[i]
<1>1. /\ Append(s, f) \in Seq(S)
      /\ DOMAIN s = 1..Len(s) /\ Len(s) \in Nat
      /\ DOMAIN Append(s, f) = 1..(Len(s) + 1) /\ Append(s, f)[Len(s) + 1] = f
      /\ \A i \in 1..Len(s) : Append(s, f)[i] = s[i]
  OBVIOUS
<1>2. Contents(Append(s, f)) = Contents(s) \cup {f}
  BY <1>1 DEF Contents
<1> QED BY <1>1, <1>2

LEMMA ContentsTyped ==
  ASSUME NEW S, NEW s \in Seq(S)
  PROVE  \A f \in Contents(s) : f \in S
  BY DEF Contents

LEMMA OrderTail ==
  ASSUME NEW S, NEW s \in Seq(S), s # <<>>, NEW now, InOrder(s, now)
  PROVE  /\ InOrder(Tail(s), now)
         /\ Head(s).item = now => \A f \in Contents(s) : f.item \in ItemSet => f.item = now
<1>1. InOrder(Tail(s), now)
  <2>1. SUFFICES ASSUME NEW i \in DOMAIN Tail(s), NEW j \in DOMAIN Tail(s), i < j, Tail(s)[i].item = now,
                        Tail(s)[j].item \in ItemSet
                 PROVE  Tail(s)[j].item = now
    BY DEF InOrder
  <2>2. /\ i + 1 \in DOMAIN s /\ Tail(s)[i] = s[i + 1] /\ i \in 1..Len(s)
        /\ j + 1 \in DOMAIN s /\ Tail(s)[j] = s[j + 1] /\ j \in 1..Len(s)
    BY TailFacts
  <2>3. i + 1 < j + 1
    BY <2>1, <2>2
  <2> QED BY <2>1, <2>2, <2>3 DEF InOrder
<1>2. ASSUME Head(s).item = now, NEW f \in Contents(s), f.item \in ItemSet
      PROVE  f.item = now
  <2>1. PICK j \in DOMAIN s : f = s[j]
    BY DEF Contents
  <2>2. Head(s) = s[1] /\ 1 \in DOMAIN s /\ DOMAIN s = 1..Len(s) /\ Len(s) \in Nat
    BY TailFacts
  <2>3. j = 1 \/ 1 < j
    BY <2>2
  <2> QED BY <1>2, <2>1, <2>2, <2>3 DEF InOrder
<1> QED BY <1>1, <1>2

\* A frame may be appended that is no item, or the current one, or any as long
\* as the current one is not there.
LEMMA OrderAppend ==
  ASSUME NEW S, NEW s \in Seq(S), NEW f \in S, NEW now, now \in ItemSet \cup {"NONE"}, InOrder(s, now),
         \/ f.item \notin ItemSet
         \/ f.item = now
         \/ \A g \in Contents(s) : g.item # now
  PROVE  InOrder(Append(s, f), now)
<1> DEFINE t == Append(s, f)
<1>1. SUFFICES ASSUME NEW i \in DOMAIN t, NEW j \in DOMAIN t, i < j, t[i].item = now, t[j].item \in ItemSet
               PROVE  t[j].item = now
  BY DEF InOrder
<1>2. /\ DOMAIN s = 1..Len(s) /\ Len(s) \in Nat
      /\ DOMAIN t = 1..(Len(s) + 1) /\ t[Len(s) + 1] = f
      /\ \A k \in 1..Len(s) : t[k] = s[k]
  BY AppendFacts
<1> HIDE DEF t
<1>3. i \in 1..Len(s) /\ t[i] = s[i]
  BY <1>1, <1>2
<1>4. s[i] \in Contents(s)
  BY <1>2, <1>3 DEF Contents
<1>5. CASE j \in 1..Len(s)
  BY <1>1, <1>2, <1>3, <1>5 DEF InOrder
<1>6. CASE j = Len(s) + 1
  BY <1>1, <1>2, <1>3, <1>4, <1>6
<1> QED BY <1>1, <1>2, <1>5, <1>6

\* Nothing is out of order where no item is the current one.
LEMMA OrderNew ==
  ASSUME NEW s, NEW now, \A f \in Contents(s) : f.item # now
  PROVE  InOrder(s, now)
  BY DEF InOrder, Contents

-----------------------------------------------------------------------------
(* The order of the items on their way *)

\* A queue of which nothing but frames that are no items changed
Plain(s, t) ==
  \/ t = s
  \/ s # <<>> /\ t = Tail(s)
  \/ \E f \in Frames : f.item \notin ItemSet /\ t = Append(s, f)

LEMMA PlainFacts ==
  ASSUME NEW s \in Seq(Frames), NEW t, Plain(s, t), NEW now, now \in ItemSet \cup {"NONE"}
  PROVE  /\ t \in Seq(Frames)
         /\ \A f \in Contents(t) : f.item \in ItemSet => f \in Contents(s)
         /\ InOrder(s, now) => InOrder(t, now)
<1>1. CASE t = s
  BY <1>1
<1>2. CASE s # <<>> /\ t = Tail(s)
  BY <1>2, TailFacts, OrderTail
<1>3. CASE \E f \in Frames : f.item \notin ItemSet /\ t = Append(s, f)
  <2>1. PICK f \in Frames : f.item \notin ItemSet /\ t = Append(s, f)
    BY <1>3
  <2> QED BY <2>1, AppendFacts, OrderAppend
<1> QED BY <1>1, <1>2, <1>3 DEF Plain

LEMMA OrderedPlain ==
  ASSUME NEW u \in Seq(Frames), NEW d \in Seq(Frames), NEW u2, NEW d2, Plain(u, u2), Plain(d, d2),
         NEW last, NEW now, now \in ItemSet \cup {"NONE"}, Ordered(u, d, last, now)
  PROVE  Ordered(u2, d2, last, now)
<1>1. /\ \A f \in Contents(u2) : f.item \in ItemSet => f \in Contents(u)
      /\ \A f \in Contents(d2) : f.item \in ItemSet => f \in Contents(d)
      /\ InOrder(u2, now) /\ InOrder(d2, now)
  BY PlainFacts DEF Ordered
<1>2. ASSUME NEW f \in Contents(u2), f.item = now, NEW g \in Contents(d2), g.item \in ItemSet
      PROVE  g.item = now
  <2>1. g \in Contents(d)
    BY <1>1, <1>2
  <2>2. CASE now \in ItemSet
    BY <1>1, <1>2, <2>1, <2>2 DEF Ordered
  <2>3. CASE now = "NONE"
    <3>1. u2 \in Seq(Frames)
      BY PlainFacts
    <3>2. f \in Frames
      BY <1>2, <3>1, ContentsTyped
    <3> QED BY <1>2, <2>3, <3>2, Stages DEF Frames, FrameItems
  <2> QED BY <2>2, <2>3
<1> QED BY <1>1, <1>2 DEF Ordered

\* The current item is sent.
LEMMA OrderedSend ==
  ASSUME NEW u \in Seq(Frames), NEW d \in Seq(Frames), NEW f \in Frames,
         NEW last, NEW now \in ItemSet, Ordered(u, d, last, now), f.item = now
  PROVE  Ordered(u, Append(d, f), last, now)
<1>1. Contents(Append(d, f)) = Contents(d) \cup {f} /\ InOrder(Append(d, f), now)
  BY AppendFacts, OrderAppend DEF Ordered
<1> QED BY <1>1 DEF Ordered

\* The client takes a frame and acknowledges the item it is.
LEMMA OrderedReply ==
  ASSUME NEW u \in Seq(Frames), NEW d \in Seq(Frames), d # <<>>, NEW f \in Frames, f.item = Head(d).item,
         f.item \in ItemSet, NEW last, NEW now, now \in ItemSet \cup {"NONE"}, Ordered(u, d, last, now)
  PROVE  Ordered(Append(u, f), Tail(d), last, now)
<1>1. /\ Contents(Append(u, f)) = Contents(u) \cup {f} /\ Head(d) \in Contents(d)
      /\ Contents(Tail(d)) \subseteq Contents(d) /\ InOrder(Tail(d), now)
  BY AppendFacts, TailFacts, OrderTail DEF Ordered
<1>2. f.item = now => \A g \in Contents(d) : g.item \in ItemSet => g.item = now
  BY OrderTail DEF Ordered
<1>3. f.item # now => \A g \in Contents(u) : g.item # now
  BY <1>1 DEF Ordered
<1>4. InOrder(Append(u, f), now)
  BY <1>3, OrderAppend DEF Ordered
<1> QED BY <1>1, <1>2, <1>4 DEF Ordered

\* The current item is acknowledged: nothing of the one before is left, and
\* nothing of the next one is there yet.
LEMMA OrderedAdvance ==
  ASSUME NEW u \in Seq(Frames), NEW d \in Seq(Frames), u # <<>>, NEW last, NEW now \in ItemSet, NEW next,
         next # now, next \in ItemSet \cup {"NONE"}, Ordered(u, d, last, now), Head(u).item = now
  PROVE  /\ Ordered(Tail(u), d, now, next)
         /\ \A f \in Contents(u) \cup Contents(d) : f.item \in ItemSet => f.item = now
<1>1. \A f \in Contents(u) \cup Contents(d) : f.item \in ItemSet => f.item = now
  BY TailFacts, OrderTail DEF Ordered
<1>2. Contents(Tail(u)) \subseteq Contents(u) /\ Tail(u) \in Seq(Frames)
  BY TailFacts
<1>3. \A f \in Contents(u) \cup Contents(d) : f \in Frames
  BY ContentsTyped
<1>4. \A f \in Contents(u) \cup Contents(d) : f.item # next
  <2>1. CASE next \in ItemSet
    BY <1>1, <2>1
  <2>2. CASE next = "NONE"
    BY <1>3, <2>2, Stages DEF Frames, FrameItems
  <2> QED BY <2>1, <2>2
<1>5. InOrder(Tail(u), next) /\ InOrder(d, next)
  BY <1>2, <1>4, OrderNew
<1> QED BY <1>1, <1>2, <1>4, <1>5 DEF Ordered

\* A transfer begins where one is complete.
LEMMA OrderedRestart ==
  ASSUME NEW u \in Seq(Frames), NEW d \in Seq(Frames), Ordered(u, d, "SPAWN", "NONE")
  PROVE  /\ Ordered(u, d, "SPAWN", "PREPARE")
         /\ \A f \in Contents(u) \cup Contents(d) : f.item \in ItemSet => f.item = "SPAWN"
<1>1. \A f \in Contents(u) \cup Contents(d) : f.item \in ItemSet => f.item = "SPAWN"
  BY Stages DEF Ordered
<1>2. \A f \in Contents(u) \cup Contents(d) : f.item # "PREPARE"
  BY <1>1, Stages
<1>3. InOrder(u, "PREPARE") /\ InOrder(d, "PREPARE")
  BY <1>2, OrderNew
<1> QED BY <1>1, <1>2, <1>3 DEF Ordered

\* A transfer begins where nothing has been transferred.
LEMMA OrderedFirst ==
  ASSUME NEW u \in Seq(Frames), NEW d \in Seq(Frames),
         \A f \in Contents(u) \cup Contents(d) : f.item \notin ItemSet
  PROVE  Ordered(u, d, "SPAWN", "PREPARE")
<1>1. \A f \in Contents(u) \cup Contents(d) : f.item # "PREPARE"
  BY Stages
<1>2. InOrder(u, "PREPARE") /\ InOrder(d, "PREPARE")
  BY <1>1, OrderNew
<1> QED BY <1>1, <1>2 DEF Ordered

-----------------------------------------------------------------------------
(* What an exchange keeps *)

\* Neither end of the transfer to p moves on.
Steady(p) ==
  /\ part'[p].stage = part[p].stage
  /\ part'[p].room = part[p].room
  /\ part'[p].epoch = part[p].epoch
  /\ part'[p].in => part[p].in
  /\ \/ cphase'[p] = "HOME"
     \/ /\ cphase'[p] = cphase[p] \/ {cphase'[p], cphase[p]} \subseteq Away
        /\ croom'[p] = croom[p]
        /\ cepoch'[p] = cepoch[p]
        /\ got'[p] = got[p]

LEMMA StageTyped ==
  ASSUME Typed, NEW p \in Clients
  PROVE  /\ part[p] \in Participant /\ part[p].stage \in 1..6 /\ up[p] \in Seq(Frames) /\ down[p] \in Seq(Frames)
         /\ Now(part[p].stage) \in ItemSet \cup {"NONE"}
<1>1. part[p] \in Participant /\ part[p].stage \in 1..6 /\ up[p] \in Seq(Frames) /\ down[p] \in Seq(Frames)
  BY Stages DEF Typed, HostTyped, Participant
<1> QED BY <1>1, StageItems DEF Now, Complete, Items

LEMMA AloneKeeps ==
  ASSUME Typed, NEW p \in Clients, Live(p) => InStep(p), Plain(up[p], up'[p]), Plain(down[p], down'[p]),
         Steady(p)
  PROVE  Live(p)' => InStep(p)'
<1>1. SUFFICES ASSUME Live(p)' PROVE InStep(p)'
  OBVIOUS
<1>2. /\ Live(p) /\ (cphase'[p] = cphase[p] \/ {cphase'[p], cphase[p]} \subseteq Away)
      /\ croom'[p] = croom[p] /\ cepoch'[p] = cepoch[p] /\ got'[p] = got[p]
  BY <1>1 DEF Live, Steady, Away
<1>3. /\ part[p].stage \in 1..6 /\ up[p] \in Seq(Frames) /\ down[p] \in Seq(Frames)
      /\ Now(part[p].stage) \in ItemSet \cup {"NONE"}
  BY StageTyped
<1>4. /\ \A f \in Contents(up'[p]) : f.item \in ItemSet => f \in Contents(up[p])
      /\ \A f \in Contents(down'[p]) : f.item \in ItemSet => f \in Contents(down[p])
  BY <1>3, PlainFacts DEF Steady
<1>5. part'[p].stage = part[p].stage /\ part'[p].room = part[p].room /\ part'[p].epoch = part[p].epoch
  BY DEF Steady
<1>6. Ordered(up'[p], down'[p], Last(part'[p].stage), Now(part'[p].stage))
  BY <1>2, <1>3, <1>5, OrderedPlain DEF Steady, InStep
<1>7. Meant(p)'
  BY <1>2, <1>4, <1>5 DEF InStep, Meant
<1>8. Prepared(p)'
  BY <1>2, <1>4, <1>5, Stages DEF InStep, Prepared, Synced, Away
<1>9. Received(p)'
  BY <1>2, <1>4, <1>5, Stages DEF InStep, Received
<1> QED BY <1>6, <1>7, <1>8, <1>9 DEF InStep

-----------------------------------------------------------------------------
(* What the steps have in common *)

Onward(p) ==
  /\ Early' => Early
  /\ NotStarted' => NotStarted
  /\ Accepted(p) => Accepted(p)'

\* A queue that loses its head or grows by a frame that is no item
UpMoves(p) ==
  \/ up'[p] = up[p]
  \/ up[p] # <<>> /\ up'[p] = Tail(up[p])
  \/ \E f \in Frames : f.item \notin ItemSet /\ UpSays(p, f)' /\ up'[p] = Append(up[p], f)
DownMoves(p) ==
  \/ down'[p] = down[p]
  \/ down[p] # <<>> /\ down'[p] = Tail(down[p])
  \/ \E f \in Frames : f.item \notin ItemSet /\ DownSays(p, f)' /\ down'[p] = Append(down[p], f)

SaidBefore(p) ==
  /\ \A f \in Contents(up'[p]) : f \in Contents(up[p]) \/ UpSays(p, f)'
  /\ \A f \in Contents(down'[p]) : f \in Contents(down[p]) \/ DownSays(p, f)'

LEMMA ToldKeeps ==
  ASSUME NEW p \in Clients, Told(p), Onward(p), SaidBefore(p)
  PROVE  Told(p)'
<1>1. \A f \in Contents(up[p]) : UpSays(p, f)'
  BY DEF Told, Onward, UpSays, Early, NotStarted, Accepted
<1>2. \A f \in Contents(down[p]) : DownSays(p, f)'
  BY DEF Told, Onward, DownSays, Early, NotStarted, Accepted
<1> QED BY <1>1, <1>2 DEF SaidBefore, Told

LEMMA MovesFacts ==
  ASSUME Typed, NEW p \in Clients, UpMoves(p), DownMoves(p)
  PROVE  SaidBefore(p) /\ Plain(up[p], up'[p]) /\ Plain(down[p], down'[p])
<1>1. up[p] \in Seq(Frames) /\ down[p] \in Seq(Frames)
  BY StageTyped
<1>2. Plain(up[p], up'[p])
  BY DEF UpMoves, Plain
<1>3. Plain(down[p], down'[p])
  BY DEF DownMoves, Plain
<1>4. \A f \in Contents(up'[p]) : f \in Contents(up[p]) \/ UpSays(p, f)'
  <2>1. CASE up'[p] = up[p] \/ (up[p] # <<>> /\ up'[p] = Tail(up[p]))
    BY <1>1, <2>1, TailFacts
  <2>2. CASE \E f \in Frames : f.item \notin ItemSet /\ UpSays(p, f)' /\ up'[p] = Append(up[p], f)
    <3>1. PICK f \in Frames : f.item \notin ItemSet /\ UpSays(p, f)' /\ up'[p] = Append(up[p], f)
      BY <2>2
    <3>2. Contents(up'[p]) = Contents(up[p]) \cup {f}
      BY <1>1, <3>1, AppendFacts
    <3> QED BY <3>1, <3>2
  <2> QED BY <2>1, <2>2 DEF UpMoves
<1>5. \A f \in Contents(down'[p]) : f \in Contents(down[p]) \/ DownSays(p, f)'
  <2>1. CASE down'[p] = down[p] \/ (down[p] # <<>> /\ down'[p] = Tail(down[p]))
    BY <1>1, <2>1, TailFacts
  <2>2. CASE \E f \in Frames : f.item \notin ItemSet /\ DownSays(p, f)' /\ down'[p] = Append(down[p], f)
    <3>1. PICK f \in Frames : f.item \notin ItemSet /\ DownSays(p, f)' /\ down'[p] = Append(down[p], f)
      BY <2>2
    <3>2. Contents(down'[p]) = Contents(down[p]) \cup {f}
      BY <1>1, <3>1, AppendFacts
    <3> QED BY <3>1, <3>2
  <2> QED BY <2>1, <2>2 DEF DownMoves
<1> QED BY <1>2, <1>3, <1>4, <1>5 DEF SaidBefore

LEMMA SteadyKeeps ==
  ASSUME Typed, NEW p \in Clients, Client(p), UpMoves(p), DownMoves(p), Onward(p), Steady(p),
         Willing(p)', Staged(p)'
  PROVE  Client(p)'
<1>1. SaidBefore(p) /\ Plain(up[p], up'[p]) /\ Plain(down[p], down'[p])
  BY MovesFacts
<1>2. Told(p)'
  BY <1>1, ToldKeeps DEF Client
<1>3. Live(p)' => InStep(p)'
  BY <1>1, AloneKeeps DEF Client
<1> QED BY <1>2, <1>3 DEF Client

\* What the invariant says of p that the queues do not hold
Same(p) ==
  /\ phase' = phase
  /\ part'[p] = part[p]
  /\ cphase'[p] = cphase[p]
  /\ invitation'[p] = invitation[p]
  /\ loading'[p] = loading[p]
  /\ croom'[p] = croom[p]
  /\ cepoch'[p] = cepoch[p]
  /\ got'[p] = got[p]

LEMMA SameKeeps ==
  ASSUME Typed, NEW p \in Clients, Client(p), UpMoves(p), DownMoves(p), Same(p)
  PROVE  Client(p)'
<1>1. Onward(p) /\ Steady(p)
  BY DEF Same, Onward, Early, NotStarted, Accepted, Steady
<1>2. Willing(p)'
  BY DEF Same, Client, Willing, Accepted
<1>3. Staged(p)'
  BY DEF Same, Client, Staged, Early, NotStarted
<1> QED BY <1>1, <1>2, <1>3, SteadyKeeps

Elsewhere(p) == \A q \in Clients \ {p} : Same(q) /\ up'[q] = up[q] /\ down'[q] = down[q]

LEMMA OneClient ==
  ASSUME Typed, NEW p \in Clients, \A q \in Clients : Client(q), Elsewhere(p), Client(p)'
  PROVE  \A q \in Clients : Client(q)'
<1>1. SUFFICES ASSUME NEW q \in Clients, q # p PROVE Client(q)'
  OBVIOUS
<1> QED BY <1>1, SameKeeps DEF Elsewhere, UpMoves, DownMoves

-----------------------------------------------------------------------------
(* Steps that only send, repeat or lose *)

LEMMA NoItems ==
  /\ {"INVITE", "accepted", "declined", "START", "END", "ROOM_READY", "ACTIVITY_READY",
                "LEAVE", "REQUEST", "EVENT"} \cap ItemSet = {}
  /\ {"INVITE", "RESPONSE", "START", "END", "ACK", "READY", "LEAVE", "REQUEST", "EVENT", "HEARD"} \cap ItemSet = {}
  /\ LoadItems \subseteq ItemSet
  /\ "ACK" \notin ItemSet
  BY Stages

\* Frames for the client that are no items and no start
LEMMA SaidDown ==
  ASSUME NEW p \in Clients, NEW f \in Frames, f.type = f.item, f.type \in {"INVITE", "END", "EVENT"}
  PROVE  f.item \notin ItemSet /\ DownSays(p, f)'
  BY NoItems DEF DownSays

\* Frames for the host that are no items
LEMMA SaidUp ==
  ASSUME NEW p \in Clients, NEW f \in Frames, f.item \notin ItemSet,
         f.type = "REQUEST" => f.epoch \in Rooms,
         f.type = "ACK" => f.item = "START",
         f.item = "ROOM_READY" => ~NotStarted',
         f.item = "accepted" => Accepted(p)'
  PROVE  UpSays(p, f)'
  BY DEF UpSays

LEMMA SendInviteKeeps ==
  ASSUME Typed, \A q \in Clients : Client(q), NEW p \in Clients, SendInvite(p)
  PROVE  Typed' /\ \A q \in Clients : Client(q)'
<1>1. UNCHANGED <<hostVars, clientVars, up>> /\ down' = [down EXCEPT ![p] = Append(@, Invite)]
  BY DEF SendInvite, ToClient
<1>2. Invite \in Frames /\ Invite.item \notin ItemSet /\ DownSays(p, Invite)'
  <2>1. Invite \in Frames /\ Invite.type = Invite.item /\ Invite.type = "INVITE"
    BY DEF Invite, Frame, Frames, FrameTypes, FrameItems
  <2> QED BY <2>1, SaidDown, NoItems
<1>3. Typed'
  BY <1>1, <1>2, AppendFacts DEF Typed, HostTyped, ClientsTyped, hostVars, combatVars, clientVars, areaVars
<1>4. ASSUME NEW q \in Clients PROVE Client(q)'
  <2>1. Same(q)
    BY <1>1 DEF Same, hostVars, clientVars, areaVars
  <2>2. UpMoves(q) /\ DownMoves(q)
    BY <1>1, <1>2 DEF UpMoves, DownMoves, Typed
  <2> QED BY <2>1, <2>2, SameKeeps
<1> QED BY <1>3, <1>4

LEMMA StoredResponseKeeps ==
  ASSUME Typed, \A q \in Clients : Client(q), NEW p \in Clients, SendStoredTravelResponse(p)
  PROVE  Typed' /\ \A q \in Clients : Client(q)'
<1>1. UNCHANGED <<hostVars, clientVars, down>> /\ invitation[p] \in {"accepted", "declined"}
      /\ up' = [up EXCEPT ![p] = Append(@, Frame("RESPONSE", invitation[p], 0, 0, 0))]
  BY DEF SendStoredTravelResponse, ToHost
<1>2. PICK f \in Frames : /\ f = Frame("RESPONSE", invitation[p], 0, 0, 0)
                          /\ f.type = "RESPONSE" /\ f.item = invitation[p]
  <2>1. Frame("RESPONSE", invitation[p], 0, 0, 0) \in Frames
    BY <1>1 DEF Frame, Frames, FrameTypes, FrameItems
  <2> QED BY <1>1, <2>1 DEF Frame
<1>3. f.item \notin ItemSet /\ UpSays(p, f)' /\ up' = [up EXCEPT ![p] = Append(@, f)]
  <2>1. f.item = "accepted" => Accepted(p)'
    BY <1>1, <1>2 DEF Accepted, clientVars
  <2> QED BY <1>1, <1>2, <2>1, SaidUp, NoItems
<1>4. Typed'
  BY <1>1, <1>3, AppendFacts DEF Typed, HostTyped, ClientsTyped, hostVars, combatVars, clientVars, areaVars
<1>5. ASSUME NEW q \in Clients PROVE Client(q)'
  <2>1. Same(q)
    BY <1>1 DEF Same, hostVars, clientVars, areaVars
  <2>2. UpMoves(q) /\ DownMoves(q)
    BY <1>1, <1>3 DEF UpMoves, DownMoves, Typed
  <2> QED BY <2>1, <2>2, SameKeeps
<1> QED BY <1>4, <1>5

LEMMA ReplyOne ==
  ASSUME NEW S, NEW s \in Seq(S), NEW f \in S
  PROVE  s \o <<f>> = Append(s, f)
  OBVIOUS

\* A client only says that it is ready again once there was a start.
LEMMA ReadySaid ==
  ASSUME Typed, NEW p \in Clients, Client(p), phase' = phase
  PROVE  \E f \in Frames : f.item \notin ItemSet /\ UpSays(p, f)' /\ Ready(p) = <<f>>
<1>1. cepoch[p] \in Nat
  BY DEF Typed, ClientsTyped
<1>2. PICK item \in {"ROOM_READY", "ACTIVITY_READY"} : item = IF loading[p] THEN "ROOM_READY" ELSE "ACTIVITY_READY"
  OBVIOUS
<1>3. PICK f \in Frames : f = Frame("READY", item, cepoch[p], 0, 0) /\ f.type = "READY" /\ f.item = item
  <2>1. Frame("READY", item, cepoch[p], 0, 0) \in Frames
    BY <1>1 DEF Frame, Frames, FrameTypes, FrameItems
  <2> QED BY <1>1, <2>1 DEF Frame
<1>4. item = "ROOM_READY" => ~NotStarted'
  BY <1>2 DEF Client, Staged, NotStarted
<1>5. f.item \notin ItemSet /\ UpSays(p, f)'
  BY <1>3, <1>4, SaidUp, NoItems
<1>6. Ready(p) = <<f>>
  BY <1>2, <1>3 DEF Ready
<1> QED BY <1>5, <1>6

LEMMA RepeatReadyKeeps ==
  ASSUME Typed, \A q \in Clients : Client(q), NEW p \in Clients, RepeatReady(p)
  PROVE  Typed' /\ \A q \in Clients : Client(q)'
<1>1. UNCHANGED <<hostVars, clientVars, down>> /\ up' = [up EXCEPT ![p] = @ \o Ready(p)]
  BY DEF RepeatReady, Replies
<1>2. PICK f \in Frames : f.item \notin ItemSet /\ UpSays(p, f)' /\ Ready(p) = <<f>>
  BY <1>1, ReadySaid DEF hostVars
<1>3. up' = [up EXCEPT ![p] = Append(@, f)]
  BY <1>1, <1>2, StageTyped, ReplyOne
<1>4. Typed'
  BY <1>1, <1>2, <1>3, AppendFacts DEF Typed, HostTyped, ClientsTyped, hostVars, combatVars, clientVars, areaVars
<1>5. ASSUME NEW q \in Clients PROVE Client(q)'
  <2>1. Same(q)
    BY <1>1 DEF Same, hostVars, clientVars, areaVars
  <2>2. UpMoves(q) /\ DownMoves(q)
    BY <1>1, <1>2, <1>3 DEF UpMoves, DownMoves, Typed
  <2> QED BY <2>1, <2>2, SameKeeps
<1> QED BY <1>4, <1>5

LEMMA RepeatRequestKeeps ==
  ASSUME Typed, \A q \in Clients : Client(q), NEW p \in Clients, RepeatRequest(p)
  PROVE  Typed' /\ \A q \in Clients : Client(q)'
<1>1. /\ UNCHANGED <<hostVars, clientVars, down>> /\ pendingDoor[p] # 0
      /\ up' = [up EXCEPT ![p] = Append(@, Frame("REQUEST", "REQUEST", pendingDoor[p], croom[p], door[p]))]
  BY DEF RepeatRequest, ToHost, Request, clientVars, areaVars
<1>2. pendingDoor[p] \in Rooms /\ pendingDoor[p] \in Nat /\ croom[p] \in Nat /\ door[p] \in Nat
  BY <1>1, RoomsAssumption DEF Typed, ClientsTyped
<1>3. PICK f \in Frames : /\ f = Frame("REQUEST", "REQUEST", pendingDoor[p], croom[p], door[p])
                          /\ f.type = "REQUEST" /\ f.item = "REQUEST" /\ f.epoch = pendingDoor[p]
  <2>1. Frame("REQUEST", "REQUEST", pendingDoor[p], croom[p], door[p]) \in Frames
    BY <1>2 DEF Frame, Frames, FrameTypes, FrameItems
  <2> QED BY <1>2, <2>1 DEF Frame
<1>4. f.item \notin ItemSet /\ UpSays(p, f)' /\ up' = [up EXCEPT ![p] = Append(@, f)]
  BY <1>1, <1>2, <1>3, SaidUp, NoItems
<1>5. Typed'
  BY <1>1, <1>4, AppendFacts DEF Typed, HostTyped, ClientsTyped, hostVars, combatVars, clientVars, areaVars
<1>6. ASSUME NEW q \in Clients PROVE Client(q)'
  <2>1. Same(q)
    BY <1>1 DEF Same, hostVars, clientVars, areaVars
  <2>2. UpMoves(q) /\ DownMoves(q)
    BY <1>1, <1>4 DEF UpMoves, DownMoves, Typed
  <2> QED BY <2>1, <2>2, SameKeeps
<1> QED BY <1>5, <1>6

LEMMA UseDoorKeeps ==
  ASSUME Typed, \A q \in Clients : Client(q), NEW p \in Clients, NEW destination \in Rooms, UseDoor(p, destination)
  PROVE  Typed' /\ \A q \in Clients : Client(q)'
<1>1. /\ UNCHANGED <<hostVars, cphase, invitation, loading, croom, cepoch, known, got, shown, heard, down>>
      /\ door' = [door EXCEPT ![p] = @ + 1] /\ pendingDoor' = [pendingDoor EXCEPT ![p] = destination]
  BY DEF UseDoor
<1>2. destination \in Nat /\ croom[p] \in Nat /\ door[p] + 1 \in Nat
  BY RoomsAssumption DEF Typed, ClientsTyped
<1>3. up' = [up EXCEPT ![p] = Append(@, Frame("REQUEST", "REQUEST", destination, croom[p], door[p] + 1))]
  <2>1. door'[p] = door[p] + 1 /\ pendingDoor'[p] = destination
    BY <1>1 DEF Typed, ClientsTyped
  <2> QED BY <2>1 DEF UseDoor, ToHost, Request
<1>4. PICK f \in Frames : /\ f = Frame("REQUEST", "REQUEST", destination, croom[p], door[p] + 1)
                          /\ f.type = "REQUEST" /\ f.item = "REQUEST" /\ f.epoch = destination
  <2>1. Frame("REQUEST", "REQUEST", destination, croom[p], door[p] + 1) \in Frames
    BY <1>2 DEF Frame, Frames, FrameTypes, FrameItems
  <2> QED BY <1>2, <2>1 DEF Frame
<1>5. f.item \notin ItemSet /\ UpSays(p, f)' /\ up' = [up EXCEPT ![p] = Append(@, f)]
  BY <1>3, <1>4, SaidUp, NoItems
<1>6. Typed'
  BY <1>1, <1>2, <1>5, AppendFacts DEF Typed, HostTyped, ClientsTyped, hostVars, combatVars
<1>7. ASSUME NEW q \in Clients PROVE Client(q)'
  <2>1. Same(q)
    BY <1>1 DEF Same, hostVars
  <2>2. UpMoves(q) /\ DownMoves(q)
    BY <1>1, <1>5 DEF UpMoves, DownMoves, Typed
  <2> QED BY <2>1, <2>2, SameKeeps
<1> QED BY <1>6, <1>7

LEMMA LoseKeeps ==
  ASSUME Typed, \A q \in Clients : Client(q), NEW p \in Clients, Lose(p)
  PROVE  Typed' /\ \A q \in Clients : Client(q)'
<1>1. /\ UNCHANGED <<hostVars, clientVars>>
      /\ \/ up[p] # <<>> /\ up' = [up EXCEPT ![p] = Tail(@)] /\ UNCHANGED down
         \/ down[p] # <<>> /\ down' = [down EXCEPT ![p] = Tail(@)] /\ UNCHANGED up
  BY DEF Lose
<1>2. Typed'
  <2>1. up[p] \in Seq(Frames) /\ down[p] \in Seq(Frames)
    BY StageTyped
  <2>2. /\ up[p] # <<>> => Tail(up[p]) \in Seq(Frames)
        /\ down[p] # <<>> => Tail(down[p]) \in Seq(Frames)
    BY <2>1, TailFacts
  <2>3. up' \in [Clients -> Seq(Frames)] /\ down' \in [Clients -> Seq(Frames)]
    BY <1>1, <2>2 DEF Typed
  <2> QED BY <1>1, <2>3 DEF Typed, HostTyped, ClientsTyped, hostVars, combatVars, clientVars, areaVars
<1>3. ASSUME NEW q \in Clients PROVE Client(q)'
  <2>1. Same(q)
    BY <1>1 DEF Same, hostVars, clientVars, areaVars
  <2>2. UpMoves(q) /\ DownMoves(q)
    BY <1>1 DEF UpMoves, DownMoves, Typed
  <2> QED BY <2>1, <2>2, SameKeeps
<1> QED BY <1>2, <1>3

LEMMA CombatAckKeeps ==
  ASSUME Typed, \A q \in Clients : Client(q), NEW p \in Clients, ProcessCombatAck(p)
  PROVE  Typed' /\ \A q \in Clients : Client(q)'
<1>1. /\ UNCHANGED <<phase, part, revision, spells, turns, eventRoom, eventRetries, repeats, clientVars, down>>
      /\ up[p] # <<>> /\ up' = [up EXCEPT ![p] = Tail(@)]
      /\ eventPending' \subseteq eventPending
  BY DEF ProcessCombatAck, Hears
<1>2. Typed'
  BY <1>1, TailFacts DEF Typed, HostTyped, ClientsTyped, clientVars, areaVars
<1>3. ASSUME NEW q \in Clients PROVE Client(q)'
  <2>1. Same(q)
    BY <1>1 DEF Same, clientVars, areaVars
  <2>2. UpMoves(q) /\ DownMoves(q)
    BY <1>1 DEF UpMoves, DownMoves, Typed
  <2> QED BY <2>1, <2>2, SameKeeps
<1> QED BY <1>2, <1>3

LEMMA CombatEventKeeps ==
  ASSUME Typed, \A q \in Clients : Client(q), NEW p \in Clients, ProcessCombatEvent(p)
  PROVE  Typed' /\ \A q \in Clients : Client(q)'
<1>1. down[p] # <<>> /\ Head(down[p]) \in Frames /\ Head(down[p]).epoch \in Nat
  <2>1. down[p] # <<>> /\ down[p] \in Seq(Frames)
    BY StageTyped DEF ProcessCombatEvent, Takes, Hears
  <2>2. Head(down[p]) \in Frames
    BY <2>1, TailFacts
  <2> QED BY <2>1, <2>2 DEF Frames
<1>2. PICK e \in Nat : e = Head(down[p]).epoch
  BY <1>1
<1>3. /\ UNCHANGED <<hostVars, cphase, invitation, loading, croom, cepoch, got, shown, door, pendingDoor>>
      /\ down' = [down EXCEPT ![p] = Tail(@)]
      /\ heard' = heard \/ heard' = [heard EXCEPT ![p] = e]
      /\ up' = up \/ up' = [up EXCEPT ![p] = @ \o <<Frame("HEARD", "EVENT", e, 0, 0)>>]
  BY <1>2 DEF ProcessCombatEvent, Takes, Replies, Typed, ClientsTyped
<1>4. PICK f \in Frames : f = Frame("HEARD", "EVENT", e, 0, 0) /\ f.type = "HEARD" /\ f.item = "EVENT"
  <2>1. Frame("HEARD", "EVENT", e, 0, 0) \in Frames
    BY DEF Frame, Frames, FrameTypes, FrameItems
  <2> QED BY <2>1 DEF Frame
<1>5. f.item \notin ItemSet /\ UpSays(p, f)'
  BY <1>4, SaidUp, NoItems
<1>6. up' = up \/ up' = [up EXCEPT ![p] = Append(@, f)]
  BY <1>3, <1>4, StageTyped, ReplyOne
<1>7. Typed'
  <2>1. down' \in [Clients -> Seq(Frames)]
    BY <1>1, <1>3, TailFacts DEF Typed
  <2>2. up' \in [Clients -> Seq(Frames)]
    <3>1. Append(up[p], f) \in Seq(Frames)
      BY StageTyped, AppendFacts
    <3> QED BY <1>6, <3>1 DEF Typed
  <2>3. heard' \in [Clients -> Nat]
    BY <1>3 DEF Typed, ClientsTyped
  <2> QED BY <1>3, <2>1, <2>2, <2>3 DEF Typed, HostTyped, ClientsTyped, hostVars, combatVars
<1>8. ASSUME NEW q \in Clients PROVE Client(q)'
  <2>1. Same(q)
    BY <1>3 DEF Same, hostVars
  <2>2. UpMoves(q) /\ DownMoves(q)
    BY <1>1, <1>3, <1>5, <1>6 DEF UpMoves, DownMoves, Typed
  <2> QED BY <2>1, <2>2, SameKeeps
<1> QED BY <1>7, <1>8

-----------------------------------------------------------------------------
(* Steps that tell several clients at once *)

LEMMA Broadcast ==
  ASSUME Typed, NEW S, NEW f \in Frames, f.item \notin ItemSet, \A q \in Clients : DownSays(q, f)',
         down' = [q \in Clients |-> IF q \in S THEN Append(down[q], f) ELSE down[q]]
  PROVE  down' \in [Clients -> Seq(Frames)] /\ \A q \in Clients : DownMoves(q)
<1>1. \A q \in Clients : Append(down[q], f) \in Seq(Frames) /\ down[q] \in Seq(Frames)
  BY StageTyped, AppendFacts
<1>2. \A q \in Clients : down'[q] = down[q] \/ down'[q] = Append(down[q], f)
  OBVIOUS
<1>3. down' \in [Clients -> Seq(Frames)]
  BY <1>1
<1> QED BY <1>2, <1>3 DEF DownMoves

\* The numbers an event carries
LEMMA EventMade ==
  ASSUME NEW t \in Nat, NEW r \in Rooms, NEW n \in Nat
  PROVE  \E f \in Frames : /\ f = Frame("EVENT", "EVENT", t, r, n)
                           /\ f.item \notin ItemSet /\ \A q \in Clients : DownSays(q, f)'
<1>1. PICK f \in Frames : f = Frame("EVENT", "EVENT", t, r, n) /\ f.type = "EVENT" /\ f.item = "EVENT"
  <2>1. Frame("EVENT", "EVENT", t, r, n) \in Frames
    BY RoomsAssumption DEF Frame, Frames, FrameTypes, FrameItems
  <2> QED BY <2>1 DEF Frame
<1>2. f.item \notin ItemSet /\ \A q \in Clients : DownSays(q, f)'
  BY <1>1, SaidDown, NoItems
<1> QED BY <1>1, <1>2

LEMMA RetryEventKeeps ==
  ASSUME Typed, \A q \in Clients : Client(q), RetryEvent
  PROVE  Typed' /\ \A q \in Clients : Client(q)'
<1>1. turns \in Nat /\ eventRoom \in Rooms /\ revision[eventRoom] \in Nat
  BY DEF RetryEvent, Typed, HostTyped
<1>2. PICK f \in Frames : /\ f = Frame("EVENT", "EVENT", turns, eventRoom, revision[eventRoom])
                          /\ f.item \notin ItemSet /\ \A q \in Clients : DownSays(q, f)'
  BY <1>1, EventMade
<1>3. /\ UNCHANGED <<phase, part, revision, spells, turns, eventRoom, repeats, clientVars, up>>
      /\ eventPending' \subseteq eventPending
      /\ \/ down' = [q \in Clients |-> IF q \in eventPending THEN Append(down[q], f) ELSE down[q]]
         \/ down' = down
  BY <1>2 DEF RetryEvent
<1>4. down' \in [Clients -> Seq(Frames)] /\ \A q \in Clients : DownMoves(q)
  <2>1. CASE down' = down
    BY <2>1 DEF Typed, DownMoves
  <2>2. CASE down' = [q \in Clients |-> IF q \in eventPending THEN Append(down[q], f) ELSE down[q]]
    BY <1>2, <2>2, Broadcast
  <2> QED BY <1>3, <2>1, <2>2
<1>5. Typed'
  BY <1>3, <1>4 DEF Typed, HostTyped, ClientsTyped, clientVars, areaVars
<1>6. ASSUME NEW q \in Clients PROVE Client(q)'
  <2>1. Same(q) /\ UpMoves(q)
    BY <1>3 DEF Same, clientVars, areaVars, UpMoves
  <2> QED BY <1>4, <2>1, SameKeeps
<1> QED BY <1>5, <1>6

\* An event of the combat is told, of the revision the room has then.
LEMMA EventTold ==
  ASSUME Typed, NEW r \in Rooms, EmitEvent(r), revision' \in [Rooms -> Nat]
  PROVE  /\ turns' \in Nat /\ eventRoom' \in Rooms /\ eventPending' \in SUBSET Clients
         /\ down' \in [Clients -> Seq(Frames)] /\ \A q \in Clients : DownMoves(q)
<1>1. /\ turns' = turns + 1 /\ eventRoom' = r /\ eventPending' = Participants
      /\ ToClients(Participants, LAMBDA p : Event)
  BY DEF EmitEvent
<1>2. turns' \in Nat /\ eventRoom' \in Rooms /\ revision'[eventRoom'] \in Nat /\ eventPending' \in SUBSET Clients
  BY <1>1 DEF Typed, HostTyped, Participants
<1>3. PICK f \in Frames : /\ f = Event
                          /\ f.item \notin ItemSet /\ \A q \in Clients : DownSays(q, f)'
  BY <1>2, EventMade DEF Event
<1>4. down' = [q \in Clients |-> IF q \in Participants THEN Append(down[q], f) ELSE down[q]]
  BY <1>1, <1>3 DEF ToClients
<1> QED BY <1>2, <1>3, <1>4, Broadcast

LEMMA CombatTurnKeeps ==
  ASSUME Typed, \A q \in Clients : Client(q), NEW r \in Rooms, CombatTurn(r)
  PROVE  Typed' /\ \A q \in Clients : Client(q)'
<1>1. /\ UNCHANGED <<phase, part, spells, repeats, clientVars, up>>
      /\ revision' = [revision EXCEPT ![r] = @ + 1] /\ EmitEvent(r)
  BY DEF CombatTurn
<1>2. revision' \in [Rooms -> Nat]
  BY <1>1 DEF Typed, HostTyped
<1>3. /\ turns' \in Nat /\ eventRoom' \in Rooms /\ eventPending' \in SUBSET Clients
      /\ down' \in [Clients -> Seq(Frames)] /\ \A q \in Clients : DownMoves(q)
  BY <1>1, <1>2, EventTold
<1>4. Typed'
  BY <1>1, <1>2, <1>3, RoomsAssumption DEF Typed, HostTyped, ClientsTyped, clientVars, areaVars
<1>5. ASSUME NEW q \in Clients PROVE Client(q)'
  <2>1. Same(q) /\ UpMoves(q)
    BY <1>1 DEF Same, clientVars, areaVars, UpMoves
  <2> QED BY <1>3, <2>1, SameKeeps
<1> QED BY <1>4, <1>5

\* A start is told once the host has started.
LEMMA StartMade ==
  ASSUME NEW epoch \in Nat, ~NotStarted'
  PROVE  \E f \in Frames : /\ f = Start(epoch)
                           /\ f.item \notin ItemSet /\ \A q \in Clients : DownSays(q, f)'
<1>1. PICK f \in Frames : f = Start(epoch) /\ f.type = "START" /\ f.item = "START"
  <2>1. Start(epoch) \in Frames
    BY DEF Start, Frame, Frames, FrameTypes, FrameItems
  <2> QED BY <2>1 DEF Start, Frame
<1>2. f.item \notin ItemSet /\ \A q \in Clients : DownSays(q, f)'
  BY <1>1, NoItems DEF DownSays, NotStarted, Early
<1> QED BY <1>1, <1>2

LEMMA EndMade ==
  \E f \in Frames : f = End /\ f.item \notin ItemSet /\ \A q \in Clients : DownSays(q, f)'
<1>1. PICK f \in Frames : f = End /\ f.type = "END" /\ f.item = "END"
  <2>1. End \in Frames
    BY DEF End, Frame, Frames, FrameTypes, FrameItems
  <2> QED BY <2>1 DEF End, Frame
<1>2. f.item \notin ItemSet /\ \A q \in Clients : DownSays(q, f)'
  BY <1>1, SaidDown, NoItems
<1> QED BY <1>1, <1>2

LEMMA RepeatStartKeeps ==
  ASSUME Typed, \A q \in Clients : Client(q), RepeatStart
  PROVE  Typed' /\ \A q \in Clients : Client(q)'
<1>1. /\ UNCHANGED <<phase, part, revision, spells, combatVars, clientVars, up>> /\ phase = "ACTIVE"
      /\ ToClients({p \in Participants : ~part[p].startAcked}, LAMBDA p : Start(1))
  BY DEF RepeatStart
<1>2. PICK f \in Frames : f = Start(1) /\ f.item \notin ItemSet /\ \A q \in Clients : DownSays(q, f)'
  BY <1>1, StartMade DEF NotStarted
<1>3. down' \in [Clients -> Seq(Frames)] /\ \A q \in Clients : DownMoves(q)
  <2> DEFINE S == {p \in Participants : ~part[p].startAcked}
  <2>1. down' = [q \in Clients |-> IF q \in S THEN Append(down[q], f) ELSE down[q]]
    BY <1>1, <1>2 DEF ToClients
  <2> HIDE DEF S
  <2> QED BY <1>2, <2>1, Broadcast
<1>4. Typed'
  BY <1>1, <1>3 DEF Typed, HostTyped, ClientsTyped, combatVars, clientVars, areaVars
<1>5. ASSUME NEW q \in Clients PROVE Client(q)'
  <2>1. Same(q) /\ UpMoves(q)
    BY <1>1 DEF Same, clientVars, areaVars, UpMoves
  <2> QED BY <1>3, <2>1, SameKeeps
<1> QED BY <1>4, <1>5

LEMMA StartKeeps ==
  ASSUME Typed, \A q \in Clients : Client(q), StartHostActivity
  PROVE  Typed' /\ \A q \in Clients : Client(q)'
<1>1. /\ UNCHANGED <<revision, spells, combatVars, clientVars, up>> /\ phase = "LOADING" /\ phase' = "ACTIVE"
      /\ \A q \in Participants : part[q].ready
      /\ part' = [p \in Clients |-> [part[p] EXCEPT !.startAcked = FALSE]]
      /\ ToClients(Participants, LAMBDA p : Start(1))
  BY DEF StartHostActivity, AllParticipantsReady
<1>2. PICK f \in Frames : f = Start(1) /\ f.item \notin ItemSet /\ \A q \in Clients : DownSays(q, f)'
  BY <1>1, StartMade DEF NotStarted
<1>3. down' \in [Clients -> Seq(Frames)] /\ \A q \in Clients : DownMoves(q)
  <2>1. down' = [q \in Clients |-> IF q \in Participants THEN Append(down[q], f) ELSE down[q]]
    BY <1>1, <1>2 DEF ToClients
  <2> QED BY <1>2, <2>1, Broadcast
<1>4. part' \in [Clients -> Participant]
  <2>1. \A q \in Clients : [part[q] EXCEPT !.startAcked = FALSE] \in Participant
    BY StageTyped DEF Participant
  <2> QED BY <1>1, <2>1
<1>5. Typed'
  BY <1>1, <1>3, <1>4 DEF Typed, HostTyped, ClientsTyped, combatVars, clientVars, areaVars, Phases
<1>6. ASSUME NEW q \in Clients PROVE Client(q)'
  <2>1. /\ part'[q].stage = part[q].stage /\ part'[q].room = part[q].room /\ part'[q].epoch = part[q].epoch
        /\ part'[q].in = part[q].in /\ part'[q].expect = part[q].expect /\ part'[q].ready = part[q].ready
        /\ part'[q].roomLoading = part[q].roomLoading
    BY <1>1 DEF Typed, HostTyped, Participant
  <2>2. UpMoves(q) /\ Onward(q) /\ Steady(q)
    BY <1>1, <2>1 DEF clientVars, areaVars, UpMoves, Onward, Early, NotStarted, Accepted, Steady
  <2>3. Willing(q)'
    BY <1>1, <2>1 DEF Client, Willing, Accepted, clientVars
  <2>4. Staged(q)'
    BY <1>1, <2>1 DEF Client, Staged, Early, NotStarted, Participants
  <2> QED BY <1>3, <2>2, <2>3, <2>4, SteadyKeeps
<1> QED BY <1>5, <1>6

LEMMA RequestTravelKeeps ==
  ASSUME Typed, \A q \in Clients : Client(q), RequestTravel
  PROVE  Typed' /\ \A q \in Clients : Client(q)'
<1>1. /\ UNCHANGED <<revision, spells, combatVars, clientVars, up>> /\ phase = "TOWN" /\ phase' = "WAITING"
      /\ part' = [p \in Clients |-> [part[p] EXCEPT !.invited = TRUE]]
      /\ ToClients(Clients, LAMBDA p : Invite)
  BY DEF RequestTravel
<1>2. Invite \in Frames /\ Invite.item \notin ItemSet /\ \A q \in Clients : DownSays(q, Invite)'
  <2>1. Invite \in Frames /\ Invite.type = Invite.item /\ Invite.type = "INVITE"
    BY DEF Invite, Frame, Frames, FrameTypes, FrameItems
  <2> QED BY <2>1, SaidDown, NoItems
<1>3. down' \in [Clients -> Seq(Frames)] /\ \A q \in Clients : DownMoves(q)
  <2>1. down' = [q \in Clients |-> IF q \in Clients THEN Append(down[q], Invite) ELSE down[q]]
    BY <1>1 DEF ToClients
  <2> QED BY <1>2, <2>1, Broadcast
<1>4. part' \in [Clients -> Participant]
  <2>1. part \in [Clients -> Participant]
    BY DEF Typed, HostTyped
  <2>2. ASSUME NEW q \in Clients PROVE [part[q] EXCEPT !.invited = TRUE] \in Participant
    BY <2>1 DEF Participant
  <2> QED BY <1>1, <2>2
<1>5. Typed'
  BY <1>1, <1>3, <1>4 DEF Typed, HostTyped, ClientsTyped, combatVars, clientVars, areaVars, Phases
<1>6. ASSUME NEW q \in Clients PROVE Client(q)'
  <2>1. /\ part'[q].stage = part[q].stage /\ part'[q].room = part[q].room /\ part'[q].epoch = part[q].epoch
        /\ part'[q].in = part[q].in /\ part'[q].expect = part[q].expect /\ part'[q].ready = part[q].ready
        /\ part'[q].roomLoading = part[q].roomLoading
    BY <1>1 DEF Typed, HostTyped, Participant
  <2>2. UpMoves(q) /\ Onward(q) /\ Steady(q)
    BY <1>1, <2>1 DEF clientVars, areaVars, UpMoves, Onward, Early, NotStarted, Accepted, Steady
  <2>3. Willing(q)'
    BY <1>1, <2>1 DEF Client, Willing, Accepted, clientVars
  <2>4. Staged(q)'
    BY <1>1, <2>1 DEF Client, Staged, Early, NotStarted, clientVars, areaVars
  <2> QED BY <1>3, <2>2, <2>3, <2>4, SteadyKeeps
<1> QED BY <1>5, <1>6

\* A client that takes no part
LEMMA GoneKeeps ==
  ASSUME Typed, NEW p \in Clients, Client(p), UpMoves(p), DownMoves(p), Onward(p), ~Live(p)',
         Willing(p)', Staged(p)'
  PROVE  Client(p)'
<1>1. Told(p)'
  BY MovesFacts, ToldKeeps DEF Client
<1> QED BY <1>1 DEF Client

LEMMA HostLeavesKeeps ==
  ASSUME Typed, \A q \in Clients : Client(q), HostLeaves
  PROVE  Typed' /\ \A q \in Clients : Client(q)'
<1>1. /\ UNCHANGED <<revision, spells, turns, eventRoom, clientVars, up>> /\ phase' = "OVER"
      /\ eventPending' = {} /\ phase = "ACTIVE"
      /\ part' = [p \in Clients |-> NoParticipant]
      /\ ToClients(Participants, LAMBDA p : End)
  BY DEF HostLeaves
<1>2. PICK f \in Frames : f = End /\ f.item \notin ItemSet /\ \A q \in Clients : DownSays(q, f)'
  BY EndMade
<1>3. down' \in [Clients -> Seq(Frames)] /\ \A q \in Clients : DownMoves(q)
  <2>1. down' = [q \in Clients |-> IF q \in Participants THEN Append(down[q], f) ELSE down[q]]
    BY <1>1, <1>2 DEF ToClients
  <2> QED BY <1>2, <2>1, Broadcast
<1>4. NoParticipant \in Participant
  BY RoomsAssumption, Stages DEF NoParticipant, Participant
<1>5. Typed'
  BY <1>1, <1>3, <1>4 DEF Typed, HostTyped, ClientsTyped, clientVars, areaVars, Phases
<1>6. ASSUME NEW q \in Clients PROVE Client(q)'
  <2>1. /\ ~part'[q].in /\ part'[q].expect = "NONE" /\ ~part'[q].ready
    BY <1>1 DEF NoParticipant
  <2>2. UpMoves(q) /\ Onward(q) /\ ~Live(q)'
    BY <1>1, <2>1 DEF clientVars, areaVars, UpMoves, Onward, Early, NotStarted, Accepted, Live
  <2>3. Willing(q)'
    BY <1>1, <2>1 DEF Client, Willing, Accepted, clientVars
  <2>4. Staged(q)'
    BY <1>1, <2>1 DEF Staged, Early, NotStarted
  <2> QED BY <1>3, <2>2, <2>3, <2>4, GoneKeeps
<1> QED BY <1>5, <1>6

-----------------------------------------------------------------------------
(* Records of participants *)

LEMMA Updated ==
  ASSUME NEW r \in Participant
  PROVE  /\ \A b \in BOOLEAN : /\ [r EXCEPT !.responded = b] \in Participant
                               /\ [r EXCEPT !.in = b] \in Participant
                               /\ [r EXCEPT !.ready = b] \in Participant
                               /\ [r EXCEPT !.startAcked = b] \in Participant
                               /\ [r EXCEPT !.roomLoading = b] \in Participant
         /\ \A x \in Rooms : [r EXCEPT !.room = x] \in Participant
         /\ \A n \in Nat : /\ [r EXCEPT !.epoch = n] \in Participant
                           /\ [r EXCEPT !.retries = n] \in Participant
                           /\ [r EXCEPT !.door = n] \in Participant
         /\ \A k \in 1..Complete : [r EXCEPT !.stage = k] \in Participant
         /\ \A e \in ItemSet \cup {"NONE", "START"} : [r EXCEPT !.expect = e] \in Participant
  BY DEF Participant

\* When the host begins to load
LEMMA BegunTyped ==
  ASSUME NEW r \in Participant,
         NEW s, s = [r EXCEPT !.responded = TRUE, !.ready = FALSE, !.room = 1,
               !.epoch = 1, !.stage = 1, !.retries = 0, !.expect = "NONE"]
  PROVE  s \in Participant
<1> DEFINE r1 == [r EXCEPT !.responded = TRUE]
           r2 == [r1 EXCEPT !.ready = FALSE]
           r3 == [r2 EXCEPT !.room = 1]
           r4 == [r3 EXCEPT !.epoch = 1]
           r5 == [r4 EXCEPT !.stage = 1]
           r6 == [r5 EXCEPT !.retries = 0]
           r7 == [r6 EXCEPT !.expect = "NONE"]
<1>1. s = r7
  OBVIOUS
<1>2. 1 \in 1..Complete /\ 1 \in Rooms /\ 0 \in Nat
  BY Stages, RoomsAssumption
<1>3. r1 \in Participant
  BY Updated
<1> HIDE DEF r1
<1>4. r2 \in Participant
  BY <1>3, Updated
<1> HIDE DEF r2
<1>5. r3 \in Participant
  BY <1>2, <1>4, Updated
<1> HIDE DEF r3
<1>6. r4 \in Participant
  BY <1>2, <1>5, Updated
<1> HIDE DEF r4
<1>7. r5 \in Participant
  BY <1>2, <1>6, Updated
<1> HIDE DEF r5
<1>8. r6 \in Participant
  BY <1>2, <1>7, Updated
<1> HIDE DEF r6
<1>9. r7 \in Participant
  BY <1>8, Updated
<1> HIDE DEF r7
<1> QED BY <1>1, <1>9

\* When it goes through a door
LEMMA TransitionTyped ==
  ASSUME NEW r \in Participant, NEW n \in Nat, NEW room \in Rooms, NEW epoch \in Nat,
         NEW s, s = [r EXCEPT !.door = n, !.room = room, !.roomLoading = TRUE, !.ready = FALSE,
               !.epoch = epoch, !.stage = 1, !.retries = 0, !.expect = "NONE"]
  PROVE  s \in Participant
<1> DEFINE r1 == [r EXCEPT !.door = n]
           r2 == [r1 EXCEPT !.room = room]
           r3 == [r2 EXCEPT !.roomLoading = TRUE]
           r4 == [r3 EXCEPT !.ready = FALSE]
           r5 == [r4 EXCEPT !.epoch = epoch]
           r6 == [r5 EXCEPT !.stage = 1]
           r7 == [r6 EXCEPT !.retries = 0]
           r8 == [r7 EXCEPT !.expect = "NONE"]
<1>1. s = r8
  OBVIOUS
<1>2. 1 \in 1..Complete /\ 1 \in Rooms /\ 0 \in Nat
  BY Stages, RoomsAssumption
<1>3. r1 \in Participant
  BY Updated
<1> HIDE DEF r1
<1>4. r2 \in Participant
  BY <1>2, <1>3, Updated
<1> HIDE DEF r2
<1>5. r3 \in Participant
  BY <1>4, Updated
<1> HIDE DEF r3
<1>6. r4 \in Participant
  BY <1>5, Updated
<1> HIDE DEF r4
<1>7. r5 \in Participant
  BY <1>2, <1>6, Updated
<1> HIDE DEF r5
<1>8. r6 \in Participant
  BY <1>2, <1>7, Updated
<1> HIDE DEF r6
<1>9. r7 \in Participant
  BY <1>2, <1>8, Updated
<1> HIDE DEF r7
<1>10. r8 \in Participant
  BY <1>9, Updated
<1> HIDE DEF r8
<1> QED BY <1>1, <1>10

\* When its room is given it anew
LEMMA RefreshTyped ==
  ASSUME NEW r \in Participant, NEW epoch \in Nat,
         NEW s, s = [r EXCEPT !.roomLoading = TRUE, !.ready = FALSE, !.startAcked = FALSE,
               !.epoch = epoch, !.stage = 1, !.retries = 0, !.expect = "NONE"]
  PROVE  s \in Participant
<1> DEFINE r1 == [r EXCEPT !.roomLoading = TRUE]
           r2 == [r1 EXCEPT !.ready = FALSE]
           r3 == [r2 EXCEPT !.startAcked = FALSE]
           r4 == [r3 EXCEPT !.epoch = epoch]
           r5 == [r4 EXCEPT !.stage = 1]
           r6 == [r5 EXCEPT !.retries = 0]
           r7 == [r6 EXCEPT !.expect = "NONE"]
<1>1. s = r7
  OBVIOUS
<1>2. 1 \in 1..Complete /\ 1 \in Rooms /\ 0 \in Nat
  BY Stages, RoomsAssumption
<1>3. r1 \in Participant
  BY Updated
<1> HIDE DEF r1
<1>4. r2 \in Participant
  BY <1>3, Updated
<1> HIDE DEF r2
<1>5. r3 \in Participant
  BY <1>4, Updated
<1> HIDE DEF r3
<1>6. r4 \in Participant
  BY <1>2, <1>5, Updated
<1> HIDE DEF r4
<1>7. r5 \in Participant
  BY <1>2, <1>6, Updated
<1> HIDE DEF r5
<1>8. r6 \in Participant
  BY <1>2, <1>7, Updated
<1> HIDE DEF r6
<1>9. r7 \in Participant
  BY <1>8, Updated
<1> HIDE DEF r7
<1> QED BY <1>1, <1>9

\* When it has acknowledged a start
LEMMA StartAckedTyped ==
  ASSUME NEW r \in Participant,
         NEW s, s = [r EXCEPT !.startAcked = TRUE, !.expect = "NONE", !.retries = 0, !.roomLoading = FALSE]
  PROVE  s \in Participant
<1> DEFINE r1 == [r EXCEPT !.startAcked = TRUE]
           r2 == [r1 EXCEPT !.expect = "NONE"]
           r3 == [r2 EXCEPT !.retries = 0]
           r4 == [r3 EXCEPT !.roomLoading = FALSE]
<1>1. s = r4
  OBVIOUS
<1>2. 1 \in 1..Complete /\ 1 \in Rooms /\ 0 \in Nat
  BY Stages, RoomsAssumption
<1>3. r1 \in Participant
  BY Updated
<1> HIDE DEF r1
<1>4. r2 \in Participant
  BY <1>3, Updated
<1> HIDE DEF r2
<1>5. r3 \in Participant
  BY <1>2, <1>4, Updated
<1> HIDE DEF r3
<1>6. r4 \in Participant
  BY <1>5, Updated
<1> HIDE DEF r4
<1> QED BY <1>1, <1>6

\* When it has acknowledged an item
LEMMA AdvancedTyped ==
  ASSUME NEW r \in Participant, NEW k \in 1..Complete,
         NEW s, s = [r EXCEPT !.stage = k, !.expect = "NONE", !.retries = 0]
  PROVE  s \in Participant
<1> DEFINE r1 == [r EXCEPT !.stage = k]
           r2 == [r1 EXCEPT !.expect = "NONE"]
           r3 == [r2 EXCEPT !.retries = 0]
<1>1. s = r3
  OBVIOUS
<1>2. 1 \in 1..Complete /\ 1 \in Rooms /\ 0 \in Nat
  BY Stages, RoomsAssumption
<1>3. r1 \in Participant
  BY <1>2, Updated
<1> HIDE DEF r1
<1>4. r2 \in Participant
  BY <1>3, Updated
<1> HIDE DEF r2
<1>5. r3 \in Participant
  BY <1>2, <1>4, Updated
<1> HIDE DEF r3
<1> QED BY <1>1, <1>5

\* When it is to be told to start
LEMMA ReadyTyped ==
  ASSUME NEW r \in Participant,
         NEW s, s = [r EXCEPT !.ready = TRUE, !.startAcked = FALSE, !.retries = 0, !.expect = "START"]
  PROVE  s \in Participant
<1> DEFINE r1 == [r EXCEPT !.ready = TRUE]
           r2 == [r1 EXCEPT !.startAcked = FALSE]
           r3 == [r2 EXCEPT !.retries = 0]
           r4 == [r3 EXCEPT !.expect = "START"]
<1>1. s = r4
  OBVIOUS
<1>2. 1 \in 1..Complete /\ 1 \in Rooms /\ 0 \in Nat
  BY Stages, RoomsAssumption
<1>3. r1 \in Participant
  BY Updated
<1> HIDE DEF r1
<1>4. r2 \in Participant
  BY <1>3, Updated
<1> HIDE DEF r2
<1>5. r3 \in Participant
  BY <1>2, <1>4, Updated
<1> HIDE DEF r3
<1>6. r4 \in Participant
  BY <1>5, Updated
<1> HIDE DEF r4
<1> QED BY <1>1, <1>6

-----------------------------------------------------------------------------
(* Steps of the invitation *)

LEMMA InviteKeeps ==
  ASSUME Typed, \A q \in Clients : Client(q), NEW p \in Clients, ProcessTravelInvite(p)
  PROVE  Typed' /\ \A q \in Clients : Client(q)'
<1>1. /\ UNCHANGED <<hostVars, cphase, areaVars, up>> /\ down[p] # <<>> /\ down' = [down EXCEPT ![p] = Tail(@)]
      /\ invitation' = invitation
           \/ (invitation' = [invitation EXCEPT ![p] = "pending"] /\ invitation[p] = "no" /\ cphase[p] = "TOWN")
  BY DEF ProcessTravelInvite, Hears, Typed, ClientsTyped
<1>2. Typed'
  <2>1. down' \in [Clients -> Seq(Frames)]
    BY <1>1, StageTyped, TailFacts DEF Typed
  <2>2. invitation' \in [Clients -> {"no", "pending", "accepted", "declined"}]
    BY <1>1 DEF Typed, ClientsTyped
  <2> QED BY <1>1, <2>1, <2>2 DEF Typed, HostTyped, ClientsTyped, hostVars, combatVars, areaVars
<1>3. ASSUME NEW q \in Clients PROVE Client(q)'
  <2>1. UpMoves(q) /\ DownMoves(q)
    BY <1>1 DEF UpMoves, DownMoves, Typed
  <2>2. Steady(q)
    BY <1>1 DEF Steady, hostVars, areaVars
  <2>3. invitation'[q] = invitation[q] \/ (invitation[q] = "no" /\ invitation'[q] = "pending" /\ cphase[q] = "TOWN")
    BY <1>1 DEF Typed, ClientsTyped
  <2>4. Onward(q)
    BY <1>1, <2>3 DEF Onward, Early, NotStarted, Accepted, hostVars
  <2>5. Willing(q)'
    BY <1>1, <2>3 DEF Client, Willing, Accepted, hostVars, Away
  <2>6. Staged(q)'
    BY <1>1 DEF Client, Staged, Early, NotStarted, hostVars, areaVars
  <2> QED BY <2>1, <2>2, <2>4, <2>5, <2>6, SteadyKeeps
<1> QED BY <1>2, <1>3

LEMMA RespondKeeps ==
  ASSUME Typed, \A q \in Clients : Client(q), NEW p \in Clients, NEW answer \in {"accepted", "declined"},
         Respond(p, answer)
  PROVE  Typed' /\ \A q \in Clients : Client(q)'
<1>1. /\ UNCHANGED <<hostVars, cphase, areaVars, down>> /\ cphase[p] = "TOWN" /\ invitation[p] = "pending"
      /\ invitation' = [invitation EXCEPT ![p] = answer]
      /\ up' = [up EXCEPT ![p] = Append(@, Frame("RESPONSE", answer, 0, 0, 0))]
  BY DEF Respond, ToHost
<1>2. PICK f \in Frames : f = Frame("RESPONSE", answer, 0, 0, 0) /\ f.type = "RESPONSE" /\ f.item = answer
  <2>1. Frame("RESPONSE", answer, 0, 0, 0) \in Frames
    BY DEF Frame, Frames, FrameTypes, FrameItems
  <2> QED BY <2>1 DEF Frame
<1>3. f.item \notin ItemSet /\ UpSays(p, f)' /\ up' = [up EXCEPT ![p] = Append(@, f)]
  <2>1. f.item = "accepted" => Accepted(p)'
    BY <1>1, <1>2 DEF Accepted, Typed, ClientsTyped
  <2> QED BY <1>1, <1>2, <2>1, SaidUp, NoItems
<1>4. Typed'
  <2>1. up' \in [Clients -> Seq(Frames)]
    BY <1>3, StageTyped, AppendFacts DEF Typed
  <2>2. invitation' \in [Clients -> {"no", "pending", "accepted", "declined"}]
    BY <1>1 DEF Typed, ClientsTyped
  <2> QED BY <1>1, <2>1, <2>2 DEF Typed, HostTyped, ClientsTyped, hostVars, combatVars, areaVars
<1>5. ASSUME NEW q \in Clients PROVE Client(q)'
  <2>1. UpMoves(q) /\ DownMoves(q)
    BY <1>1, <1>3 DEF UpMoves, DownMoves, Typed
  <2>2. Steady(q)
    BY <1>1 DEF Steady, hostVars, areaVars
  <2>3. invitation'[q] = invitation[q] \/ (invitation[q] = "pending" /\ cphase[q] = "TOWN")
    BY <1>1 DEF Typed, ClientsTyped
  <2>4. Onward(q)
    BY <1>1, <2>3 DEF Onward, Early, NotStarted, Accepted, hostVars
  <2>5. Willing(q)'
    BY <1>1, <2>3 DEF Client, Willing, Accepted, hostVars, Away
  <2>6. Staged(q)'
    BY <1>1 DEF Client, Staged, Early, NotStarted, hostVars, areaVars
  <2> QED BY <2>1, <2>2, <2>4, <2>5, <2>6, SteadyKeeps
<1> QED BY <1>4, <1>5

\* Before anything was transferred every client is in step.
LEMMA FirstInStep ==
  ASSUME Typed, NEW p \in Clients, Client(p), Early
  PROVE  /\ Ordered(up[p], down[p], "SPAWN", "PREPARE")
         /\ \A f \in Contents(up[p]) \cup Contents(down[p]) : f.item \notin ItemSet
<1>1. \A f \in Contents(up[p]) \cup Contents(down[p]) : f.item \notin ItemSet
  BY DEF Client, Told, UpSays, DownSays
<1> QED BY <1>1, StageTyped, OrderedFirst

\* What was never transferred is in step once the transfer is to begin.
LEMMA AtFirst ==
  ASSUME NEW p \in Clients, part'[p].stage = 1,
         Ordered(up'[p], down'[p], "SPAWN", "PREPARE"),
         \A f \in Contents(up'[p]) \cup Contents(down'[p]) : f.item \in ItemSet => f.item = "SPAWN"
  PROVE  InStep(p)'
<1>1. Ordered(up'[p], down'[p], Last(part'[p].stage), Now(part'[p].stage))
  BY Stages DEF Last, Now
<1>2. Meant(p)'
  BY DEF Meant
<1>3. Prepared(p)'
  BY Stages DEF Prepared
<1>4. Received(p)'
  BY DEF Received
<1> QED BY <1>1, <1>2, <1>3, <1>4 DEF InStep

LEMMA ResponseKeeps ==
  ASSUME Typed, \A q \in Clients : Client(q), NEW p \in Clients, ProcessTravelResponse(p)
  PROVE  Typed' /\ \A q \in Clients : Client(q)'
<1> DEFINE answered == phase = "WAITING" /\ part[p].invited
<1>1. /\ UNCHANGED <<phase, revision, spells, combatVars, clientVars, down>> /\ up[p] # <<>>
      /\ up' = [up EXCEPT ![p] = Tail(@)] /\ Head(up[p]).type = "RESPONSE"
      /\ ~answered => part' = part
      /\ answered => part' = [part EXCEPT ![p].responded = TRUE, ![p].in = Accepts(Head(up[p]))]
  BY DEF ProcessTravelResponse, Hears
<1>2. /\ Head(up[p]) \in Contents(up[p]) /\ Contents(Tail(up[p])) \subseteq Contents(up[p])
      /\ up[p] \in Seq(Frames) /\ down[p] \in Seq(Frames) /\ Tail(up[p]) \in Seq(Frames)
  BY <1>1, StageTyped, TailFacts
<1>3. ASSUME answered
      PROVE  /\ part'[p].stage = part[p].stage /\ part'[p].in = Accepts(Head(up[p]))
             /\ part'[p].expect = part[p].expect /\ part'[p].ready = part[p].ready
             /\ \A q \in Clients \ {p} : part'[q] = part[q]
             /\ part' \in [Clients -> Participant]
  <2>1. part'[p] = [part[p] EXCEPT !.responded = TRUE, !.in = Accepts(Head(up[p]))]
        /\ \A q \in Clients \ {p} : part'[q] = part[q]
    BY <1>1, <1>3 DEF Typed, HostTyped
  <2>2. Accepts(Head(up[p])) \in BOOLEAN
    BY DEF Accepts
  <2>3. part[p] \in Participant
    BY StageTyped
  <2> HIDE DEF answered
  <2>4. part'[p] \in Participant
    BY <2>1, <2>2, <2>3 DEF Participant
  <2>5. part' \in [Clients -> Participant]
    BY <1>1, <1>3, <2>1, <2>4 DEF Typed, HostTyped
  <2> QED BY <2>1, <2>3, <2>5 DEF Participant
<1>4. Typed'
  <2>1. up' \in [Clients -> Seq(Frames)]
    BY <1>1, <1>2 DEF Typed
  <2>2. part' \in [Clients -> Participant]
    BY <1>1, <1>3 DEF Typed, HostTyped
  <2> QED BY <1>1, <2>1, <2>2 DEF Typed, HostTyped, ClientsTyped, combatVars, clientVars, areaVars
<1>5. \A q \in Clients : UpMoves(q) /\ DownMoves(q)
  BY <1>1 DEF UpMoves, DownMoves, Typed
<1>6. ASSUME NEW q \in Clients, q # p PROVE Client(q)'
  <2>1. Same(q)
    BY <1>1, <1>3, <1>6 DEF Same, clientVars, areaVars
  <2> QED BY <1>5, <2>1, SameKeeps
<1>7. Client(p)'
  <2>1. CASE ~answered
    <3>1. Same(p)
      BY <1>1, <2>1 DEF Same, clientVars, areaVars
    <3> QED BY <1>5, <3>1, SameKeeps
  <2>2. CASE answered
    <3>1. Onward(p) /\ Early
      BY <1>1, <2>2 DEF Onward, Early, NotStarted, Accepted, clientVars
    <3>2. Told(p)'
      BY <1>5, <3>1, MovesFacts, ToldKeeps DEF Client
    <3>3. Willing(p)'
      <4>1. Accepts(Head(up[p])) => Accepted(p)
        BY <1>2 DEF Accepts, Client, Told, UpSays
      <4> QED BY <1>1, <1>3, <2>2, <4>1 DEF Client, Willing, Accepted, clientVars
    <3>4. Staged(p)'
      BY <1>1, <1>3, <2>2 DEF Client, Staged, Early, NotStarted, clientVars, areaVars
    <3>5. InStep(p)'
      <4>1. part'[p].stage = 1
        BY <1>3, <2>2, <3>1 DEF Client, Staged
      <4>2. /\ Ordered(up[p], down[p], "SPAWN", "PREPARE")
            /\ \A f \in Contents(up[p]) \cup Contents(down[p]) : f.item \notin ItemSet
        BY <3>1, FirstInStep
      <4>3. \A f \in Contents(up'[p]) \cup Contents(down'[p]) : f.item \notin ItemSet
        BY <1>1, <1>2, <4>2 DEF Typed
      <4>4. up'[p] \in Seq(Frames) /\ down'[p] \in Seq(Frames)
        BY <1>4 DEF Typed
      <4>5. Ordered(up'[p], down'[p], "SPAWN", "PREPARE")
        BY <4>3, <4>4, OrderedFirst
      <4> QED BY <4>1, <4>3, <4>5, AtFirst
    <3> QED BY <3>2, <3>3, <3>4, <3>5 DEF Client
  <2> QED BY <2>1, <2>2
<1> QED BY <1>4, <1>6, <1>7

LEMMA BeginKeeps ==
  ASSUME Typed, \A q \in Clients : Client(q), BeginHostLoading
  PROVE  Typed' /\ \A q \in Clients : Client(q)'
<1>1. /\ UNCHANGED <<spells, combatVars, clientVars, up, down>> /\ phase = "WAITING" /\ phase' = "LOADING"
      /\ revision' = [revision EXCEPT ![1] = 1]
      /\ part' = [p \in Clients |-> [part[p] EXCEPT !.responded = TRUE, !.ready = FALSE, !.room = 1,
                                   !.epoch = 1, !.stage = 1, !.retries = 0, !.expect = "NONE"]]
  BY DEF BeginHostLoading
<1>2. part' \in [Clients -> Participant]
  <2>1. \A q \in Clients : [part[q] EXCEPT !.responded = TRUE, !.ready = FALSE, !.room = 1,
                                   !.epoch = 1, !.stage = 1, !.retries = 0, !.expect = "NONE"] \in Participant
    BY StageTyped, BegunTyped
  <2> QED BY <1>1, <2>1
<1>3. Typed'
  BY <1>1, <1>2, RoomsAssumption DEF Typed, HostTyped, ClientsTyped, combatVars, clientVars, areaVars, Phases
<1>4. ASSUME NEW q \in Clients PROVE Client(q)'
  <2>1. /\ part'[q].stage = 1 /\ part'[q].expect = "NONE" /\ part'[q].ready = FALSE /\ part'[q].in = part[q].in
    BY <1>1, StageTyped DEF Participant
  <2>2. Told(q)'
    BY <1>1 DEF Client, Told, UpSays, DownSays, Early, NotStarted, Accepted, clientVars
  <2>3. Willing(q)'
    BY <1>1, <2>1 DEF Client, Willing, Accepted, clientVars
  <2>4. Staged(q)'
    BY <1>1, <2>1 DEF Client, Staged, Early, NotStarted, clientVars, areaVars
  <2>5. InStep(q)'
    <3>1. /\ Ordered(up[q], down[q], "SPAWN", "PREPARE")
          /\ \A f \in Contents(up[q]) \cup Contents(down[q]) : f.item \notin ItemSet
      BY <1>1, FirstInStep DEF Early
    <3> QED BY <1>1, <2>1, <3>1, AtFirst
  <2> QED BY <2>2, <2>3, <2>4, <2>5 DEF Client
<1> QED BY <1>3, <1>4

-----------------------------------------------------------------------------
(* Steps of the transfer *)

LEMMA SendItemKeeps ==
  ASSUME Typed, \A q \in Clients : Client(q), NEW p \in Clients, SendItem(p)
  PROVE  Typed' /\ \A q \in Clients : Client(q)'
<1> DEFINE name == Items[part[p].stage]
<1>1. /\ UNCHANGED <<phase, revision, spells, combatVars, repeats, clientVars, up>>
      /\ part[p].in /\ part[p].stage < Complete /\ phase \in {"LOADING", "ACTIVE"}
      /\ part' = [part EXCEPT ![p].expect = name]
      /\ down' = [down EXCEPT ![p] = Append(@, Item(p))]
  BY DEF SendItem, ToClient, Transferring
<1>2. part[p] \in Participant /\ part[p].stage \in 1..6 /\ part[p].stage # 6 /\ name \in ItemSet
      /\ name = Now(part[p].stage) /\ name \notin {"NONE", "START"}
  BY <1>1, StageTyped, StageItems, Stages
<1>3. PICK f \in Frames : f = Item(p) /\ f.item = name /\ f.type = name /\ f.epoch = part[p].epoch
                          /\ f.room = part[p].room
  <2>1. part[p].room \in Rooms /\ part[p].epoch \in Nat /\ part[p].room \in Nat
    BY <1>2, RoomsAssumption DEF Participant
  <2>0. Len(spells[part[p].room]) \in Nat
    <3>1. spells[part[p].room] \in Seq(SUBSET Clients)
      BY <2>1 DEF Typed, HostTyped
    <3> QED BY <3>1
  <2>2. name \in FrameTypes /\ name \in FrameItems
    BY <1>2 DEF FrameTypes, FrameItems
  <2> HIDE DEF name
  <2>3. Item(p) = Frame(name, name, part[p].epoch, part[p].room,
                        IF name = "SNAPSHOT" THEN Len(spells[part[p].room]) ELSE 0)
    BY DEF Item, name
  <2>4. Item(p) \in Frames
    BY <2>0, <2>1, <2>2, <2>3 DEF Frame, Frames
  <2> QED BY <2>3, <2>4 DEF Frame
<1>4. part'[p] = [part[p] EXCEPT !.expect = name] /\ \A q \in Clients \ {p} : part'[q] = part[q]
  BY <1>1 DEF Typed, HostTyped
<1> HIDE DEF name
<1>5. /\ part'[p].stage = part[p].stage /\ part'[p].expect = name /\ part'[p].ready = part[p].ready
      /\ part'[p].in = part[p].in /\ part'[p].room = part[p].room /\ part'[p].epoch = part[p].epoch
      /\ part'[p].roomLoading = part[p].roomLoading /\ part'[p] \in Participant
  BY <1>2, <1>4 DEF Participant
<1>6. down[p] \in Seq(Frames) /\ down'[p] = Append(down[p], f) /\ down'[p] \in Seq(Frames)
      /\ Contents(down'[p]) = Contents(down[p]) \cup {f} /\ up[p] \in Seq(Frames)
  BY <1>1, <1>3, StageTyped, AppendFacts DEF Typed
<1>7. Typed'
  <2>1. down' \in [Clients -> Seq(Frames)]
    BY <1>1, <1>6 DEF Typed
  <2>2. part' \in [Clients -> Participant]
    BY <1>1, <1>4, <1>5 DEF Typed, HostTyped
  <2> QED BY <1>1, <2>1, <2>2 DEF Typed, HostTyped, ClientsTyped, combatVars, clientVars, areaVars
<1>8. ASSUME NEW q \in Clients, q # p PROVE Client(q)'
  <2>1. Same(q) /\ UpMoves(q) /\ DownMoves(q)
    BY <1>1, <1>4, <1>8 DEF Same, clientVars, areaVars, UpMoves, DownMoves, Typed
  <2> QED BY <2>1, SameKeeps
<1>9. Client(p)'
  <2>1. Onward(p)
    BY <1>1 DEF Onward, Early, NotStarted, Accepted, clientVars
  <2>2. DownSays(p, f)'
    <3>1. Accepted(p)'
      BY <1>1, <2>1 DEF Client, Willing, Onward
    <3>2. f.room \in Rooms
      BY <1>2, <1>3 DEF Participant
    <3> QED BY <1>1, <1>2, <1>3, <3>1, <3>2 DEF DownSays, Early
  <2>3. Told(p)'
    BY <1>1, <1>6, <2>1, <2>2, ToldKeeps DEF SaidBefore, Client
  <2>4. Willing(p)'
    BY <1>1, <1>5 DEF Client, Willing, Accepted, clientVars
  <2>5. Staged(p)'
    BY <1>1, <1>2, <1>5 DEF Client, Staged, Early, NotStarted, clientVars, areaVars, name, Now
  <2>6. ASSUME Live(p)' PROVE InStep(p)'
    <3>1. InStep(p)
      BY <1>1, <1>5, <2>6 DEF Live, Client, clientVars
    <3>2. Ordered(up'[p], down'[p], Last(part'[p].stage), Now(part'[p].stage))
      <4>1. Ordered(up[p], down[p], Last(part[p].stage), Now(part[p].stage))
        BY <3>1 DEF InStep
      <4>2. Ordered(up[p], Append(down[p], f), Last(part[p].stage), Now(part[p].stage))
        BY <1>2, <1>3, <1>6, <4>1, OrderedSend
      <4> QED BY <1>1, <1>5, <1>6, <4>2
    <3>3. Meant(p)'
      BY <1>3, <1>5, <1>6, <3>1 DEF InStep, Meant
    <3>4. Prepared(p)'
      BY <1>1, <1>5, <3>1 DEF InStep, Prepared, Synced, clientVars, areaVars
    <3>5. Received(p)'
      BY <1>1, <1>5, <3>1 DEF InStep, Received, clientVars, areaVars
    <3> QED BY <3>2, <3>3, <3>4, <3>5 DEF InStep
  <2> QED BY <2>3, <2>4, <2>5, <2>6 DEF Client
<1> QED BY <1>7, <1>8, <1>9

LEMMA FailKeeps ==
  ASSUME Typed, \A q \in Clients : Client(q), NEW p \in Clients, Fail(p),
         UNCHANGED <<phase, revision, spells, combatVars, clientVars, up>>
  PROVE  Typed' /\ \A q \in Clients : Client(q)'
<1>1. /\ part' = [part EXCEPT ![p].in = FALSE, ![p].expect = "NONE"]
      /\ down' = [down EXCEPT ![p] = Append(@, End)]
  BY DEF Fail, ToClient
<1>2. PICK f \in Frames : f = End /\ f.item \notin ItemSet /\ \A q \in Clients : DownSays(q, f)'
  BY EndMade
<1>3. part'[p] = [part[p] EXCEPT !.in = FALSE, !.expect = "NONE"] /\ \A q \in Clients \ {p} : part'[q] = part[q]
  BY <1>1 DEF Typed, HostTyped
<1>4. /\ part'[p].stage = part[p].stage /\ part'[p].expect = "NONE" /\ part'[p].ready = part[p].ready
      /\ part'[p].in = FALSE /\ part'[p] \in Participant
  BY <1>3, StageTyped DEF Participant
<1>5. Typed'
  <2>1. down' \in [Clients -> Seq(Frames)]
    BY <1>1, <1>2, StageTyped, AppendFacts DEF Typed
  <2>2. part' \in [Clients -> Participant]
    BY <1>1, <1>3, <1>4 DEF Typed, HostTyped
  <2> QED BY <2>1, <2>2 DEF Typed, HostTyped, ClientsTyped, combatVars, clientVars, areaVars
<1>6. \A q \in Clients : UpMoves(q) /\ DownMoves(q)
  BY <1>1, <1>2 DEF UpMoves, DownMoves, Typed
<1>7. ASSUME NEW q \in Clients, q # p PROVE Client(q)'
  <2>1. Same(q)
    BY <1>3, <1>7 DEF Same, clientVars, areaVars
  <2> QED BY <1>6, <2>1, SameKeeps
<1>8. Client(p)'
  <2>1. Onward(p) /\ ~Live(p)'
    BY <1>4 DEF Onward, Early, NotStarted, Accepted, clientVars, Live
  <2>2. Willing(p)'
    BY <1>4 DEF Client, Willing, Accepted, clientVars
  <2>3. Staged(p)'
    BY <1>4 DEF Client, Staged, Early, NotStarted, clientVars, areaVars
  <2> QED BY <1>6, <2>1, <2>2, <2>3, GoneKeeps
<1> QED BY <1>5, <1>7, <1>8

LEMMA TimeoutKeeps ==
  ASSUME Typed, \A q \in Clients : Client(q), NEW p \in Clients, HostLoadTimeout(p)
  PROVE  Typed' /\ \A q \in Clients : Client(q)'
  BY FailKeeps DEF HostLoadTimeout

LEMMA RetryKeeps ==
  ASSUME Typed, \A q \in Clients : Client(q), NEW p \in Clients, Retry(p)
  PROVE  Typed' /\ \A q \in Clients : Client(q)'
<1>1. UNCHANGED <<phase, revision, spells, combatVars, repeats, clientVars, up>> /\ part[p] \in Participant
  BY StageTyped DEF Retry
<1>2. CASE Fail(p)
  BY <1>1, <1>2, FailKeeps
<1>3. ASSUME NEW e, e \in {part[p].expect, "NONE"},
             part' = [part EXCEPT ![p].retries = @ + 1, ![p].expect = e],
             down' \in [Clients -> Seq(Frames)], \A q \in Clients : DownMoves(q) /\ (q # p => down'[q] = down[q])
      PROVE  Typed' /\ \A q \in Clients : Client(q)'
  <2>1. part'[p] = [part[p] EXCEPT !.retries = @ + 1, !.expect = e] /\ \A q \in Clients \ {p} : part'[q] = part[q]
    BY <1>3 DEF Typed, HostTyped
  <2>2. /\ part'[p].stage = part[p].stage /\ part'[p].expect = e /\ part'[p].ready = part[p].ready
        /\ part'[p].in = part[p].in /\ part'[p] \in Participant /\ part'[p].room = part[p].room
        /\ part'[p].epoch = part[p].epoch /\ part'[p].roomLoading = part[p].roomLoading
    <3> DEFINE r == [part[p] EXCEPT !.retries = part[p].retries + 1]
    <3>1. part'[p] = [r EXCEPT !.expect = e] /\ e \in ItemSet \cup {"NONE", "START"}
      BY <1>1, <1>3, <2>1 DEF Participant
    <3>2. part[p].retries + 1 \in Nat
      BY <1>1 DEF Participant
    <3>3. r \in Participant
      BY <1>1, <3>2, Updated
    <3>4. /\ r.stage = part[p].stage /\ r.ready = part[p].ready /\ r.in = part[p].in /\ r.room = part[p].room
          /\ r.epoch = part[p].epoch /\ r.roomLoading = part[p].roomLoading
      BY <1>1 DEF Participant
    <3> HIDE DEF r
    <3>5. part'[p] \in Participant
      BY <3>1, <3>3, Updated
    <3> QED BY <3>1, <3>3, <3>4, <3>5 DEF Participant
  <2>3. Typed'
    <3>1. part' \in [Clients -> Participant]
      BY <1>3, <2>1, <2>2 DEF Typed, HostTyped
    <3> QED BY <1>1, <1>3, <3>1 DEF Typed, HostTyped, ClientsTyped, combatVars, clientVars, areaVars
  <2>4. \A q \in Clients : UpMoves(q)
    BY <1>1 DEF UpMoves
  <2>5. ASSUME NEW q \in Clients, q # p PROVE Client(q)'
    <3>1. Same(q)
      BY <1>1, <2>1, <2>5 DEF Same, clientVars, areaVars
    <3> QED BY <1>3, <2>4, <3>1, SameKeeps
  <2>6. Client(p)'
    <3>1. Onward(p) /\ Steady(p)
      BY <1>1, <2>2 DEF Onward, Early, NotStarted, Accepted, clientVars, areaVars, Steady
    <3>2. Willing(p)'
      BY <1>1, <2>2 DEF Client, Willing, Accepted, clientVars
    <3>3. Staged(p)'
      BY <1>1, <1>3, <2>2 DEF Client, Staged, Early, NotStarted, clientVars, areaVars
    <3> QED BY <1>3, <2>4, <3>1, <3>2, <3>3, SteadyKeeps
  <2> QED BY <2>3, <2>5, <2>6
<1>4. CASE /\ part[p].expect = "START" /\ part' = [part EXCEPT ![p].retries = @ + 1]
           /\ ToClient(p, Start(part[p].epoch))
  <2>1. part' = [part EXCEPT ![p].retries = @ + 1, ![p].expect = part[p].expect]
    <3>1. [part[p] EXCEPT !.retries = @ + 1] = [part[p] EXCEPT !.retries = @ + 1, !.expect = part[p].expect]
      BY <1>1 DEF Participant
    <3>2. part' = [part EXCEPT ![p] = [part[p] EXCEPT !.retries = @ + 1]]
      BY <1>4 DEF Typed, HostTyped
    <3> QED BY <3>1, <3>2 DEF Typed, HostTyped
  <2>2. ~NotStarted'
    BY <1>1, <1>4 DEF Client, Staged, NotStarted
  <2>3. part[p].epoch \in Nat
    BY <1>1 DEF Participant
  <2>4. PICK f \in Frames : f = Start(part[p].epoch) /\ f.item \notin ItemSet /\ \A q \in Clients : DownSays(q, f)'
    BY <2>2, <2>3, StartMade
  <2>5. down' = [down EXCEPT ![p] = Append(@, f)]
    BY <1>4, <2>4 DEF ToClient
  <2>6. down' \in [Clients -> Seq(Frames)] /\ \A q \in Clients : DownMoves(q) /\ (q # p => down'[q] = down[q])
    BY <2>4, <2>5, StageTyped, AppendFacts DEF Typed, DownMoves
  <2> QED BY <1>3, <2>1, <2>6
<1>5. CASE part' = [part EXCEPT ![p].retries = @ + 1, ![p].expect = "NONE"] /\ UNCHANGED down
  <2>1. down' \in [Clients -> Seq(Frames)] /\ \A q \in Clients : DownMoves(q) /\ (q # p => down'[q] = down[q])
    BY <1>5 DEF Typed, DownMoves
  <2> QED BY <1>3, <1>5, <2>1
<1> QED BY <1>2, <1>4, <1>5 DEF Retry

LEMMA ReadyKeeps ==
  ASSUME Typed, \A q \in Clients : Client(q), NEW p \in Clients, ProcessActivityReady(p)
  PROVE  Typed' /\ \A q \in Clients : Client(q)'
<1> DEFINE ready == Head(up[p])
           counts == ReadyCounts(p, ready)
           answered == counts /\ ready.item = "ROOM_READY"
<1>1. /\ UNCHANGED <<phase, revision, spells, combatVars, repeats, clientVars>> /\ up[p] # <<>>
      /\ up' = [up EXCEPT ![p] = Tail(@)] /\ ready.type = "READY"
      /\ answered => /\ part' = [part EXCEPT ![p].ready = TRUE, ![p].startAcked = FALSE,
                                         ![p].retries = 0, ![p].expect = "START"]
                     /\ down' = [down EXCEPT ![p] = Append(@, Start(part[p].epoch))]
      /\ ~answered => down' = down /\ (part' = part \/ (counts /\ part' = [part EXCEPT ![p].ready = TRUE]))
  BY DEF ProcessActivityReady, Hears, ToClient
<1>2. part[p] \in Participant /\ up[p] \in Seq(Frames) /\ down[p] \in Seq(Frames) /\ ready \in Contents(up[p])
      /\ Tail(up[p]) \in Seq(Frames)
  BY <1>1, StageTyped, TailFacts
<1>3. counts => part[p].in /\ part[p].stage = Complete
  BY DEF ReadyCounts
<1>4. answered => ~NotStarted
  BY <1>2 DEF Client, Told, UpSays
<1> HIDE DEF counts, ready
<1>5. ASSUME answered
      PROVE  down' \in [Clients -> Seq(Frames)] /\ \A q \in Clients : DownMoves(q)
  <2>1. part[p].epoch \in Nat /\ ~NotStarted'
    BY <1>1, <1>2, <1>4, <1>5 DEF Participant, NotStarted
  <2>2. PICK f \in Frames : f = Start(part[p].epoch) /\ f.item \notin ItemSet /\ \A q \in Clients : DownSays(q, f)'
    BY <2>1, StartMade
  <2>3. down' = [down EXCEPT ![p] = Append(@, f)]
    BY <1>1, <1>5, <2>2
  <2> QED BY <1>2, <2>2, <2>3, AppendFacts DEF Typed, DownMoves
<1>6. down' \in [Clients -> Seq(Frames)] /\ \A q \in Clients : UpMoves(q) /\ DownMoves(q)
  BY <1>1, <1>5 DEF Typed, UpMoves, DownMoves
<1>7. ASSUME answered
      PROVE  /\ part'[p] = [part[p] EXCEPT !.ready = TRUE, !.startAcked = FALSE, !.retries = 0, !.expect = "START"]
             /\ \A q \in Clients \ {p} : part'[q] = part[q]
             /\ part'[p] \in Participant
  <2>1. /\ part'[p] = [part[p] EXCEPT !.ready = TRUE, !.startAcked = FALSE, !.retries = 0, !.expect = "START"]
        /\ \A q \in Clients \ {p} : part'[q] = part[q]
    BY <1>1, <1>7 DEF Typed, HostTyped
  <2> QED BY <1>2, <2>1, ReadyTyped
<1>8. ASSUME counts, part' = [part EXCEPT ![p].ready = TRUE]
      PROVE  /\ part'[p] = [part[p] EXCEPT !.ready = TRUE]
             /\ \A q \in Clients \ {p} : part'[q] = part[q]
             /\ part'[p] \in Participant
  BY <1>2, <1>8, Updated DEF Typed, HostTyped
<1>9. /\ \A q \in Clients \ {p} : part'[q] = part[q]
      /\ part'[p] \in Participant /\ part' \in [Clients -> Participant]
  BY <1>1, <1>2, <1>7, <1>8 DEF Typed, HostTyped
<1>10. /\ part'[p].stage = part[p].stage /\ part'[p].room = part[p].room /\ part'[p].epoch = part[p].epoch
       /\ part'[p].in = part[p].in /\ part'[p].roomLoading = part[p].roomLoading
       /\ part'[p].expect = part[p].expect \/ (part'[p].expect = "START" /\ answered)
       /\ part'[p].ready = part[p].ready \/ counts
  <2>1. CASE answered
    BY <1>2, <1>7, <2>1 DEF Participant
  <2>2. CASE part' = part
    BY <2>2
  <2>3. CASE counts /\ part' = [part EXCEPT ![p].ready = TRUE]
    BY <1>2, <1>8, <2>3 DEF Participant
  <2> QED BY <1>1, <2>1, <2>2, <2>3
<1>11. Typed'
  <2>1. up' \in [Clients -> Seq(Frames)]
    BY <1>1, <1>2 DEF Typed
  <2> QED BY <1>1, <1>6, <1>9, <2>1 DEF Typed, HostTyped, ClientsTyped, combatVars, clientVars, areaVars
<1>12. ASSUME NEW q \in Clients, q # p PROVE Client(q)'
  <2>1. Same(q)
    BY <1>1, <1>9, <1>12 DEF Same, clientVars, areaVars
  <2> QED BY <1>6, <2>1, SameKeeps
<1>13. Client(p)'
  <2>1. Onward(p) /\ Steady(p)
    BY <1>1, <1>10 DEF Onward, Early, NotStarted, Accepted, clientVars, areaVars, Steady
  <2>2. Willing(p)'
    BY <1>1, <1>10 DEF Client, Willing, Accepted, clientVars
  <2>3. Staged(p)'
    BY <1>1, <1>3, <1>4, <1>10 DEF Client, Staged, Early, NotStarted, clientVars, areaVars
  <2> QED BY <1>6, <2>1, <2>2, <2>3, SteadyKeeps
<1> QED BY <1>11, <1>12, <1>13

\* What an acknowledgement changes
LEMMA AckCases ==
  ASSUME NEW p \in Clients, NEW ack
  PROVE  \/ Acknowledged(p, ack) = part[p]
         \/ /\ phase = "ACTIVE" /\ part[p].in /\ part[p].expect = "START"
            /\ Acknowledged(p, ack) = [part[p] EXCEPT !.startAcked = TRUE, !.expect = "NONE", !.retries = 0,
                                                      !.roomLoading = FALSE]
         \/ Acknowledged(p, ack) = [part[p] EXCEPT !.startAcked = TRUE]
         \/ /\ phase \in {"LOADING", "ACTIVE"} /\ part[p].in
            /\ ack.item # "START" /\ ack.item = part[p].expect
            /\ Acknowledged(p, ack) = [part[p] EXCEPT !.stage = @ + 1, !.expect = "NONE", !.retries = 0]
<1> DEFINE starts == part[p].in /\ phase = "ACTIVE" /\ ack.item = "START" /\ ack.epoch = part[p].epoch
           advances == part[p].in /\ ack.item # "START" /\ AckMatches(p, ack)
                       /\ (phase = "LOADING" \/ (phase = "ACTIVE" /\ part[p].roomLoading))
<1>1. CASE ~part[p].in
  BY <1>1 DEF Acknowledged
<1>2. CASE starts
  BY <1>2 DEF Acknowledged, AckMatches
<1>3. CASE advances
  BY <1>3 DEF Acknowledged, AckMatches
<1>4. CASE part[p].in /\ ~starts /\ ~advances
  BY <1>4 DEF Acknowledged
<1> QED BY <1>1, <1>2, <1>3, <1>4

LEMMA AckKeeps ==
  ASSUME Typed, \A q \in Clients : Client(q), NEW p \in Clients, ProcessActivityAck(p)
  PROVE  Typed' /\ \A q \in Clients : Client(q)'
<1> DEFINE ack == Head(up[p])
           rec == part[p]
           now == Now(rec.stage)
<1>1. /\ UNCHANGED <<phase, revision, spells, combatVars, repeats, clientVars, down>> /\ up[p] # <<>>
      /\ up' = [up EXCEPT ![p] = Tail(@)] /\ ack.type = "ACK"
      /\ part' = [part EXCEPT ![p] = Acknowledged(p, ack)]
  BY DEF ProcessActivityAck, Hears
<1>2. /\ rec \in Participant /\ up[p] \in Seq(Frames) /\ down[p] \in Seq(Frames) /\ ack \in Contents(up[p])
      /\ Tail(up[p]) \in Seq(Frames) /\ rec.stage \in 1..6 /\ Contents(Tail(up[p])) \subseteq Contents(up[p])
  BY <1>1, StageTyped, TailFacts
<1>3. ack.item \in ItemSet \cup {"START"}
  BY <1>1, <1>2 DEF Client, Told, UpSays
<1>4. /\ part'[p] = Acknowledged(p, ack)
      /\ \A q \in Clients \ {p} : part'[q] = part[q]
  BY <1>1 DEF Typed, HostTyped
<1>5. \A q \in Clients : UpMoves(q) /\ DownMoves(q)
  BY <1>1 DEF UpMoves, DownMoves, Typed
<1>6. ASSUME NEW q \in Clients, q # p PROVE Client(q)'
  <2>1. Same(q)
    BY <1>1, <1>4, <1>6 DEF Same, clientVars, areaVars
  <2> QED BY <1>5, <2>1, SameKeeps
<1>7. up' \in [Clients -> Seq(Frames)]
  BY <1>1, <1>2 DEF Typed
<1>8. Onward(p) /\ Told(p)'
  <2>1. Onward(p)
    BY <1>1 DEF Onward, Early, NotStarted, Accepted, clientVars
  <2> QED BY <1>5, <2>1, MovesFacts, ToldKeeps DEF Client
<1>9. ASSUME part'[p] \in Participant, Client(p)'
      PROVE  Typed' /\ \A q \in Clients : Client(q)'
  <2>1. part' \in [Clients -> Participant]
    BY <1>1, <1>4, <1>9 DEF Typed, HostTyped
  <2>2. Typed'
    BY <1>1, <1>7, <2>1 DEF Typed, HostTyped, ClientsTyped, combatVars, clientVars, areaVars
  <2> QED BY <1>6, <1>9, <2>2
<1>10. ASSUME part'[p] \in Participant, part'[p].stage = rec.stage, part'[p].room = rec.room,
              part'[p].epoch = rec.epoch, part'[p].in = rec.in, part'[p].ready = rec.ready,
              \/ part'[p].expect = rec.expect /\ part'[p].roomLoading = rec.roomLoading
              \/ part'[p].expect = "NONE" /\ rec.expect = "START"
       PROVE  Client(p)'
  <2>1. Steady(p)
    BY <1>1, <1>10 DEF clientVars, areaVars, Steady
  <2>2. Willing(p)'
    BY <1>1, <1>10 DEF Client, Willing, Accepted, clientVars
  <2>3. rec.expect = "START" => rec.stage = Complete
    BY <1>2, StageItems, Stages DEF Client, Staged
  <2>4. Staged(p)'
    BY <1>1, <1>10, <2>3 DEF Client, Staged, Early, NotStarted, clientVars, areaVars
  <2> QED BY <1>5, <1>8, <2>1, <2>2, <2>4, SteadyKeeps
<1>11. CASE Acknowledged(p, ack) = part[p]
  BY <1>2, <1>4, <1>9, <1>10, <1>11
<1>12. CASE /\ part[p].expect = "START"
            /\ Acknowledged(p, ack) = [part[p] EXCEPT !.startAcked = TRUE, !.expect = "NONE", !.retries = 0,
                                                      !.roomLoading = FALSE]
  <2>1. part'[p] \in Participant
    BY <1>2, <1>4, <1>12, StartAckedTyped
  <2>2. /\ part'[p].stage = rec.stage /\ part'[p].room = rec.room /\ part'[p].epoch = rec.epoch
        /\ part'[p].in = rec.in /\ part'[p].ready = rec.ready /\ part'[p].expect = "NONE"
    BY <1>2, <1>4, <1>12 DEF Participant
  <2> QED BY <1>9, <1>10, <1>12, <2>1, <2>2
<1>13. CASE Acknowledged(p, ack) = [part[p] EXCEPT !.startAcked = TRUE]
  <2>1. part'[p] \in Participant
    BY <1>2, <1>4, <1>13, Updated
  <2>2. /\ part'[p].stage = rec.stage /\ part'[p].room = rec.room /\ part'[p].epoch = rec.epoch
        /\ part'[p].in = rec.in /\ part'[p].ready = rec.ready /\ part'[p].expect = rec.expect
        /\ part'[p].roomLoading = rec.roomLoading
    BY <1>2, <1>4, <1>13 DEF Participant
  <2> QED BY <1>9, <1>10, <2>1, <2>2
<1>14. CASE /\ phase \in {"LOADING", "ACTIVE"} /\ part[p].in
            /\ ack.item # "START" /\ ack.item = part[p].expect
            /\ Acknowledged(p, ack) = [part[p] EXCEPT !.stage = @ + 1, !.expect = "NONE", !.retries = 0]
  <2>1. /\ rec.stage # 6 /\ ack.item = now /\ now = Items[rec.stage] /\ now \in ItemSet
        /\ Last(rec.stage + 1) = now /\ Now(rec.stage + 1) # now
        /\ Now(rec.stage + 1) \in ItemSet \cup {"NONE"}
    <3>1. rec.expect \in ItemSet
      BY <1>3, <1>14
    <3>2. rec.stage # 6
      BY <1>2, <3>1, StageItems, Stages DEF Client, Staged
    <3>3. rec.expect = Items[rec.stage]
      BY <1>2, <3>1, <3>2, StageItems, Stages DEF Client, Staged
    <3>4. rec.stage + 1 \in 1..6
      BY <1>2, <3>2
    <3>5. Now(rec.stage + 1) \in ItemSet \cup {"NONE"}
      <4>1. rec.stage + 1 = 6 \/ Now(rec.stage + 1) = Items[rec.stage + 1]
        BY Stages DEF Now
      <4> QED BY <3>4, <4>1, StageItems
    <3> QED BY <1>2, <1>14, <3>2, <3>3, <3>5, StageItems
  <2>2. part'[p] \in Participant
    <3>1. rec.stage + 1 \in 1..Complete
      BY <1>2, <2>1, Stages
    <3> QED BY <1>2, <1>4, <1>14, <3>1, AdvancedTyped
  <2>3. /\ part'[p].stage = rec.stage + 1 /\ part'[p].room = rec.room /\ part'[p].epoch = rec.epoch
        /\ part'[p].in = rec.in /\ part'[p].ready = rec.ready /\ part'[p].expect = "NONE"
        /\ part'[p].roomLoading = rec.roomLoading
    <3>1. PICK k \in 1..Complete : k = rec.stage + 1
      BY <1>2, <2>1, Stages
    <3>2. part'[p] = [rec EXCEPT !.stage = k, !.expect = "NONE", !.retries = 0]
      BY <1>4, <1>14, <3>1
    <3>3. rec \in Participant
      BY <1>2
    <3> HIDE DEF rec
    <3> QED BY <3>1, <3>2, <3>3 DEF Participant
  <2>4. ~rec.ready /\ ~(phase = "ACTIVE" /\ ~rec.roomLoading)
    BY <1>14, <2>1, Stages DEF Client, Staged
  <2>5. Willing(p)'
    BY <1>1, <2>3 DEF Client, Willing, Accepted, clientVars
  <2>6. Staged(p)'
    BY <1>1, <1>14, <2>3, <2>4 DEF Client, Staged, Early, NotStarted, clientVars, areaVars
  <2> HIDE DEF ack, rec, now
  <2>7. ASSUME Live(p)' PROVE InStep(p)'
    <3>1. InStep(p)
      BY <1>1, <1>14, <2>7 DEF Live, Client, clientVars
    <3>2. Ordered(up[p], down[p], Last(rec.stage), now)
      BY <3>1 DEF InStep, rec, now
    <3>3. /\ Ordered(Tail(up[p]), down[p], now, Now(rec.stage + 1))
          /\ \A f \in Contents(up[p]) \cup Contents(down[p]) : f.item \in ItemSet => f.item = now
      BY <1>1, <1>2, <2>1, <3>2, OrderedAdvance DEF ack
    <3>4. up'[p] = Tail(up[p]) /\ down'[p] = down[p]
      BY <1>1 DEF Typed
    <3>5. Ordered(up'[p], down'[p], Last(part'[p].stage), Now(part'[p].stage))
      BY <2>1, <2>3, <3>3, <3>4
    <3>6. rec.stage = 1 => now = "PREPARE"
      BY <2>1, Stages DEF now
    <3>7. Meant(p)'
      BY <2>3, <3>1, <3>3, <3>4, <3>6, Stages DEF InStep, Meant, rec
    <3>8. Synced(p)
      <4>1. CASE rec.stage = 1
        BY <1>2, <2>1, <3>1, <3>6, <4>1 DEF InStep, Prepared, ack
      <4>2. CASE rec.stage # 1
        BY <3>1, <4>2 DEF InStep, Prepared, rec
      <4> QED BY <4>1, <4>2
    <3>9. Prepared(p)'
      BY <1>1, <2>3, <3>8 DEF Prepared, Synced, rec, clientVars, areaVars
    <3>10. Received(p)'
      <4>1. rec.stage # 1 => now \in got[p]
        <5>1. now \in LoadItems \/ now = "PREPARE"
          BY <2>1, Stages
        <5>2. now = "PREPARE" => rec.stage = 1
          BY <1>2, <2>1, StageItems DEF now
        <5> QED BY <1>2, <2>1, <3>1, <5>1, <5>2 DEF InStep, Received, ack, rec
      <4>2. ASSUME NEW i \in 2..(Complete - 1), i < rec.stage + 1 PROVE Items[i] \in got[p]
        <5>1. i < rec.stage \/ (i = rec.stage /\ rec.stage # 1)
          BY <1>2, <4>2, Stages
        <5> QED BY <2>1, <3>1, <4>1, <5>1 DEF InStep, Received, rec
      <4>3. \A f \in Contents(up'[p]) : f.item \in LoadItems => f.item \in got[p]
        <5>1. CASE rec.stage = 1
          BY <1>2, <3>3, <3>4, <3>6, <5>1, Stages
        <5>2. CASE rec.stage # 1
          BY <1>2, <3>1, <3>4, <5>2 DEF InStep, Received, rec
        <5> QED BY <5>1, <5>2
      <4> QED BY <1>1, <2>3, <4>2, <4>3 DEF Received, clientVars, areaVars
    <3> QED BY <3>5, <3>7, <3>9, <3>10 DEF InStep
  <2>8. Client(p)'
    BY <1>8, <2>5, <2>6, <2>7 DEF Client
  <2> QED BY <1>9, <2>2, <2>8
<1> QED BY <1>11, <1>12, <1>13, <1>14, AckCases

-----------------------------------------------------------------------------
(* Steps of the clients *)

\* A client that forgets the activity is home.
LEMMA ForgottenKeeps ==
  ASSUME Typed, \A q \in Clients : Client(q), NEW p \in Clients, Forgotten(p), UNCHANGED hostVars,
         up' \in [Clients -> Seq(Frames)], down' \in [Clients -> Seq(Frames)],
         \A q \in Clients : UpMoves(q) /\ DownMoves(q)
  PROVE  Typed' /\ \A q \in Clients : Client(q)'
<1>1. Typed'
  <2>1. ClientsTyped'
    BY DEF Typed, ClientsTyped, Forgotten
  <2> QED BY <2>1 DEF Typed, HostTyped, hostVars, combatVars
<1>2. ASSUME NEW q \in Clients, q # p PROVE Client(q)'
  <2>1. Same(q)
    BY <1>2 DEF Same, hostVars, Forgotten, Typed, ClientsTyped
  <2> QED BY <2>1, SameKeeps
<1>3. Client(p)'
  <2>1. cphase'[p] = "HOME" /\ invitation'[p] = "no" /\ loading'[p] = FALSE
    BY DEF Forgotten, Typed, ClientsTyped
  <2>2. Onward(p) /\ ~Live(p)'
    BY <2>1 DEF Onward, Early, NotStarted, Accepted, Live, hostVars
  <2>3. Willing(p)'
    BY <2>1 DEF Willing, Accepted, Away
  <2>4. Staged(p)'
    BY <2>1 DEF Client, Staged, Early, NotStarted, hostVars
  <2> QED BY <2>2, <2>3, <2>4, GoneKeeps
<1> QED BY <1>1, <1>2, <1>3

LEMMA ClientTimeoutKeeps ==
  ASSUME Typed, \A q \in Clients : Client(q), NEW p \in Clients, ClientTimeout(p)
  PROVE  Typed' /\ \A q \in Clients : Client(q)'
<1>1. Forgotten(p) /\ UNCHANGED <<hostVars, up, down>>
  BY DEF ClientTimeout
<1>2. up' \in [Clients -> Seq(Frames)] /\ down' \in [Clients -> Seq(Frames)]
  BY <1>1 DEF Typed
<1>3. \A q \in Clients : UpMoves(q) /\ DownMoves(q)
  BY <1>1 DEF UpMoves, DownMoves
<1> QED BY <1>1, <1>2, <1>3, ForgottenKeeps

LEMMA ClientLeavesKeeps ==
  ASSUME Typed, \A q \in Clients : Client(q), NEW p \in Clients, ClientLeaves(p)
  PROVE  Typed' /\ \A q \in Clients : Client(q)'
<1>1. Forgotten(p) /\ UNCHANGED <<hostVars, down>>
      /\ up' = [up EXCEPT ![p] = Append(@, Frame("LEAVE", "LEAVE", 0, 0, 0))]
  BY DEF ClientLeaves, ToHost
<1>2. PICK f \in Frames : f = Frame("LEAVE", "LEAVE", 0, 0, 0) /\ f.type = "LEAVE" /\ f.item = "LEAVE"
  <2>1. Frame("LEAVE", "LEAVE", 0, 0, 0) \in Frames
    BY DEF Frame, Frames, FrameTypes, FrameItems
  <2> QED BY <2>1 DEF Frame
<1>3. f.item \notin ItemSet /\ UpSays(p, f)' /\ up' = [up EXCEPT ![p] = Append(@, f)]
  BY <1>1, <1>2, SaidUp, NoItems
<1>4. up' \in [Clients -> Seq(Frames)] /\ down' \in [Clients -> Seq(Frames)]
  BY <1>1, <1>3, StageTyped, AppendFacts DEF Typed
<1>5. \A q \in Clients : UpMoves(q) /\ DownMoves(q)
  BY <1>1, <1>3 DEF UpMoves, DownMoves, Typed
<1> QED BY <1>1, <1>4, <1>5, ForgottenKeeps

LEMMA EndKeeps ==
  ASSUME Typed, \A q \in Clients : Client(q), NEW p \in Clients, ProcessActivityEnd(p)
  PROVE  Typed' /\ \A q \in Clients : Client(q)'
<1>1. /\ UNCHANGED <<hostVars, up>> /\ down[p] # <<>> /\ down' = [down EXCEPT ![p] = Tail(@)]
      /\ UNCHANGED clientVars \/ Forgotten(p)
  BY DEF ProcessActivityEnd, Takes, Hears
<1>2. up' \in [Clients -> Seq(Frames)] /\ down' \in [Clients -> Seq(Frames)]
  BY <1>1, StageTyped, TailFacts DEF Typed
<1>3. \A q \in Clients : UpMoves(q) /\ DownMoves(q)
  BY <1>1 DEF UpMoves, DownMoves, Typed
<1>4. CASE Forgotten(p)
  BY <1>1, <1>2, <1>3, <1>4, ForgottenKeeps
<1>5. CASE UNCHANGED clientVars
  <2>1. Typed'
    BY <1>1, <1>2, <1>5 DEF Typed, HostTyped, ClientsTyped, hostVars, combatVars, clientVars, areaVars
  <2>2. \A q \in Clients : Same(q)
    BY <1>1, <1>5 DEF Same, hostVars, clientVars, areaVars
  <2> QED BY <1>3, <2>1, <2>2, SameKeeps
<1> QED BY <1>1, <1>4, <1>5

LEMMA LeaveKeeps ==
  ASSUME Typed, \A q \in Clients : Client(q), NEW p \in Clients, ProcessActivityLeave(p)
  PROVE  Typed' /\ \A q \in Clients : Client(q)'
<1>1. /\ UNCHANGED <<phase, revision, spells, combatVars, repeats, clientVars, down>> /\ up[p] # <<>>
      /\ up' = [up EXCEPT ![p] = Tail(@)] /\ part' = [part EXCEPT ![p].in = FALSE]
  BY DEF ProcessActivityLeave, Hears
<1>2. part'[p] = [part[p] EXCEPT !.in = FALSE] /\ \A q \in Clients \ {p} : part'[q] = part[q]
  BY <1>1 DEF Typed, HostTyped
<1>3. part[p] \in Participant /\ part'[p] \in Participant
  <2>1. part[p] \in Participant
    BY StageTyped
  <2>2. [part[p] EXCEPT !.in = FALSE] \in Participant
    BY <2>1, Updated
  <2> QED BY <1>2, <2>1, <2>2
<1>4. /\ part'[p].stage = part[p].stage /\ part'[p].expect = part[p].expect /\ part'[p].ready = part[p].ready
      /\ part'[p].in = FALSE
  BY <1>2, <1>3 DEF Participant
<1>5. Typed'
  <2>1. up' \in [Clients -> Seq(Frames)]
    BY <1>1, StageTyped, TailFacts DEF Typed
  <2>2. part' \in [Clients -> Participant]
    BY <1>1, <1>2, <1>3 DEF Typed, HostTyped
  <2> QED BY <1>1, <2>1, <2>2 DEF Typed, HostTyped, ClientsTyped, combatVars, clientVars, areaVars
<1>6. \A q \in Clients : UpMoves(q) /\ DownMoves(q)
  BY <1>1 DEF UpMoves, DownMoves, Typed
<1>7. ASSUME NEW q \in Clients, q # p PROVE Client(q)'
  <2>1. Same(q)
    BY <1>1, <1>2, <1>7 DEF Same, clientVars, areaVars
  <2> QED BY <1>6, <2>1, SameKeeps
<1>8. Client(p)'
  <2>1. Onward(p) /\ ~Live(p)'
    BY <1>1, <1>4 DEF Onward, Early, NotStarted, Accepted, clientVars, Live
  <2>2. Willing(p)'
    BY <1>1, <1>4 DEF Client, Willing, Accepted, clientVars
  <2>3. Staged(p)'
    BY <1>1, <1>4 DEF Client, Staged, Early, NotStarted, clientVars, areaVars
  <2> QED BY <1>6, <2>1, <2>2, <2>3, GoneKeeps
<1> QED BY <1>5, <1>7, <1>8

\* A client acknowledges a frame of some item with the epoch and the room it is in.
LEMMA AckMade ==
  ASSUME NEW item \in ItemSet \cup {"START"}, NEW epoch \in Nat, NEW room \in Nat
  PROVE  \E f \in Frames : f = Ack(item, epoch, room) /\ f.type = "ACK" /\ f.item = item
<1>1. Ack(item, epoch, room) \in Frames
  BY DEF Ack, Frame, Frames, FrameTypes, FrameItems
<1> QED BY <1>1 DEF Ack, Frame

LEMMA ActivityStartKeeps ==
  ASSUME Typed, \A q \in Clients : Client(q), NEW p \in Clients, ProcessActivityStart(p)
  PROVE  Typed' /\ \A q \in Clients : Client(q)'
<1> DEFINE starts == StartsNow(p, Head(down[p]))
<1>1. /\ UNCHANGED <<hostVars, invitation, croom, cepoch, known, got, shown, heard, door, pendingDoor>>
      /\ down[p] # <<>> /\ down' = [down EXCEPT ![p] = Tail(@)] /\ Head(down[p]).type = "START"
      /\ cphase' = [cphase EXCEPT ![p] = IF starts THEN "ACTIVE" ELSE @]
      /\ loading' = [loading EXCEPT ![p] = @ /\ ~starts]
      /\ up' = up \/ up' = [up EXCEPT ![p] = @ \o ClientAck(p, "START")]
  BY DEF ProcessActivityStart, Takes, Hears, Replies
<1>2. cepoch[p] \in Nat /\ croom[p] \in Nat /\ up[p] \in Seq(Frames) /\ down[p] \in Seq(Frames)
      /\ Head(down[p]) \in Contents(down[p]) /\ Tail(down[p]) \in Seq(Frames)
  BY <1>1, StageTyped, TailFacts DEF Typed, ClientsTyped
<1>3. starts => cphase[p] = "LOADING"
  BY DEF StartsNow
<1>4. ~NotStarted
  BY <1>1, <1>2 DEF Client, Told, DownSays
<1> HIDE DEF starts
<1>5. PICK f \in Frames : f = Ack("START", cepoch[p], croom[p]) /\ f.type = "ACK" /\ f.item = "START"
  BY <1>2, AckMade
<1>6. f.item \notin ItemSet /\ UpSays(p, f)'
  BY <1>5, SaidUp, NoItems
<1>7. up' = up \/ up' = [up EXCEPT ![p] = Append(@, f)]
  BY <1>1, <1>2, <1>5, ReplyOne DEF ClientAck
<1>8. Typed'
  <2>1. up' \in [Clients -> Seq(Frames)] /\ down' \in [Clients -> Seq(Frames)]
    <3>1. Append(up[p], f) \in Seq(Frames)
      BY <1>2, AppendFacts
    <3> QED BY <1>1, <1>2, <1>7, <3>1 DEF Typed
  <2>2. cphase' \in [Clients -> {"TOWN", "HOME"} \cup Away] /\ loading' \in [Clients -> BOOLEAN]
    BY <1>1 DEF Typed, ClientsTyped, Away
  <2> QED BY <1>1, <2>1, <2>2 DEF Typed, HostTyped, ClientsTyped, hostVars, combatVars
<1>9. \A q \in Clients : UpMoves(q) /\ DownMoves(q)
  BY <1>1, <1>6, <1>7 DEF UpMoves, DownMoves, Typed
<1>10. ASSUME NEW q \in Clients, q # p PROVE Client(q)'
  <2>1. Same(q)
    BY <1>1, <1>10 DEF Same, hostVars, Typed, ClientsTyped
  <2> QED BY <1>9, <2>1, SameKeeps
<1>11. Client(p)'
  <2>1. cphase'[p] = cphase[p] \/ (cphase[p] = "LOADING" /\ cphase'[p] = "ACTIVE")
    BY <1>1, <1>3 DEF Typed, ClientsTyped
  <2>2. Onward(p) /\ Steady(p)
    BY <1>1, <2>1 DEF Onward, Early, NotStarted, Accepted, hostVars, Steady, Away
  <2>3. Willing(p)'
    BY <1>1, <2>1 DEF Client, Willing, Accepted, hostVars, Away
  <2>4. Staged(p)'
    BY <1>1, <1>4 DEF Client, Staged, Early, NotStarted, hostVars
  <2> QED BY <1>9, <2>2, <2>3, <2>4, SteadyKeeps
<1> QED BY <1>8, <1>10, <1>11

LEMMA RefuseDoorKeeps ==
  ASSUME Typed, \A q \in Clients : Client(q), NEW p \in Clients, RefuseDoor(p)
  PROVE  Typed' /\ \A q \in Clients : Client(q)'
<1>1. /\ UNCHANGED <<phase, revision, spells, combatVars, repeats, clientVars, down>> /\ up[p] # <<>>
      /\ up' = [up EXCEPT ![p] = Tail(@)] /\ part' = [part EXCEPT ![p].door = Head(up[p]).n]
  BY DEF RefuseDoor, Hears
<1>2. part'[p] = [part[p] EXCEPT !.door = Head(up[p]).n] /\ \A q \in Clients \ {p} : part'[q] = part[q]
  BY <1>1 DEF Typed, HostTyped
<1>3. part[p] \in Participant /\ part'[p] \in Participant /\ Tail(up[p]) \in Seq(Frames)
  <2>1. Head(up[p]) \in Frames /\ Tail(up[p]) \in Seq(Frames)
    BY <1>1, StageTyped, TailFacts
  <2>2. Head(up[p]).n \in Nat
    BY <2>1 DEF Frames
  <2>3. part[p] \in Participant
    BY StageTyped
  <2>4. [part[p] EXCEPT !.door = Head(up[p]).n] \in Participant
    BY <2>2, <2>3, Updated
  <2> QED BY <1>2, <2>1, <2>3, <2>4
<1>4. /\ part'[p].stage = part[p].stage /\ part'[p].expect = part[p].expect /\ part'[p].ready = part[p].ready
      /\ part'[p].in = part[p].in /\ part'[p].room = part[p].room /\ part'[p].epoch = part[p].epoch
      /\ part'[p].roomLoading = part[p].roomLoading
  BY <1>2, <1>3 DEF Participant
<1>5. Typed'
  <2>1. up' \in [Clients -> Seq(Frames)]
    BY <1>1, <1>3 DEF Typed
  <2>2. part' \in [Clients -> Participant]
    BY <1>1, <1>2, <1>3 DEF Typed, HostTyped
  <2> QED BY <1>1, <2>1, <2>2 DEF Typed, HostTyped, ClientsTyped, combatVars, clientVars, areaVars
<1>6. \A q \in Clients : UpMoves(q) /\ DownMoves(q)
  BY <1>1 DEF UpMoves, DownMoves, Typed
<1>7. ASSUME NEW q \in Clients, q # p PROVE Client(q)'
  <2>1. Same(q)
    BY <1>1, <1>2, <1>7 DEF Same, clientVars, areaVars
  <2> QED BY <1>6, <2>1, SameKeeps
<1>8. Client(p)'
  <2>1. Onward(p) /\ Steady(p)
    BY <1>1, <1>4 DEF Onward, Early, NotStarted, Accepted, clientVars, areaVars, Steady
  <2>2. Willing(p)'
    BY <1>1, <1>4 DEF Client, Willing, Accepted, clientVars
  <2>3. Staged(p)'
    BY <1>1, <1>4 DEF Client, Staged, Early, NotStarted, clientVars, areaVars
  <2> QED BY <1>6, <2>1, <2>2, <2>3, SteadyKeeps
<1> QED BY <1>5, <1>7, <1>8

\* What the head of the queue to a client is, when it is an item
LEMMA HeadItem ==
  ASSUME Typed, NEW p \in Clients, Client(p), down[p] # <<>>, Head(down[p]).type \in ItemSet
  PROVE  LET frame == Head(down[p])
         IN  /\ frame \in Contents(down[p]) /\ frame \in Frames /\ frame.item = frame.type /\ frame.room \in Rooms
             /\ frame.epoch \in Nat /\ frame.n \in Nat
             /\ Accepted(p) /\ ~Early
<1>1. Head(down[p]) \in Contents(down[p]) /\ Head(down[p]) \in Frames
  BY StageTyped, TailFacts
<1> QED BY <1>1 DEF Client, Told, DownSays, Frames

LEMMA PrepareKeeps ==
  ASSUME Typed, \A q \in Clients : Client(q), NEW p \in Clients, ProcessActivityPrepare(p)
  PROVE  Typed' /\ \A q \in Clients : Client(q)'
<1>1. /\ UNCHANGED hostVars /\ down[p] # <<>> /\ down' = [down EXCEPT ![p] = Tail(@)]
      /\ Head(down[p]).type = "PREPARE"
  BY DEF ProcessActivityPrepare, Takes, Hears
<1>2. PICK prepare \in Frames :
        /\ prepare = Head(down[p]) /\ prepare \in Contents(down[p]) /\ prepare.item = "PREPARE"
        /\ prepare.type = "PREPARE" /\ prepare.room \in Rooms /\ prepare.room \in Nat /\ prepare.epoch \in Nat
  BY <1>1, HeadItem, Stages, RoomsAssumption
<1>3. Accepted(p) /\ ~Early
  BY <1>1, HeadItem, Stages
<1>4. /\ part[p] \in Participant /\ up[p] \in Seq(Frames) /\ down[p] \in Seq(Frames)
      /\ part[p].stage \in 1..6 /\ Tail(down[p]) \in Seq(Frames)
      /\ Contents(Tail(down[p])) \subseteq Contents(down[p])
      /\ Now(part[p].stage) \in ItemSet \cup {"NONE"}
  BY <1>1, StageTyped, TailFacts
<1>5. down' \in [Clients -> Seq(Frames)] /\ \A q \in Clients : DownMoves(q)
  BY <1>1, <1>4 DEF Typed, DownMoves
<1>6. CASE UNCHANGED <<clientVars, up>>
  <2>1. Typed'
    BY <1>1, <1>5, <1>6 DEF Typed, HostTyped, ClientsTyped, hostVars, combatVars, clientVars, areaVars
  <2>2. \A q \in Clients : Same(q) /\ UpMoves(q)
    BY <1>1, <1>6 DEF Same, UpMoves, hostVars, clientVars, areaVars
  <2> QED BY <1>5, <2>1, <2>2, SameKeeps
<1>7. PICK f \in Frames : f = Ack("PREPARE", prepare.epoch, 0) /\ f.type = "ACK" /\ f.item = "PREPARE"
  <2>1. "PREPARE" \in ItemSet \cup {"START"}
    BY Stages
  <2> QED BY <1>2, <2>1, AckMade
\* What the client replies, as it prepares or has prepared the area already
<1>8. ASSUME up' = [up EXCEPT ![p] = @ \o <<f>>],
             invitation' = invitation,
             \A q \in Clients : q # p => Same(q),
             Live(p) => Synced(p)',
             Live(p) /\ part[p].stage # 1 => got'[p] = got[p],
             cphase'[p] \in Away, invitation[p] = "accepted",
             phase' \in {"LOADING", "WAITING", "TOWN"} => cphase'[p] # "ACTIVE" /\ ~loading'[p]
      PROVE  /\ up' \in [Clients -> Seq(Frames)]
             /\ \A q \in Clients : Client(q)'
  <2>1. /\ up'[p] = Append(up[p], f) /\ up'[p] \in Seq(Frames) /\ Contents(up'[p]) = Contents(up[p]) \cup {f}
        /\ up' = [up EXCEPT ![p] = Append(@, f)]
    <3>1. up[p] \o <<f>> = Append(up[p], f)
      BY <1>4, ReplyOne
    <3>2. Append(up[p], f) \in Seq(Frames) /\ Contents(Append(up[p], f)) = Contents(up[p]) \cup {f}
      BY <1>4, AppendFacts
    <3> QED BY <1>8, <3>1, <3>2 DEF Typed
  <2>2. up' \in [Clients -> Seq(Frames)]
    BY <2>1 DEF Typed
  <2>3. down'[p] = Tail(down[p])
    BY <1>1 DEF Typed
  <2>4. ASSUME NEW q \in Clients, q # p PROVE Client(q)'
    <3>1. Same(q) /\ UpMoves(q)
      BY <1>8, <2>4 DEF UpMoves, Typed
    <3> QED BY <1>5, <3>1, SameKeeps
  <2>5. part' = part /\ phase' = phase
    BY <1>1 DEF hostVars
  <2>6. Onward(p)
    BY <1>8, <2>5 DEF Onward, Early, NotStarted, Accepted, Away
  <2>7. UpSays(p, f)'
    BY <1>3, <1>7, <2>5, Stages DEF UpSays, Early, NotStarted
  <2>8. Told(p)'
    BY <1>4, <2>1, <2>3, <2>6, <2>7, ToldKeeps DEF Client, SaidBefore
  <2>9. Willing(p)'
    BY <1>8 DEF Willing, Accepted, Away
  <2>10. Staged(p)'
    BY <1>8, <2>5 DEF Client, Staged, Early, NotStarted
  <2>11. ASSUME Live(p)' PROVE InStep(p)'
    <3>1. Live(p) /\ InStep(p)
      <4>1. Live(p)
        BY <1>8, <2>5, <2>11 DEF Live, Client, Willing
      <4> QED BY <4>1 DEF Client
    <3>2. Ordered(up'[p], down'[p], Last(part'[p].stage), Now(part'[p].stage))
      <4>1. Ordered(up[p], down[p], Last(part[p].stage), Now(part[p].stage))
        BY <3>1 DEF InStep
      <4>2. f.item = Head(down[p]).item /\ f.item \in ItemSet
        BY <1>2, <1>7, Stages
      <4>3. Ordered(Append(up[p], f), Tail(down[p]), Last(part[p].stage), Now(part[p].stage))
        BY <1>1, <1>4, <4>1, <4>2, OrderedReply
      <4> QED BY <2>1, <2>3, <2>5, <4>3
    <3>3. Meant(p)'
      BY <1>4, <2>3, <2>5, <3>1 DEF InStep, Meant
    <3>4. Prepared(p)'
      BY <1>8, <3>1 DEF Prepared
    <3>5. Received(p)'
      <4>1. f.item \notin LoadItems
        BY <1>7, Stages
      <4>2. CASE part[p].stage = 1
        BY <2>5, <4>2 DEF Received
      <4>3. CASE part[p].stage # 1
        BY <1>8, <2>1, <2>5, <3>1, <4>1, <4>3 DEF InStep, Received
      <4> QED BY <4>2, <4>3
    <3> QED BY <3>2, <3>3, <3>4, <3>5 DEF InStep
  <2>12. Client(p)'
    BY <2>8, <2>9, <2>10, <2>11 DEF Client
  <2> QED BY <2>2, <2>4, <2>12
\* The area to prepare is the one the host means.
<1>9. ASSUME Live(p)
      PROVE  /\ prepare.room = part[p].room /\ prepare.epoch = part[p].epoch
             /\ part[p].stage # 1 => Synced(p)
  <2>1. InStep(p)
    BY <1>9 DEF Client
  <2> QED BY <1>2, <2>1, Stages DEF InStep, Meant, Prepared
<1>10. CASE /\ invitation[p] # "no" /\ cphase[p] = "ACTIVE" /\ ~NewEpoch(p, prepare)
            /\ Replies(p, <<f>>) /\ UNCHANGED clientVars
  <2>1. /\ up' = [up EXCEPT ![p] = @ \o <<f>>] /\ invitation' = invitation
        /\ \A q \in Clients : q # p => Same(q)
        /\ got' = got /\ cphase' = cphase /\ loading' = loading
    BY <1>1, <1>10 DEF Replies, Same, hostVars, clientVars, areaVars
  <2>2. Live(p) => Synced(p)'
    BY <1>1, <1>9, <1>10 DEF NewEpoch, Synced, Away, hostVars, clientVars, areaVars
  <2>3. cphase'[p] \in Away /\ invitation[p] = "accepted"
    BY <1>10, <2>1 DEF Away, Client, Willing
  <2>4. phase' \in {"LOADING", "WAITING", "TOWN"} => cphase'[p] # "ACTIVE" /\ ~loading'[p]
    BY <1>1, <2>1 DEF Client, Staged, NotStarted, hostVars
  <2>5. up' \in [Clients -> Seq(Frames)] /\ \A q \in Clients : Client(q)'
    BY <1>8, <2>1, <2>2, <2>3, <2>4
  <2>6. Typed'
    BY <1>1, <1>5, <1>10, <2>5 DEF Typed, HostTyped, ClientsTyped, hostVars, combatVars, clientVars, areaVars
  <2> QED BY <2>5, <2>6
<1>11. CASE /\ invitation[p] # "no"
            /\ cphase' = [cphase EXCEPT ![p] = "LOADING"]
            /\ loading' = [loading EXCEPT ![p] = @ \/ cphase[p] = "ACTIVE"]
            /\ croom' = [croom EXCEPT ![p] = prepare.room]
            /\ cepoch' = [cepoch EXCEPT ![p] = prepare.epoch]
            /\ got' = [got EXCEPT ![p] = IF NewEpoch(p, prepare) THEN {} ELSE @]
            /\ pendingDoor' = [pendingDoor EXCEPT ![p] = 0]
            /\ Replies(p, <<f>>)
            /\ UNCHANGED <<invitation, shown, heard, door>>
  <2>1. /\ up' = [up EXCEPT ![p] = @ \o <<f>>] /\ invitation' = invitation
        /\ \A q \in Clients : q # p => Same(q)
    BY <1>1, <1>11 DEF Replies, Same, hostVars, Typed, ClientsTyped
  <2>2. /\ cphase'[p] = "LOADING" /\ croom'[p] = prepare.room /\ cepoch'[p] = prepare.epoch
        /\ loading'[p] = (loading[p] \/ cphase[p] = "ACTIVE")
        /\ ~NewEpoch(p, prepare) => got'[p] = got[p]
    BY <1>11 DEF Typed, ClientsTyped
  <2>3. Live(p) => Synced(p)'
    BY <1>1, <1>9, <2>2 DEF Synced, Away, hostVars
  <2>4. Live(p) /\ part[p].stage # 1 => got'[p] = got[p]
    BY <1>9, <2>2 DEF Synced, NewEpoch
  <2>5. cphase'[p] \in Away /\ invitation[p] = "accepted"
    BY <1>3, <1>11, <2>2 DEF Away, Client, Willing, Accepted
  <2>6. phase' \in {"LOADING", "WAITING", "TOWN"} => cphase'[p] # "ACTIVE" /\ ~loading'[p]
    BY <1>1, <2>2 DEF Client, Staged, NotStarted, hostVars
  <2>7. up' \in [Clients -> Seq(Frames)] /\ \A q \in Clients : Client(q)'
    BY <1>8, <2>1, <2>3, <2>4, <2>5, <2>6
  <2>8. ClientsTyped'
    BY <1>2, <1>11 DEF Typed, ClientsTyped, Away
  <2>9. Typed'
    BY <1>1, <1>5, <2>7, <2>8 DEF Typed, HostTyped, hostVars, combatVars
  <2> QED BY <2>7, <2>9
<1> QED BY <1>2, <1>6, <1>7, <1>10, <1>11 DEF ProcessActivityPrepare

\* A client takes a frame of an item and acknowledges it, and may say before or
\* after that it has all.
LEMMA OrderedTaken ==
  ASSUME NEW u \in Seq(Frames), NEW d \in Seq(Frames), d # <<>>, NEW a \in Frames, a.item = Head(d).item,
         a.item \in ItemSet, NEW last, NEW now, now \in ItemSet \cup {"NONE"}, Ordered(u, d, last, now),
         NEW v, \/ v = Append(u, a)
                \/ \E f \in Frames : /\ f.item \notin ItemSet
                                     /\ v = Append(Append(u, a), f) \/ v = Append(Append(u, f), a)
  PROVE  Ordered(v, Tail(d), last, now)
<1>1. CASE v = Append(u, a)
  BY <1>1, OrderedReply
<1>2. ASSUME NEW f \in Frames, f.item \notin ItemSet, v = Append(Append(u, a), f)
      PROVE  Ordered(v, Tail(d), last, now)
  <2>1. Append(u, a) \in Seq(Frames) /\ Tail(d) \in Seq(Frames)
    BY AppendFacts, TailFacts
  <2>2. Ordered(Append(u, a), Tail(d), last, now)
    BY OrderedReply
  <2>3. Plain(Append(u, a), v) /\ Plain(Tail(d), Tail(d))
    BY <1>2 DEF Plain
  <2> QED BY <2>1, <2>2, <2>3, OrderedPlain
<1>3. ASSUME NEW f \in Frames, f.item \notin ItemSet, v = Append(Append(u, f), a)
      PROVE  Ordered(v, Tail(d), last, now)
  <2>1. Append(u, f) \in Seq(Frames)
    BY AppendFacts
  <2>2. Plain(u, Append(u, f)) /\ Plain(d, d)
    BY <1>3 DEF Plain
  <2>3. Ordered(Append(u, f), d, last, now)
    BY <2>2, OrderedPlain
  <2> QED BY <1>3, <2>1, <2>3, OrderedReply
<1> QED BY <1>1, <1>2, <1>3

LEMMA ReplyTwo ==
  ASSUME NEW S, NEW s \in Seq(S), NEW f \in S, NEW g \in S
  PROVE  /\ s \o (<<f>> \o <<g>>) = Append(Append(s, f), g)
         /\ s \o (<<f>> \o <<>>) = Append(s, f)
         /\ s \o (<<>> \o <<f>>) = Append(s, f)
  OBVIOUS

LEMMA TwoFacts ==
  ASSUME NEW S, NEW s \in Seq(S), NEW f \in S, NEW g \in S
  PROVE  /\ Append(Append(s, f), g) \in Seq(S)
         /\ Contents(Append(Append(s, f), g)) = Contents(s) \cup {f, g}
<1>1. Append(s, f) \in Seq(S) /\ Contents(Append(s, f)) = Contents(s) \cup {f}
  BY AppendFacts
<1>2. PICK t \in Seq(S) : t = Append(s, f)
  BY <1>1
<1>3. Append(t, g) \in Seq(S) /\ Contents(Append(t, g)) = Contents(t) \cup {g}
  BY AppendFacts
<1> QED BY <1>1, <1>2, <1>3

\* What the client replies
Answer(p, item) ==
  IF item = "SPAWN" THEN ClientAck(p, item) \o Finish(p, item)
                    ELSE Finish(p, item) \o ClientAck(p, item)

LEMMA Replied ==
  ASSUME Typed, NEW p \in Clients, Client(p), phase' = phase, NEW item \in LoadItems,
         NEW r, r = Answer(p, item)
  PROVE  \E a \in Frames :
           /\ a.type = "ACK" /\ a.item = item
           /\ \/ up[p] \o r = Append(up[p], a)
              \/ \E f \in Frames :
                   /\ f.item \notin ItemSet /\ UpSays(p, f)'
                   /\ up[p] \o r = Append(Append(up[p], a), f) \/ up[p] \o r = Append(Append(up[p], f), a)
<1>1. up[p] \in Seq(Frames) /\ cepoch[p] \in Nat /\ croom[p] \in Nat /\ item \in ItemSet \cup {"START"}
  BY StageTyped, NoItems DEF Typed, ClientsTyped
<1>2. PICK a \in Frames : a = Ack(item, cepoch[p], croom[p]) /\ a.type = "ACK" /\ a.item = item
  BY <1>1, AckMade
<1>3. ClientAck(p, item) = <<a>>
  BY <1>2 DEF ClientAck
<1>4. CASE Finish(p, item) = <<>>
  <2>1. up[p] \o r = Append(up[p], a)
    BY <1>1, <1>3, <1>4, ReplyTwo DEF Answer
  <2> QED BY <1>2, <2>1
<1>5. CASE Finish(p, item) = Ready(p)
  <2>1. PICK f \in Frames : f.item \notin ItemSet /\ UpSays(p, f)' /\ Ready(p) = <<f>>
    BY ReadySaid
  <2>2. up[p] \o r = Append(Append(up[p], a), f) \/ up[p] \o r = Append(Append(up[p], f), a)
    BY <1>1, <1>3, <1>5, <2>1, ReplyTwo DEF Answer
  <2> QED BY <1>2, <2>1, <2>2
<1> QED BY <1>4, <1>5 DEF Finish

LEMMA ItemKeeps ==
  ASSUME Typed, \A q \in Clients : Client(q), NEW p \in Clients, NEW item \in LoadItems, ProcessItem(p, item)
  PROVE  Typed' /\ \A q \in Clients : Client(q)'
<1> DEFINE fits == ItemFits(p, Head(down[p]))
<1>0. PICK r : r = Answer(p, item)
  OBVIOUS
<1>1. /\ UNCHANGED <<hostVars, cphase, invitation, loading, croom, cepoch, known, heard, door, pendingDoor>>
      /\ down[p] # <<>> /\ down' = [down EXCEPT ![p] = Tail(@)] /\ Head(down[p]).type = item
      /\ fits => /\ got' = [got EXCEPT ![p] = @ \cup {item}]
                 /\ up' = [up EXCEPT ![p] = @ \o r]
      /\ ~fits => UNCHANGED <<got, up>>
  BY <1>0 DEF ProcessItem, Takes, Hears, Replies, Answer
<1>2. /\ item \in ItemSet /\ up[p] \in Seq(Frames) /\ down[p] \in Seq(Frames) /\ Tail(down[p]) \in Seq(Frames)
      /\ Contents(Tail(down[p])) \subseteq Contents(down[p])
      /\ Now(part[p].stage) \in ItemSet \cup {"NONE"}
  BY <1>1, StageTyped, TailFacts, NoItems
<1>3. Head(down[p]).item = item /\ ~Early
  BY <1>1, <1>2, HeadItem
<1>4. down' \in [Clients -> Seq(Frames)] /\ \A q \in Clients : DownMoves(q)
  BY <1>1, <1>2 DEF Typed, DownMoves
<1>5. CASE ~fits
  <2>1. Typed'
    BY <1>1, <1>4, <1>5 DEF Typed, HostTyped, ClientsTyped, hostVars, combatVars
  <2>2. \A q \in Clients : Same(q) /\ UpMoves(q)
    BY <1>1, <1>5 DEF Same, UpMoves, hostVars
  <2> QED BY <1>4, <2>1, <2>2, SameKeeps
<1>6. CASE fits
  <2>1. PICK a \in Frames :
           /\ a.type = "ACK" /\ a.item = item
           /\ \/ up[p] \o r = Append(up[p], a)
              \/ \E f \in Frames :
                   /\ f.item \notin ItemSet /\ UpSays(p, f)'
                   /\ up[p] \o r = Append(Append(up[p], a), f) \/ up[p] \o r = Append(Append(up[p], f), a)
    <3>1. phase' = phase /\ Client(p)
      BY <1>1 DEF hostVars
    <3> QED BY <1>0, <3>1, Replied
  <2> HIDE DEF fits
  <2>2. up'[p] = up[p] \o r /\ down'[p] = Tail(down[p]) /\ \A q \in Clients \ {p} : up'[q] = up[q]
    BY <1>1, <1>6 DEF Typed
  <2>3. got'[p] = got[p] \cup {item} /\ got' \in [Clients -> SUBSET LoadItems]
        /\ \A q \in Clients \ {p} : got'[q] = got[q]
    <3>1. got \in [Clients -> SUBSET LoadItems] /\ got[p] \cup {item} \in SUBSET LoadItems
      BY DEF Typed, ClientsTyped
    <3>2. got' = [got EXCEPT ![p] = got[p] \cup {item}]
      BY <1>1, <1>6
    <3> QED BY <3>1, <3>2
  <2>4. part' = part /\ phase' = phase /\ cphase' = cphase /\ invitation' = invitation
    BY <1>1 DEF hostVars
  <2>5. up'[p] \in Seq(Frames) /\ Contents(up'[p]) \in SUBSET (Contents(up[p]) \cup {a} \cup
          {f \in Frames : f.item \notin ItemSet /\ UpSays(p, f)'})
    <3>1. CASE up[p] \o r = Append(up[p], a)
      BY <1>2, <2>1, <2>2, <3>1, AppendFacts
    <3>2. ASSUME NEW f \in Frames, f.item \notin ItemSet, UpSays(p, f)',
                 up[p] \o r = Append(Append(up[p], a), f) \/ up[p] \o r = Append(Append(up[p], f), a)
          PROVE  up'[p] \in Seq(Frames) /\ Contents(up'[p]) = Contents(up[p]) \cup {a} \cup {f}
      <4>1. /\ Append(Append(up[p], a), f) \in Seq(Frames)
            /\ Contents(Append(Append(up[p], a), f)) = Contents(up[p]) \cup {a, f}
        BY <1>2, TwoFacts
      <4>2. /\ Append(Append(up[p], f), a) \in Seq(Frames)
            /\ Contents(Append(Append(up[p], f), a)) = Contents(up[p]) \cup {f, a}
        BY <1>2, TwoFacts
      <4> QED BY <2>2, <3>2, <4>1, <4>2
    <3> QED BY <2>1, <3>1, <3>2
  <2>6. Typed'
    <3>1. up' \in [Clients -> Seq(Frames)]
      BY <1>1, <1>6, <2>2, <2>5 DEF Typed
    <3> QED BY <1>1, <1>4, <2>3, <3>1 DEF Typed, HostTyped, ClientsTyped, hostVars, combatVars
  <2>7. ASSUME NEW q \in Clients, q # p PROVE Client(q)'
    <3>1. Same(q) /\ UpMoves(q)
      BY <1>1, <2>2, <2>3, <2>7 DEF Same, UpMoves, hostVars
    <3> QED BY <1>4, <3>1, SameKeeps
  <2>8. Client(p)'
    <3>1. Onward(p)
      BY <1>1 DEF Onward, Early, NotStarted, Accepted, hostVars
    <3>2. UpSays(p, a)'
      BY <1>2, <1>3, <2>1, <2>4, NoItems DEF UpSays, Early, NotStarted
    <3>3. Told(p)'
      BY <1>2, <2>2, <2>5, <3>1, <3>2, ToldKeeps DEF Client, SaidBefore
    <3>4. Willing(p)'
      BY <2>4 DEF Client, Willing, Accepted
    <3>5. Staged(p)'
      BY <1>1 DEF Client, Staged, Early, NotStarted, hostVars
    <3>6. ASSUME Live(p)' PROVE InStep(p)'
      <4>1. InStep(p)
        BY <2>4, <3>6 DEF Live, Client
      <4>2. Ordered(up'[p], down'[p], Last(part'[p].stage), Now(part'[p].stage))
        <5>1. Ordered(up[p], down[p], Last(part[p].stage), Now(part[p].stage))
          BY <4>1 DEF InStep
        <5>2. Ordered(up[p] \o r, Tail(down[p]), Last(part[p].stage), Now(part[p].stage))
          BY <1>1, <1>2, <1>3, <2>1, <5>1, OrderedTaken
        <5> QED BY <2>2, <2>4, <5>2
      <4>3. Meant(p)'
        BY <1>2, <2>2, <2>4, <4>1 DEF InStep, Meant
      <4>4. \A f \in Contents(up'[p]) : f.item \in ItemSet => f \in Contents(up[p]) \/ f = a
        BY <2>5
      <4>5. Prepared(p)'
        <5>1. a.item # "PREPARE" /\ "PREPARE" \in ItemSet
          BY <2>1, Stages
        <5> QED BY <1>1, <2>4, <4>1, <4>4, <5>1 DEF InStep, Prepared, Synced
      <4>6. Received(p)'
        <5>1. \A i \in 2..(Complete - 1) : i < part'[p].stage => Items[i] \in got'[p]
          BY <2>3, <2>4, <4>1 DEF InStep, Received
        <5>2. ASSUME part'[p].stage # 1, NEW f \in Contents(up'[p]), f.item \in LoadItems PROVE f.item \in got'[p]
          BY <2>1, <2>3, <2>4, <4>1, <4>4, <5>2, NoItems DEF InStep, Received
        <5> QED BY <5>1, <5>2 DEF Received
      <4> QED BY <4>2, <4>3, <4>5, <4>6 DEF InStep
    <3> QED BY <3>3, <3>4, <3>5, <3>6 DEF Client
  <2> QED BY <2>6, <2>7, <2>8
<1> QED BY <1>5, <1>6

-----------------------------------------------------------------------------
(* Steps that make the host transfer a room again *)

\* A participant that is in no transfer has one complete behind it: what is
\* still on its way is the end of that one.
LEMMA RestartKeeps ==
  ASSUME Typed, NEW p \in Clients, Client(p), UpMoves(p), DownMoves(p), phase = "ACTIVE", phase' = phase,
         part[p].in, ~part[p].roomLoading,
         part'[p].in, part'[p].roomLoading, ~part'[p].ready, part'[p].stage = 1, part'[p].expect = "NONE",
         UNCHANGED clientVars
  PROVE  Client(p)'
<1>1. part[p].stage = 6
  BY Stages DEF Client, Staged
<1>2. Onward(p) /\ SaidBefore(p) /\ Plain(up[p], up'[p]) /\ Plain(down[p], down'[p])
  BY MovesFacts DEF Onward, Early, NotStarted, Accepted, clientVars
<1>3. Told(p)'
  BY <1>2, ToldKeeps DEF Client
<1>4. Willing(p)'
  BY DEF Client, Willing, Accepted, clientVars
<1>5. Staged(p)'
  BY DEF Staged, Early, NotStarted
<1>6. ASSUME Live(p)' PROVE InStep(p)'
  <2>1. InStep(p)
    BY <1>6 DEF Client, Live, clientVars
  <2>2. Ordered(up[p], down[p], "SPAWN", "NONE")
    BY <1>1, <2>1, StageItems DEF InStep
  <2>3. up[p] \in Seq(Frames) /\ down[p] \in Seq(Frames)
    BY StageTyped
  <2>4. up'[p] \in Seq(Frames) /\ down'[p] \in Seq(Frames)
    BY <1>2, <2>3, PlainFacts
  <2>5. Ordered(up'[p], down'[p], "SPAWN", "NONE")
    BY <1>2, <2>2, <2>3, OrderedPlain
  <2>6. /\ Ordered(up'[p], down'[p], "SPAWN", "PREPARE")
        /\ \A f \in Contents(up'[p]) \cup Contents(down'[p]) : f.item \in ItemSet => f.item = "SPAWN"
    BY <2>4, <2>5, OrderedRestart
  <2> QED BY <2>6, AtFirst
<1> QED BY <1>3, <1>4, <1>5, <1>6 DEF Client

LEMMA TransitionRequestKeeps ==
  ASSUME Typed, \A q \in Clients : Client(q), NEW p \in Clients, ProcessRoomTransitionRequest(p)
  PROVE  Typed' /\ \A q \in Clients : Client(q)'
<1>1. up[p] # <<>> /\ Head(up[p]).type = "REQUEST"
  BY DEF ProcessRoomTransitionRequest, Hears
<1>2. /\ Head(up[p]) \in Contents(up[p]) /\ Head(up[p]) \in Frames /\ Tail(up[p]) \in Seq(Frames)
      /\ part[p] \in Participant
  BY <1>1, StageTyped, TailFacts
<1>3. Head(up[p]).epoch \in Rooms /\ Head(up[p]).n \in Nat
  BY <1>1, <1>2 DEF Client, Told, UpSays, Frames
<1>4. PICK destination \in Rooms : destination = Head(up[p]).epoch
  BY <1>3
<1>5. PICK n \in Nat : n = Head(up[p]).n
  BY <1>3
<1> DEFINE counts == RequestCounts(p, Head(up[p]))
<1>6. /\ UNCHANGED <<phase, spells, combatVars, clientVars, down>>
      /\ up' = [up EXCEPT ![p] = Tail(@)]
      /\ revision' = revision \/ revision' = [revision EXCEPT ![destination] = 1]
      /\ ~counts => part' = part
      /\ counts => part' = [part EXCEPT ![p] = [@ EXCEPT !.door = n, !.room = destination,
                           !.roomLoading = TRUE, !.ready = FALSE, !.epoch = revision'[destination],
                           !.stage = 1, !.retries = 0, !.expect = "NONE"]]
  BY <1>4, <1>5 DEF ProcessRoomTransitionRequest
<1>7. revision' \in [Rooms -> Nat] /\ revision'[destination] \in Nat
  BY <1>6 DEF Typed, HostTyped
<1>8. PICK e \in Nat : e = revision'[destination]
  BY <1>7
<1>9. up' \in [Clients -> Seq(Frames)] /\ \A q \in Clients : UpMoves(q) /\ DownMoves(q)
  BY <1>1, <1>2, <1>6 DEF Typed, UpMoves, DownMoves
<1>10. CASE ~counts
  <2>1. Typed'
    BY <1>6, <1>7, <1>9, <1>10 DEF Typed, HostTyped, ClientsTyped, combatVars, clientVars, areaVars
  <2>2. \A q \in Clients : Same(q)
    BY <1>6, <1>10 DEF Same, clientVars, areaVars
  <2> QED BY <1>9, <2>1, <2>2, SameKeeps
<1>11. CASE counts
  <2>1. phase = "ACTIVE" /\ part[p].in /\ ~part[p].roomLoading
    BY <1>11 DEF RequestCounts
  <2> HIDE DEF counts
  <2>2. PICK s : s = [part[p] EXCEPT !.door = n, !.room = destination,
                           !.roomLoading = TRUE, !.ready = FALSE, !.epoch = e,
                           !.stage = 1, !.retries = 0, !.expect = "NONE"]
    OBVIOUS
  <2>3. s \in Participant
    BY <1>2, <2>2, TransitionTyped
  <2>4. s.in = part[p].in /\ s.roomLoading /\ ~s.ready /\ s.stage = 1 /\ s.expect = "NONE"
    BY <1>2, <2>2 DEF Participant
  <2>5. part'[p] = s /\ part' = [part EXCEPT ![p] = s]
    BY <1>6, <1>8, <1>11, <2>2 DEF Typed, HostTyped
  <2>6. \A q \in Clients \ {p} : part'[q] = part[q]
    BY <2>5 DEF Typed, HostTyped
  <2>7. Typed'
    <3>1. part' \in [Clients -> Participant]
      BY <2>3, <2>5 DEF Typed, HostTyped
    <3> QED BY <1>6, <1>7, <1>9, <3>1 DEF Typed, HostTyped, ClientsTyped, combatVars, clientVars, areaVars
  <2>8. ASSUME NEW q \in Clients, q # p PROVE Client(q)'
    <3>1. Same(q)
      BY <1>6, <2>6, <2>8 DEF Same, clientVars, areaVars
    <3> QED BY <1>9, <3>1, SameKeeps
  <2>9. Client(p)'
    BY <1>6, <1>9, <2>1, <2>4, <2>5, RestartKeeps
  <2> QED BY <2>7, <2>8, <2>9
<1> QED BY <1>10, <1>11

LEMMA CastAbilityKeeps ==
  ASSUME Typed, \A q \in Clients : Client(q), NEW r \in Rooms, CastAbility(r)
  PROVE  Typed' /\ \A q \in Clients : Client(q)'
<1>1. /\ UNCHANGED <<phase, clientVars, up>> /\ phase = "ACTIVE"
      /\ spells' = [spells EXCEPT ![r] = Append(@, OnTheWayIn(r))]
      /\ revision' = [revision EXCEPT ![r] = @ + 1]
      /\ Refresh(r)
      /\ UNCHANGED <<combatVars, down>> \/ EmitEvent(r)
  BY DEF CastAbility
<1>2. /\ revision' \in [Rooms -> Nat] /\ revision'[r] \in Nat
      /\ spells' \in [Rooms -> Seq(SUBSET Clients)]
  <2>1. OnTheWayIn(r) \in SUBSET Clients /\ spells[r] \in Seq(SUBSET Clients)
    BY DEF OnTheWayIn, Typed, HostTyped
  <2>2. Append(spells[r], OnTheWayIn(r)) \in Seq(SUBSET Clients)
    BY <2>1
  <2>3. spells \in [Rooms -> Seq(SUBSET Clients)] /\ revision \in [Rooms -> Nat]
    BY DEF Typed, HostTyped
  <2> QED BY <1>1, <2>2, <2>3
<1>3. /\ turns' \in Nat /\ eventRoom' \in Nat /\ eventPending' \in SUBSET Clients
      /\ eventPending' # {} => eventRoom' \in Rooms
      /\ down' \in [Clients -> Seq(Frames)] /\ \A q \in Clients : DownMoves(q)
  <2>1. CASE UNCHANGED <<combatVars, down>>
    BY <2>1 DEF Typed, HostTyped, combatVars, DownMoves
  <2>2. CASE EmitEvent(r)
    BY <1>2, <2>2, EventTold, RoomsAssumption
  <2> QED BY <1>1, <2>1, <2>2
<1>4. PICK e \in Nat : e = revision'[r]
  BY <1>2
<1>5. part' = [q \in Clients |->
         IF Refreshed(q, r)
           THEN [part[q] EXCEPT !.roomLoading = TRUE, !.ready = FALSE, !.startAcked = FALSE,
                   !.epoch = revision'[r], !.stage = 1, !.retries = 0, !.expect = "NONE"]
           ELSE part[q]]
  BY <1>1 DEF Refresh
<1>6. ASSUME NEW q \in Clients
      PROVE  /\ part'[q] \in Participant
             /\ Refreshed(q, r) => /\ part'[q].in = part[q].in /\ part'[q].roomLoading /\ ~part'[q].ready
                                   /\ part'[q].stage = 1 /\ part'[q].expect = "NONE"
             /\ ~Refreshed(q, r) => part'[q] = part[q]
  <2>1. part[q] \in Participant
    BY StageTyped
  <2>2. PICK s : s = [part[q] EXCEPT !.roomLoading = TRUE, !.ready = FALSE, !.startAcked = FALSE,
                        !.epoch = e, !.stage = 1, !.retries = 0, !.expect = "NONE"]
    OBVIOUS
  <2>3. s \in Participant
    BY <2>1, <2>2, RefreshTyped
  <2>4. s.in = part[q].in /\ s.roomLoading /\ ~s.ready /\ s.stage = 1 /\ s.expect = "NONE"
    BY <2>1, <2>2 DEF Participant
  <2>5. part'[q] = IF Refreshed(q, r) THEN s ELSE part[q]
    BY <1>4, <1>5, <2>2
  <2> QED BY <2>1, <2>3, <2>4, <2>5
<1>7. Typed'
  <2>1. part' \in [Clients -> Participant]
    <3>1. part' = [q \in Clients |-> part'[q]]
      BY <1>5
    <3> QED BY <1>6, <3>1
  <2> QED BY <1>1, <1>2, <1>3, <2>1 DEF Typed, HostTyped, ClientsTyped, clientVars, areaVars
<1>8. ASSUME NEW q \in Clients PROVE Client(q)'
  <2>1. UpMoves(q) /\ DownMoves(q)
    BY <1>1, <1>3 DEF UpMoves
  <2>2. CASE Refreshed(q, r)
    <3>1. part[q].in /\ ~part[q].roomLoading
      BY <2>2 DEF Refreshed
    <3> QED BY <1>1, <1>6, <2>1, <2>2, <3>1, RestartKeeps
  <2>3. CASE ~Refreshed(q, r)
    <3>1. Same(q)
      BY <1>1, <1>6, <2>3 DEF Same, clientVars, areaVars
    <3> QED BY <2>1, <3>1, SameKeeps
  <2> QED BY <2>2, <2>3
<1> QED BY <1>7, <1>8

-----------------------------------------------------------------------------
(* The invariant *)

LEMMA InitKeeps == Init => ActivityInv
<1>1. SUFFICES ASSUME Init PROVE ActivityInv
  OBVIOUS
<1>2. NoParticipant \in Participant
  BY RoomsAssumption, Stages DEF NoParticipant, Participant
<1>3. Typed
  <2>1. HostTyped
    BY <1>1, <1>2 DEF Init, HostTyped, Phases
  <2>2. ClientsTyped
    BY <1>1 DEF Init, ClientsTyped
  <2>3. up \in [Clients -> Seq(Frames)] /\ down \in [Clients -> Seq(Frames)]
    BY <1>1 DEF Init
  <2> QED BY <2>1, <2>2, <2>3 DEF Typed
<1>4. ASSUME NEW p \in Clients PROVE Client(p)
  <2>1. /\ part[p] = NoParticipant /\ up[p] = <<>> /\ down[p] = <<>> /\ phase = "TOWN" /\ cphase[p] = "TOWN"
        /\ ~loading[p]
    BY <1>1 DEF Init
  <2>2. ~part[p].in /\ part[p].expect = "NONE" /\ ~part[p].ready /\ part[p].stage = 1
    BY <2>1 DEF NoParticipant
  <2>3. Told(p)
    BY <2>1 DEF Told, Contents
  <2>4. Willing(p)
    BY <2>1, <2>2 DEF Willing, Away
  <2>5. Staged(p)
    BY <2>1, <2>2 DEF Staged
  <2> QED BY <2>2, <2>3, <2>4, <2>5 DEF Client, Live
<1> QED BY <1>3, <1>4 DEF ActivityInv

LEMMA NextKeeps == ActivityInv /\ [Next]_vars => ActivityInv'
<1>1. SUFFICES ASSUME Typed, \A q \in Clients : Client(q), [Next]_vars
               PROVE  Typed' /\ \A q \in Clients : Client(q)'
  BY DEF ActivityInv
<1>2. CASE RequestTravel
  BY <1>1, <1>2, RequestTravelKeeps
<1>3. CASE BeginHostLoading
  BY <1>1, <1>3, BeginKeeps
<1>4. CASE StartHostActivity
  BY <1>1, <1>4, StartKeeps
<1>5. CASE RepeatStart
  BY <1>1, <1>5, RepeatStartKeeps
<1>6. CASE HostLeaves
  BY <1>1, <1>6, HostLeavesKeeps
<1>7. ASSUME NEW r \in Rooms, CastAbility(r) \/ CombatTurn(r)
      PROVE  Typed' /\ \A q \in Clients : Client(q)'
  BY <1>1, <1>7, CastAbilityKeeps, CombatTurnKeeps
<1>8. CASE RetryEvent
  BY <1>1, <1>8, RetryEventKeeps
<1>9. ASSUME NEW p \in Clients, Invitation(p)
      PROVE  Typed' /\ \A q \in Clients : Client(q)'
  BY <1>1, <1>9, SendInviteKeeps, InviteKeeps, RespondKeeps, StoredResponseKeeps, ResponseKeeps DEF Invitation
<1>10. ASSUME NEW p \in Clients, HostTransfer(p)
       PROVE  Typed' /\ \A q \in Clients : Client(q)'
  BY <1>1, <1>10, SendItemKeeps, AckKeeps, RetryKeeps, ReadyKeeps, TimeoutKeeps DEF HostTransfer
<1>11. ASSUME NEW p \in Clients, ClientTransfer(p)
       PROVE  Typed' /\ \A q \in Clients : Client(q)'
  BY <1>1, <1>11, PrepareKeeps, ItemKeeps, RepeatReadyKeeps, ActivityStartKeeps, ClientTimeoutKeeps
     DEF ClientTransfer
<1>12. ASSUME NEW p \in Clients, Adventure(p)
       PROVE  Typed' /\ \A q \in Clients : Client(q)'
  <2>1. CASE ProcessActivityEnd(p) \/ ClientLeaves(p) \/ ProcessActivityLeave(p)
    BY <1>1, <2>1, EndKeeps, ClientLeavesKeeps, LeaveKeeps
  <2>2. CASE (\E destination \in Rooms : UseDoor(p, destination)) \/ RepeatRequest(p)
             \/ ProcessRoomTransitionRequest(p) \/ RefuseDoor(p)
    BY <1>1, <2>2, UseDoorKeeps, RepeatRequestKeeps, TransitionRequestKeeps, RefuseDoorKeeps
  <2>3. CASE ProcessCombatEvent(p) \/ ProcessCombatAck(p)
    BY <1>1, <2>3, CombatEventKeeps, CombatAckKeeps
  <2> QED BY <1>12, <2>1, <2>2, <2>3 DEF Adventure
<1>13. ASSUME NEW p \in Clients, Lose(p)
       PROVE  Typed' /\ \A q \in Clients : Client(q)'
  BY <1>1, <1>13, LoseKeeps
<1>14. CASE UNCHANGED vars
  <2>1. Typed'
    BY <1>1, <1>14 DEF Typed, HostTyped, ClientsTyped, vars, hostVars, combatVars, clientVars, areaVars
  <2>2. \A q \in Clients : Same(q) /\ UpMoves(q) /\ DownMoves(q)
    BY <1>14 DEF Same, UpMoves, DownMoves, vars, hostVars, clientVars, areaVars
  <2> QED BY <1>1, <2>1, <2>2, SameKeeps
<1> QED BY <1>1, <1>2, <1>3, <1>4, <1>5, <1>6, <1>7, <1>8, <1>9, <1>10, <1>11, <1>12, <1>13, <1>14 DEF Next

\* Whatever is lost, retried too early, cast, fought or walked through, what is
\* on its way between the host and each client stays in the order of one
\* transfer, and says no more of the client than is true of it.
THEOREM ActivityInvariance == Spec => []ActivityInv
BY InitKeeps, NextKeeps, PTL DEF Spec

-----------------------------------------------------------------------------
(* What it says of the party *)

\* A client that plays or loads and that the host counts as a participant is in
\* the step the host takes it for.
LEMMA PresentInStep ==
  ASSUME ActivityInv, NEW p \in Clients, Present(p)
  PROVE  InStep(p) /\ Typed /\ Client(p)
BY DEF ActivityInv, Present, Client, Live

\* A transfer the host takes for complete is complete at the client, in the
\* room and of the epoch the host means.
LEMMA CompleteMeansLoaded ==
  ASSUME ActivityInv, NEW p \in Clients, Present(p), part[p].stage = Complete
  PROVE  Loaded(p) /\ Synced(p)
<1>1. InStep(p) /\ Typed
  BY PresentInStep
<1>2. Synced(p)
  BY <1>1, Stages DEF InStep, Prepared
<1>3. got[p] \subseteq LoadItems
  BY <1>1 DEF Typed, ClientsTyped
<1>4. \A i \in 2..(Complete - 1) : i < Complete => Items[i] \in got[p]
  BY <1>1 DEF InStep, Received
<1>5. got[p] = LoadItems
  BY <1>3, <1>4, AllLoaded
<1> QED BY <1>2, <1>5 DEF Loaded, Present

LEMMA TogetherFollows == ActivityInv => GoTogether
<1>1. SUFFICES ASSUME ActivityInv PROVE GoTogether
  OBVIOUS
<1>2. OnlyWhoAccepted
  BY <1>1 DEF ActivityInv, Client, Willing, Away, OnlyWhoAccepted
<1>3. ASSUME NEW p \in Clients, cphase[p] = "ACTIVE", NEW q \in Clients, Present(q)
      PROVE  Loaded(q) \/ part[q].roomLoading \/ loading[q]
  <2>1. phase = "ACTIVE" \/ phase = "OVER"
    BY <1>1, <1>3 DEF ActivityInv, Typed, HostTyped, Phases, Client, Staged, NotStarted
  <2>2. phase = "ACTIVE" /\ part[q].in
    BY <1>1, <1>3, <2>1 DEF ActivityInv, Client, Staged, Present
  <2>3. CASE ~part[q].roomLoading
    <3>1. part[q].stage = Complete
      BY <1>1, <2>2, <2>3 DEF ActivityInv, Client, Staged
    <3> QED BY <1>1, <1>3, <3>1, CompleteMeansLoaded
  <2> QED BY <2>3
<1> QED BY <1>2, <1>3 DEF GoTogether, NobodyPlaysAlone

LEMMA SameRoomFollows == ActivityInv => SameRoom
<1>1. SUFFICES ASSUME ActivityInv PROVE SameRoom
  OBVIOUS
<1>2. ASSUME NEW p \in Clients, Present(p), part[p].ready
      PROVE  Loaded(p) /\ croom[p] = part[p].room /\ cepoch[p] = part[p].epoch
  <2>1. part[p].stage = Complete
    BY <1>1, <1>2 DEF ActivityInv, Client, Staged
  <2> QED BY <1>1, <1>2, <2>1, CompleteMeansLoaded DEF Synced
<1>3. ASSUME NEW p \in Clients, Present(p), cphase[p] = "ACTIVE", ~part[p].roomLoading
      PROVE  croom[p] = part[p].room /\ cepoch[p] = part[p].epoch
  <2>1. phase = "ACTIVE" /\ part[p].in
    BY <1>1, <1>3 DEF ActivityInv, Typed, HostTyped, Phases, Client, Staged, NotStarted, Present
  <2>2. part[p].stage = Complete
    BY <1>1, <1>3, <2>1 DEF ActivityInv, Client, Staged
  <2> QED BY <1>1, <1>3, <2>2, CompleteMeansLoaded DEF Synced
<1> QED BY <1>2, <1>3 DEF SameRoom, ReadyMeansLoaded, RoomsAgree

\* Nobody is taken along who did not accept, and nobody who did plays while
\* another is still on the way in: beginHostLoading, processTravelResponse and
\* startHostActivity, for any number of clients and any losses and retries.
THEOREM PartyGoesTogether == Spec => []GoTogether
BY ActivityInvariance, TogetherFollows, PTL

\* Whom processActivityReady takes for ready has received all of the area, in
\* the room and of the epoch the host means, and a client that plays, and that
\* the host is not transferring to, is in that room: advanceReliableTransfer
\* and beginIndependentRoomTransition, for any rooms, doors, spells and losses.
THEOREM HostAndClientsAgree == Spec => []SameRoom
BY ActivityInvariance, SameRoomFollows, PTL

=============================================================================
