----------------------- MODULE MultiplayerSessionProofs -----------------------
(***************************************************************************)
(* Proofs about MultiplayerSession for any number of devices, seats and    *)
(* sessions and any length of the queues: while nothing is lost or late,   *)
(* every device is in one of five situations towards the host, and in each *)
(* of them what is still queued completes what the device knows.           *)
(***************************************************************************)
EXTENDS MultiplayerSession, FiniteSetTheorems, SequenceTheorems, WellFoundedInduction, TLAPS

-----------------------------------------------------------------------------
(* Queues *)

LEMMA Rest ==
  ASSUME NEW S, NEW q \in Seq(S), q # <<>>
  PROVE  /\ Len(q) \in Nat \ {0} /\ DOMAIN q = 1..Len(q)
         /\ Head(q) = q[1] /\ Head(q) \in S
         /\ Tail(q) \in Seq(S) /\ DOMAIN Tail(q) = 1..(Len(q) - 1)
         /\ \A i \in 1..(Len(q) - 1) : Tail(q)[i] = q[i + 1]
  OBVIOUS

LEMMA Behind ==
  ASSUME NEW S, NEW q \in Seq(S), NEW r \in Seq(S)
  PROVE  /\ q \o r \in Seq(S)
         /\ Len(q) \in Nat /\ Len(r) \in Nat
         /\ DOMAIN q = 1..Len(q) /\ DOMAIN r = 1..Len(r)
         /\ DOMAIN (q \o r) = 1..(Len(q) + Len(r))
         /\ \A i \in 1..Len(q) : (q \o r)[i] = q[i]
         /\ \A i \in 1..Len(r) : (q \o r)[Len(q) + i] = r[i]
  OBVIOUS

LEMMA MinOfTwo ==
  ASSUME NEW a \in Int, NEW b \in Int
  PROVE  Min({a, b}) = IF a <= b THEN a ELSE b
  BY DEF Min

\* What fits is a queue, and all of it where nothing is dropped.
LEMMA WhatFits ==
  ASSUME NEW S, NEW q \in Seq(S), NEW r \in Seq(S)
  PROVE  /\ Fits(q, r) \in Seq(S)
         /\ \A i \in DOMAIN Fits(q, r) : i \in DOMAIN r /\ Fits(q, r)[i] = r[i]
         /\ ~(Len(Fits(q, r)) < Len(r)) => Fits(q, r) = r
<1> DEFINE n == Min({Len(r), QueueLength - Len(q)})
<1>1. n \in Int /\ n <= Len(r)
  BY MinOfTwo, TimeoutAssumption
<1>2. Fits(q, r) = SubSeq(r, 1, n)
  BY DEF Fits
<1> HIDE DEF n
<1>3. CASE n < 1
  <2>1. SubSeq(r, 1, n) = <<>>
    BY <1>1, <1>3, SubSeqEmpty
  <2>2. <<>> \in Seq(S) /\ Len(<<>>) = 0 /\ DOMAIN <<>> = {}
    OBVIOUS
  <2>3. ~(0 < Len(r)) => r = <<>>
    BY EmptySeq
  <2> QED
    BY <1>2, <2>1, <2>2, <2>3
<1>4. CASE n >= 1
  <2>1. SubSeq(r, 1, n) \in Seq(S) /\ Len(SubSeq(r, 1, n)) = n
        /\ \A i \in 1..n : SubSeq(r, 1, n)[i] = r[i]
    BY <1>1, <1>4
  <2> QED
    BY <1>1, <1>2, <2>1
<1> QED
  BY <1>1, <1>3, <1>4

\* A burst nobody loses arrives whole.
LEMMA WholeBurst ==
  ASSUME NEW S, down \in [Devices -> Seq(S)], NEW burst \in [Devices -> Seq(S)],
         HostSends(burst)
  PROVE  /\ down' \in [Devices -> Seq(S)]
         /\ ~Dropped(burst) => \A e \in Devices : down'[e] = down[e] \o burst[e]
<1>1. \A e \in Devices : Fits(down[e], burst[e]) \in Seq(S)
                         /\ (~Dropped(burst) => Fits(down[e], burst[e]) = burst[e])
                         /\ \A i \in DOMAIN Fits(down[e], burst[e]) :
                              i \in DOMAIN burst[e] /\ Fits(down[e], burst[e])[i] = burst[e][i]
  BY WhatFits DEF Dropped
<1>2. \A e \in Devices : down'[e] = down[e] \o Fits(down[e], burst[e])
  BY DEF HostSends
<1>3. ASSUME NEW e \in Devices PROVE down'[e] \in Seq(S)
  <2>1. PICK q, r : q = down[e] /\ r = Fits(down[e], burst[e])
    OBVIOUS
  <2>2. q \in Seq(S) /\ r \in Seq(S) /\ down'[e] = q \o r
    BY <1>1, <1>2, <2>1
  <2>3. q \o r \in Seq(S)
    BY <2>2
  <2> QED
    BY <2>2, <2>3
<1> QED
  BY <1>1, <1>2, <1>3 DEF HostSends

\* What is in a queue afterwards was there or is of the burst.
LEMMA WhereFrom ==
  ASSUME NEW S, NEW q \in Seq(S), NEW b \in Seq(S), NEW i \in DOMAIN (q \o Fits(q, b))
  PROVE  \/ \E j \in DOMAIN q : (q \o Fits(q, b))[i] = q[j]
         \/ \E j \in DOMAIN b : (q \o Fits(q, b))[i] = b[j]
<1>1. PICK r : r = Fits(q, b)
  OBVIOUS
<1>2. r \in Seq(S) /\ \A k \in DOMAIN r : k \in DOMAIN b /\ r[k] = b[k]
  BY <1>1, WhatFits
<1>3. /\ DOMAIN q = 1..Len(q) /\ DOMAIN r = 1..Len(r) /\ Len(q) \in Nat /\ Len(r) \in Nat
      /\ DOMAIN (q \o r) = 1..(Len(q) + Len(r))
      /\ \A k \in 1..Len(q) : (q \o r)[k] = q[k]
      /\ \A k \in 1..Len(r) : (q \o r)[Len(q) + k] = r[k]
  BY <1>2, Behind
<1>4. i \in DOMAIN (q \o r)
  BY <1>1
<1>5. CASE i \in 1..Len(q)
  BY <1>1, <1>3, <1>5
<1>6. CASE i \notin 1..Len(q)
  <2>1. i - Len(q) \in 1..Len(r) /\ i = Len(q) + (i - Len(q))
    BY <1>3, <1>4, <1>6
  <2>2. (q \o r)[i] = r[i - Len(q)]
    BY <1>3, <2>1
  <2> QED
    BY <1>1, <1>2, <1>3, <2>1, <2>2
<1> QED
  BY <1>5, <1>6

-----------------------------------------------------------------------------
(* What a queue says of a seat *)

Says(s, f, p) == f.session = s /\ f.type \in {"JOINED", "LEFT"} /\ f.player = p

IsLive(s, f, types) == f.session = s /\ f.type \in types

\* Once q is heard from behind place i on, x is known to sit in seat p; old is
\* what was known before.
Tells(s, q, i, p, old, x) ==
  \/ \E j \in DOMAIN q : /\ j > i /\ Says(s, q[j], p) /\ q[j].device = x
                         /\ \A k \in DOMAIN q : k > j => ~Says(s, q[k], p)
  \/ /\ \A j \in DOMAIN q : j > i => ~Says(s, q[j], p)
     /\ x = old

LEMMA TellsNothing ==
  ASSUME NEW s, NEW p, NEW old, NEW x, Tells(s, <<>>, 0, p, old, x)
  PROVE  x = old
  BY DEF Tells

LEMMA TellsRest ==
  ASSUME NEW S, NEW q \in Seq(S), q # <<>>, NEW s, NEW p, NEW old, NEW x, NEW i \in Nat,
         Tells(s, q, i, p, old, x)
  PROVE  /\ i > 0 => Tells(s, Tail(q), i - 1, p, old, x)
         /\ i = 0 => Tells(s, Tail(q), 0, p, IF Says(s, Head(q), p) THEN Head(q).device ELSE old, x)
<1>1. /\ Len(q) \in Nat \ {0} /\ DOMAIN q = 1..Len(q) /\ Head(q) = q[1]
      /\ DOMAIN Tail(q) = 1..(Len(q) - 1)
      /\ \A j \in 1..(Len(q) - 1) : Tail(q)[j] = q[j + 1]
  BY Rest
<1> DEFINE n == Len(q)
           t == Tail(q)
<1> HIDE DEF n, t
<1>2. /\ n \in Nat \ {0} /\ DOMAIN q = 1..n /\ DOMAIN t = 1..(n - 1)
      /\ \A j \in 1..(n - 1) : t[j] = q[j + 1]
  BY <1>1 DEF n, t
<1>3. ASSUME NEW j \in 1..n, j > i, Says(s, q[j], p), q[j].device = x, j > 1,
             \A k \in 1..n : k > j => ~Says(s, q[k], p)
      PROVE  \E l \in 1..(n - 1) : /\ l > i - 1 /\ Says(s, t[l], p) /\ t[l].device = x
                                   /\ \A k \in 1..(n - 1) : k > l => ~Says(s, t[k], p)
  <2>1. j - 1 \in 1..(n - 1) /\ j - 1 > i - 1 /\ t[j - 1] = q[j]
    BY <1>2, <1>3
  <2>2. \A k \in 1..(n - 1) : k > j - 1 => k + 1 \in 1..n /\ k + 1 > j /\ t[k] = q[k + 1]
    BY <1>2, <1>3
  <2> QED
    BY <1>3, <2>1, <2>2
<1>4. ASSUME \A j \in 1..n : j > i => ~Says(s, q[j], p)
      PROVE  \A l \in 1..(n - 1) : l > i - 1 => ~Says(s, t[l], p)
  <2>1. \A l \in 1..(n - 1) : l > i - 1 => l + 1 \in 1..n /\ l + 1 > i /\ t[l] = q[l + 1]
    BY <1>2
  <2> QED
    BY <1>4, <2>1
<1>5. ASSUME i > 0 PROVE Tells(s, t, i - 1, p, old, x)
  <2>1. CASE \E j \in DOMAIN q : /\ j > i /\ Says(s, q[j], p) /\ q[j].device = x
                                 /\ \A k \in DOMAIN q : k > j => ~Says(s, q[k], p)
    <3>1. PICK j \in 1..n : /\ j > i /\ Says(s, q[j], p) /\ q[j].device = x
                            /\ \A k \in 1..n : k > j => ~Says(s, q[k], p)
      BY <1>2, <2>1
    <3>2. j > 1
      BY <1>5, <3>1
    <3> QED
      BY <1>2, <1>3, <3>1, <3>2 DEF Tells
  <2>2. CASE (\A j \in DOMAIN q : j > i => ~Says(s, q[j], p)) /\ x = old
    BY <1>2, <1>4, <2>2 DEF Tells
  <2> QED
    BY <2>1, <2>2 DEF Tells
<1>6. ASSUME i = 0
      PROVE  Tells(s, t, 0, p, IF Says(s, q[1], p) THEN q[1].device ELSE old, x)
  <2>1. CASE \E j \in DOMAIN q : /\ j > i /\ Says(s, q[j], p) /\ q[j].device = x
                                 /\ \A k \in DOMAIN q : k > j => ~Says(s, q[k], p)
    <3>1. PICK j \in 1..n : /\ j > i /\ Says(s, q[j], p) /\ q[j].device = x
                            /\ \A k \in 1..n : k > j => ~Says(s, q[k], p)
      BY <1>2, <2>1
    <3>2. CASE j > 1
      <4>1. PICK l \in 1..(n - 1) : /\ l > i - 1 /\ Says(s, t[l], p) /\ t[l].device = x
                                    /\ \A k \in 1..(n - 1) : k > l => ~Says(s, t[k], p)
        BY <1>3, <3>1, <3>2
      <4>2. l > 0
        OBVIOUS
      <4> QED
        BY <1>2, <4>1, <4>2 DEF Tells
    <3>3. CASE j = 1
      <4>1. \A l \in 1..(n - 1) : l + 1 \in 1..n /\ l + 1 > j /\ t[l] = q[l + 1]
        BY <1>2, <3>3
      <4>2. \A l \in DOMAIN t : ~Says(s, t[l], p)
        BY <1>2, <3>1, <4>1
      <4> QED
        BY <3>1, <3>3, <4>2 DEF Tells
    <3> QED
      BY <3>1, <3>2, <3>3
  <2>2. CASE (\A j \in DOMAIN q : j > i => ~Says(s, q[j], p)) /\ x = old
    <3>1. ~Says(s, q[1], p)
      BY <1>2, <1>6, <2>2
    <3>2. \A l \in DOMAIN t : ~Says(s, t[l], p)
      BY <1>2, <1>4, <1>6, <2>2
    <3> QED
      BY <2>2, <3>1, <3>2 DEF Tells
  <2> QED
    BY <2>1, <2>2 DEF Tells
<1> QED
  BY <1>1, <1>5, <1>6 DEF t

LEMMA TellsStill ==
  ASSUME NEW S, NEW q \in Seq(S), NEW r \in Seq(S), NEW s, NEW p, NEW old, NEW x, NEW i \in Nat,
         Tells(s, q, i, p, old, x), \A k \in DOMAIN r : ~Says(s, r[k], p)
  PROVE  Tells(s, q \o r, i, p, old, x)
<1> DEFINE n == Len(q)
           m == Len(r)
           w == q \o r
<1>1. /\ n \in Nat /\ m \in Nat /\ DOMAIN q = 1..n /\ DOMAIN r = 1..m /\ DOMAIN w = 1..(n + m)
      /\ \A k \in 1..n : w[k] = q[k]
      /\ \A k \in 1..m : w[n + k] = r[k]
  BY Behind
<1> HIDE DEF n, m, w
<1>2. ASSUME NEW k \in 1..(n + m), k > n PROVE ~Says(s, w[k], p)
  <2>1. k - n \in 1..m /\ n + (k - n) = k
    BY <1>1, <1>2
  <2>2. w[k] = r[k - n]
    BY <1>1, <2>1
  <2> QED
    BY <1>1, <2>1, <2>2
<1>3. CASE \E j \in DOMAIN q : /\ j > i /\ Says(s, q[j], p) /\ q[j].device = x
                               /\ \A k \in DOMAIN q : k > j => ~Says(s, q[k], p)
  <2>1. PICK j \in 1..n : /\ j > i /\ Says(s, q[j], p) /\ q[j].device = x
                          /\ \A k \in 1..n : k > j => ~Says(s, q[k], p)
    BY <1>1, <1>3
  <2>2. j \in 1..(n + m) /\ w[j] = q[j]
    BY <1>1
  <2>3. ASSUME NEW k \in 1..(n + m), k > j PROVE ~Says(s, w[k], p)
    <3>1. CASE k > n
      BY <1>2, <3>1
    <3>2. CASE ~(k > n)
      <4>1. k \in 1..n
        BY <1>1, <3>2
      <4> QED
        BY <1>1, <2>1, <2>3, <4>1
    <3> QED
      BY <3>1, <3>2
  <2> QED
    BY <1>1, <2>1, <2>2, <2>3 DEF Tells, w
<1>4. CASE (\A j \in DOMAIN q : j > i => ~Says(s, q[j], p)) /\ x = old
  <2>1. ASSUME NEW k \in 1..(n + m), k > i PROVE ~Says(s, w[k], p)
    <3>1. CASE k > n
      BY <1>2, <3>1
    <3>2. CASE ~(k > n)
      <4>1. k \in 1..n
        BY <1>1, <3>2
      <4> QED
        BY <1>1, <1>4, <2>1, <4>1
    <3> QED
      BY <3>1, <3>2
  <2> QED
    BY <1>1, <1>4, <2>1 DEF Tells, w
<1> QED
  BY <1>3, <1>4 DEF Tells

LEMMA TellsNew ==
  ASSUME NEW S, NEW q \in Seq(S), NEW f \in S, NEW s, NEW p, NEW old, NEW i \in 0..Len(q),
         Says(s, f, p)
  PROVE  Tells(s, q \o <<f>>, i, p, old, f.device)
<1> DEFINE n == Len(q)
           w == q \o <<f>>
<1>1. n \in Nat /\ DOMAIN w = 1..(n + 1) /\ w[n + 1] = f
  OBVIOUS
<1> HIDE DEF w
<1>2. n + 1 \in DOMAIN w /\ n + 1 > i /\ \A k \in DOMAIN w : ~(k > n + 1)
  BY <1>1
<1> QED
  BY <1>1, <1>2 DEF Tells, w

-----------------------------------------------------------------------------
(* The inductive invariant *)

Modes == {"INACTIVE", "JOINING", "CLIENT"}
Frames(n) == [type : FrameTypes, session : 0..n, from : Players, player : Players,
              device : Devices \cup {NoDevice, HostDevice}]

TypeOK ==
  /\ lastSession \in Nat
  /\ session \in 0..lastSession
  /\ seat \in [Seats -> Devices \cup {NoDevice}]
  /\ silence \in [Seats -> Nat]
  /\ mode \in [Devices -> Modes]
  /\ joined \in [Devices -> 0..lastSession]
  /\ mySeat \in [Devices -> Players]
  /\ roster \in [Devices -> [Players -> Devices \cup {NoDevice, HostDevice}]]
  /\ patience \in [Devices -> Nat]
  /\ up \in [Devices -> Seq(Frames(lastSession))]
  /\ down \in [Devices -> Seq(Frames(lastSession))]
  /\ prompt \in BOOLEAN

\* No frame of these types of the session that is hosted is in q.
NoneOf(q, types) == \A i \in DOMAIN q : ~IsLive(session, q[i], types)

\* The one frame of these types is at place i.
OnlyAt(q, i, types) == \A j \in DOMAIN q : j # i => ~IsLive(session, q[j], types)

\* Wherever the host has d seated, d has said good-bye: at a place below i.
SaysGoodBye(d, i) ==
  \A p \in Seats : seat[p] = d =>
    \E j \in DOMAIN up[d] : j < i /\ IsLive(session, up[d][j], {"LEFT"}) /\ up[d][j].from = p

Joining(d) == mode[d] = "JOINING" /\ joined[d] = session /\ patience[d] = 0

\* A member of the host's session.  A heartbeat that is due is under way.
Member(d) ==
  /\ mode[d] = "CLIENT" /\ joined[d] = session
  /\ mySeat[d] \in Seats /\ seat[mySeat[d]] = d
  /\ NoneOf(up[d], {"REQUEST", "LEFT"})
  /\ NoneOf(down[d], {"ACCEPT", "REJECT"})
  /\ \A p \in Seats \ {mySeat[d]} : Tells(session, down[d], 0, p, roster[d][p], seat[p])
  /\ \/ silence[mySeat[d]] = 0
     \/ /\ silence[mySeat[d]] = 1
        /\ \E i \in DOMAIN up[d] : IsLive(session, up[d][i], {"HEARTBEAT"})
                                   /\ up[d][i].from = mySeat[d]
  /\ \/ patience[d] = 0
     \/ patience[d] = 1 /\ \E i \in DOMAIN down[d] : IsLive(session, down[d][i], {"HEARTBEAT"})

\* The host is still to hear it ask, and before that that it has left.
Asking(d) ==
  /\ Joining(d)
  /\ \E i \in DOMAIN up[d] :
       /\ IsLive(session, up[d][i], {"REQUEST"})
       /\ OnlyAt(up[d], i, {"REQUEST"})
       /\ \A j \in DOMAIN up[d] : j > i => ~IsLive(session, up[d][j], {"LEFT"})
       /\ SaysGoodBye(d, i)
  /\ NoneOf(down[d], {"ACCEPT", "REJECT"})

\* The host has seated it; it is still to hear so, and then of everybody else.
Accepted(d) ==
  /\ Joining(d)
  /\ NoneOf(up[d], {"REQUEST", "LEFT"})
  /\ \E i \in DOMAIN down[d] :
       /\ IsLive(session, down[d][i], {"ACCEPT"})
       /\ OnlyAt(down[d], i, {"ACCEPT", "REJECT"})
       /\ down[d][i].player \in Seats
       /\ seat[down[d][i].player] = d /\ silence[down[d][i].player] = 0
       /\ \A p \in Seats \ {down[d][i].player} : Tells(session, down[d], i, p, NoDevice, seat[p])

Refused(d) ==
  /\ Joining(d)
  /\ NoneOf(up[d], {"REQUEST", "LEFT"})
  /\ \E i \in DOMAIN down[d] : /\ IsLive(session, down[d][i], {"REJECT"})
                               /\ OnlyAt(down[d], i, {"ACCEPT", "REJECT"})
  /\ \A p \in Seats : seat[p] # d

\* It is nothing to the host, or the host will hear that it has left.
Away(d) ==
  /\ mode[d] = "INACTIVE" \/ joined[d] # session
  /\ NoneOf(up[d], {"REQUEST"})
  /\ NoneOf(down[d], {"ACCEPT", "REJECT"})
  /\ SaysGoodBye(d, Len(up[d]) + 1)

Ordered(d) == Member(d) \/ Asking(d) \/ Accepted(d) \/ Refused(d) \/ Away(d)

OneSeat == \A p, q \in Seats : seat[p] # NoDevice /\ seat[p] = seat[q] => p = q

\* A good-bye names nobody who would stay, and the host only when its session
\* is over.
Farewell(s, f) ==
  f.type = "LEFT" => f.device = NoDevice /\ (f.session = s /\ s # 0 => f.player # 0)

\* Whoever is joining or has joined knows where; nobody is seated without a
\* session.
Consistent ==
  /\ \A d \in Devices : mode[d] # "INACTIVE" => joined[d] # 0
  /\ session = 0 => \A p \in Seats : seat[p] = NoDevice
  /\ \A d \in Devices : \A i \in DOMAIN down[d] : Farewell(session, down[d][i])

SInv ==
  /\ TypeOK
  /\ OneSeat
  /\ Consistent
  /\ prompt /\ session # 0 => \A d \in Devices : Ordered(d)

-----------------------------------------------------------------------------
(* What the properties say follows from the invariant *)

LEMMA SeatNumbers == Seats \subseteq Players /\ 0 \in Players /\ 0 \notin Seats
  BY PlayersAssumption DEF Seats, Players

LEMMA ExactFollows == SInv => SeatsExact
<1> SUFFICES ASSUME SInv PROVE OneSeatPerDevice /\ RosterExactWhenPrompt
  BY DEF SeatsExact
<1>1. OneSeatPerDevice
  <2> SUFFICES ASSUME NEW d \in Devices PROVE Cardinality(InSeat(d)) <= 1
    BY DEF OneSeatPerDevice
  <2>1. CASE InSeat(d) = {}
    BY <2>1, FS_EmptySet
  <2>2. CASE InSeat(d) # {}
    <3>1. PICK p \in InSeat(d) : TRUE
      BY <2>2
    <3>2. InSeat(d) = {p}
      BY <3>1, DevicesAssumption DEF SInv, OneSeat, InSeat
    <3> QED
      BY <3>2, FS_Singleton
  <2> QED
    BY <2>1, <2>2
<1>2. RosterExactWhenPrompt
  <2> SUFFICES ASSUME NEW d \in Devices, NEW p \in Seats \ {mySeat[d]}, prompt,
                      mode[d] = "CLIENT", down[d] = <<>>, joined[d] = session
               PROVE  roster[d][p] = seat[p]
    BY DEF RosterExactWhenPrompt
  <2>1. session # 0
    BY DEF SInv, Consistent
  <2>2. Member(d)
    BY <2>1 DEF SInv, Ordered, Asking, Accepted, Refused, Away, Joining
  <2> QED
    BY <2>2, TellsNothing DEF Member
<1> QED
  BY <1>1, <1>2

-----------------------------------------------------------------------------
(* What a step of somebody else leaves of a device's situation *)

SameClient(d) ==
  /\ mode'[d] = mode[d] /\ joined'[d] = joined[d] /\ mySeat'[d] = mySeat[d]
  /\ roster'[d] = roster[d] /\ patience'[d] = patience[d]

LEMMA StandsBy ==
  ASSUME NEW d \in Devices, Ordered(d), SameClient(d), session' = session, seat' = seat,
         \A p \in Seats : seat[p] = d => silence'[p] = silence[p],
         up'[d] = up[d], down'[d] = down[d]
  PROVE  Ordered(d)'
<1>1. CASE Member(d)
  <2>1. Member(d)'
    BY <1>1 DEF Member, SameClient, NoneOf
  <2> QED
    BY <2>1 DEF Ordered
<1>2. CASE Asking(d)
  <2>1. Asking(d)'
    BY <1>2 DEF Asking, Joining, SameClient, NoneOf, OnlyAt, SaysGoodBye
  <2> QED
    BY <2>1 DEF Ordered
<1>3. CASE Accepted(d)
  <2>1. Accepted(d)'
    BY <1>3 DEF Accepted, Joining, SameClient, NoneOf, OnlyAt
  <2> QED
    BY <2>1 DEF Ordered
<1>4. CASE Refused(d)
  <2>1. Refused(d)'
    BY <1>4 DEF Refused, Joining, SameClient, NoneOf, OnlyAt
  <2> QED
    BY <2>1 DEF Ordered
<1>5. CASE Away(d)
  <2>1. Away(d)'
    BY <1>5 DEF Away, SameClient, NoneOf, SaysGoodBye
  <2> QED
    BY <2>1 DEF Ordered
<1> QED
  BY <1>1, <1>2, <1>3, <1>4, <1>5 DEF Ordered

\* A frame behind the others that answers nobody's request.
LEMMA OneMoreFrame ==
  ASSUME NEW S, NEW q \in Seq(S), NEW f \in S, NEW types, NEW w, w = q \o <<f>>,
         ~IsLive(session, f, types)
  PROVE  /\ DOMAIN q = 1..Len(q) /\ Len(q) \in Nat /\ DOMAIN w = 1..(Len(q) + 1)
         /\ \A i \in DOMAIN q : i \in DOMAIN w /\ w[i] = q[i]
         /\ NoneOf(q, types) => NoneOf(w, types)
         /\ \A i \in DOMAIN q : OnlyAt(q, i, types) => OnlyAt(w, i, types)
<1>1. /\ DOMAIN q = 1..Len(q) /\ Len(q) \in Nat /\ DOMAIN w = 1..(Len(q) + 1)
      /\ \A i \in DOMAIN q : i \in DOMAIN w /\ w[i] = q[i]
      /\ w[Len(q) + 1] = f
  BY Behind
<1>2. \A i \in DOMAIN w : i \in DOMAIN q \/ i = Len(q) + 1
  BY <1>1
<1> QED
  BY <1>1, <1>2 DEF NoneOf, OnlyAt

\* The seat of somebody else is given or taken, and the members told of it.
LEMMA Bystander ==
  ASSUME TypeOK, NEW d \in Devices, Ordered(d), SameClient(d), session' = session,
         up'[d] = up[d],
         NEW p \in Seats, NEW x \in Devices \cup {NoDevice}, x # d, seat[p] # d,
         seat' = [seat EXCEPT ![p] = x],
         \A r \in Seats \ {p} : silence'[r] = silence[r],
         NEW f \in Frames(lastSession), Says(session, f, p), f.device = x,
         (\E r \in Seats \ {p} : seat[r] = d) => down'[d] = down[d] \o <<f>>,
         ~(\E r \in Seats \ {p} : seat[r] = d) => down'[d] = down[d]
  PROVE  Ordered(d)'
<1>1. /\ \A r \in Seats : seat'[r] = d <=> seat[r] = d
      /\ \A r \in Seats \ {p} : seat'[r] = seat[r]
      /\ \A r \in Seats : seat[r] = d => silence'[r] = silence[r]
      /\ seat'[p] = x
  BY DEF TypeOK
<1>2. down[d] \in Seq(Frames(lastSession))
  BY DEF TypeOK
<1> DEFINE answers == {"ACCEPT", "REJECT"}
<1>3. ~IsLive(session, f, answers)
  BY DEF Says, IsLive
<1> HIDE DEF answers
<1>4. /\ DOMAIN down[d] = 1..Len(down[d]) /\ Len(down[d]) \in Nat
      /\ \A i \in DOMAIN down[d] : i \in DOMAIN down'[d] /\ down'[d][i] = down[d][i]
      /\ NoneOf(down[d], answers) => NoneOf(down'[d], answers)
      /\ \A i \in DOMAIN down[d] : OnlyAt(down[d], i, answers) => OnlyAt(down'[d], i, answers)
  <2>1. CASE \E r \in Seats \ {p} : seat[r] = d
    <3>1. down'[d] = down[d] \o <<f>>
      BY <2>1
    <3>2. PICK w : w = down'[d]
      OBVIOUS
    <3>3. w = down[d] \o <<f>>
      BY <3>1, <3>2
    <3>4. /\ DOMAIN down[d] = 1..Len(down[d]) /\ Len(down[d]) \in Nat
          /\ \A i \in DOMAIN down[d] : i \in DOMAIN w /\ w[i] = down[d][i]
          /\ NoneOf(down[d], answers) => NoneOf(w, answers)
          /\ \A i \in DOMAIN down[d] : OnlyAt(down[d], i, answers) => OnlyAt(w, i, answers)
      <4>1. PICK S, q : S = Frames(lastSession) /\ q = down[d]
        OBVIOUS
      <4>2. q \in Seq(S) /\ f \in S /\ w = q \o <<f>>
        BY <1>2, <3>3, <4>1
      <4>3. /\ DOMAIN q = 1..Len(q) /\ Len(q) \in Nat /\ DOMAIN w = 1..(Len(q) + 1)
            /\ \A i \in DOMAIN q : i \in DOMAIN w /\ w[i] = q[i]
            /\ NoneOf(q, answers) => NoneOf(w, answers)
            /\ \A i \in DOMAIN q : OnlyAt(q, i, answers) => OnlyAt(w, i, answers)
        <5>1. DOMAIN q = 1..Len(q)
          BY <1>3, <4>2, OneMoreFrame
        <5>2. NoneOf(q, answers) => NoneOf(w, answers)
          BY <1>3, <4>2, OneMoreFrame
        <5>3. \A i \in DOMAIN q : OnlyAt(q, i, answers) => OnlyAt(w, i, answers)
          BY <1>3, <4>2, OneMoreFrame
        <5>4. \A i \in DOMAIN q : i \in DOMAIN w /\ w[i] = q[i]
          BY <1>3, <4>2, OneMoreFrame
        <5> QED
          BY <5>1, <5>2, <5>3, <5>4, <4>2, OneMoreFrame, <1>3
      <4> QED
        BY <4>1, <4>3
    <3> QED
      BY <3>2, <3>4
  <2>2. CASE ~(\E r \in Seats \ {p} : seat[r] = d)
    <3>1. down'[d] = down[d]
      BY <2>2
    <3> QED
      BY <1>2, <3>1
  <2> QED
    BY <2>1, <2>2
<1>5. ASSUME NEW i \in 0..Len(down[d]), NEW r \in Seats, NEW old,
             Tells(session, down[d], i, r, old, seat[r]), \E t \in Seats : seat[t] = d
      PROVE  Tells(session, down'[d], i, r, old, seat'[r])
  <2>1. down'[d] = down[d] \o <<f>>
    BY <1>5
  <2>2. CASE r = p
    <3>1. Tells(session, down[d] \o <<f>>, i, p, old, f.device)
      BY <1>2, TellsNew
    <3> QED
      BY <1>1, <2>1, <2>2, <3>1
  <2>3. CASE r # p
    <3>1. <<f>> \in Seq(Frames(lastSession)) /\ \A k \in DOMAIN <<f>> : ~Says(session, <<f>>[k], r)
      BY <2>3 DEF Says
    <3>2. i \in Nat
      BY <1>4
    <3>3. Tells(session, down[d] \o <<f>>, i, r, old, seat[r])
      BY <1>2, <1>5, <3>1, <3>2, TellsStill
    <3> QED
      BY <1>1, <2>1, <2>3, <3>3
  <2> QED
    BY <2>2, <2>3
<1>6. CASE Member(d)
  <2>1. 0 \in 0..Len(down[d]) /\ mySeat[d] \in Seats /\ seat[mySeat[d]] = d
    BY <1>4, <1>6 DEF Member
  <2>2. \A r \in Seats \ {mySeat[d]} : Tells(session, down[d], 0, r, roster[d][r], seat[r])
    BY <1>6 DEF Member
  <2>3. \A r \in Seats \ {mySeat[d]} : Tells(session, down'[d], 0, r, roster'[d][r], seat'[r])
    BY <1>5, <2>1, <2>2 DEF SameClient
  <2>4. NoneOf(down'[d], answers)
    BY <1>4, <1>6 DEF Member, answers
  <2>5. \/ patience'[d] = 0
        \/ /\ patience'[d] = 1
           /\ \E i \in DOMAIN down'[d] : IsLive(session, down'[d][i], {"HEARTBEAT"})
    BY <1>4, <1>6 DEF Member, SameClient
  <2>6. Member(d)'
    BY <1>1, <1>6, <2>3, <2>4, <2>5 DEF Member, SameClient, NoneOf, answers
  <2> QED
    BY <2>6 DEF Ordered
<1>7. CASE Asking(d)
  <2>1. NoneOf(down'[d], answers)
    BY <1>4, <1>7 DEF Asking, answers
  <2>2. Asking(d)'
    BY <1>1, <1>7, <2>1 DEF Asking, Joining, SameClient, NoneOf, OnlyAt, SaysGoodBye, answers
  <2> QED
    BY <2>2 DEF Ordered
<1>8. CASE Accepted(d)
  <2>1. PICK i \in DOMAIN down[d] :
          /\ IsLive(session, down[d][i], {"ACCEPT"})
          /\ OnlyAt(down[d], i, answers)
          /\ down[d][i].player \in Seats
          /\ seat[down[d][i].player] = d /\ silence[down[d][i].player] = 0
          /\ \A r \in Seats \ {down[d][i].player} : Tells(session, down[d], i, r, NoDevice, seat[r])
    BY <1>8 DEF Accepted, answers
  <2>2. i \in DOMAIN down'[d] /\ down'[d][i] = down[d][i] /\ OnlyAt(down'[d], i, answers)
        /\ i \in 0..Len(down[d])
    BY <1>4, <2>1
  <2>3. \A r \in Seats \ {down[d][i].player} : Tells(session, down'[d], i, r, NoDevice, seat'[r])
    BY <1>5, <2>1, <2>2
  <2>4. /\ OnlyAt(down[d], i, answers)'
        /\ seat'[down'[d][i].player] = d /\ silence'[down'[d][i].player] = 0
        /\ \A r \in Seats \ {down'[d][i].player} : Tells(session', down'[d], i, r, NoDevice, seat'[r])
    BY <1>1, <2>1, <2>2, <2>3 DEF OnlyAt
  <2>5. Joining(d)' /\ NoneOf(up[d], {"REQUEST", "LEFT"})'
    BY <1>8 DEF Accepted, Joining, SameClient, NoneOf
  <2>6. Accepted(d)'
    BY <2>1, <2>2, <2>4, <2>5 DEF Accepted, answers
  <2> QED
    BY <2>6 DEF Ordered
<1>9. CASE Refused(d)
  <2>1. PICK i \in DOMAIN down[d] : IsLive(session, down[d][i], {"REJECT"}) /\ OnlyAt(down[d], i, answers)
    BY <1>9 DEF Refused, answers
  <2>2. i \in DOMAIN down'[d] /\ down'[d][i] = down[d][i] /\ OnlyAt(down'[d], i, answers)
    BY <1>4, <2>1
  <2>3. Refused(d)'
    BY <1>1, <1>9, <2>1, <2>2 DEF Refused, Joining, SameClient, NoneOf, OnlyAt, answers
  <2> QED
    BY <2>3 DEF Ordered
<1>10. CASE Away(d)
  <2>1. NoneOf(down'[d], answers)
    BY <1>4, <1>10 DEF Away, answers
  <2>2. Away(d)'
    BY <1>1, <1>10, <2>1 DEF Away, SameClient, NoneOf, SaysGoodBye, answers
  <2> QED
    BY <2>2 DEF Ordered
<1> QED
  BY <1>6, <1>7, <1>8, <1>9, <1>10 DEF Ordered

-----------------------------------------------------------------------------
(* What the host hears *)

\* What is said in the rest of a queue is said in the queue.
LEMMA NoneOfRest ==
  ASSUME NEW S, NEW q \in Seq(S), q # <<>>, NEW types, NoneOf(q, types)
  PROVE  NoneOf(Tail(q), types) /\ ~IsLive(session, Head(q), types)
<1>1. /\ Len(q) \in Nat \ {0} /\ DOMAIN q = 1..Len(q) /\ Head(q) = q[1]
      /\ DOMAIN Tail(q) = 1..(Len(q) - 1)
      /\ \A i \in 1..(Len(q) - 1) : Tail(q)[i] = q[i + 1]
  BY Rest
<1>2. \A i \in 1..(Len(q) - 1) : i + 1 \in 1..Len(q)
  BY <1>1
<1> QED
  BY <1>1, <1>2 DEF NoneOf

\* The first frame of a queue is another, then the one at i moves up.
LEMMA MovesUp ==
  ASSUME NEW S, NEW q \in Seq(S), q # <<>>, NEW i \in DOMAIN q, i # 1
  PROVE  /\ i - 1 \in DOMAIN Tail(q) /\ Tail(q)[i - 1] = q[i] /\ i - 1 \in Nat
         /\ i \in Nat /\ i > 0
         /\ \A types : OnlyAt(q, i, types) => OnlyAt(Tail(q), i - 1, types)
         /\ \A j \in DOMAIN Tail(q) : /\ j \in Nat /\ j + 1 \in DOMAIN q
                                      /\ Tail(q)[j] = q[j + 1]
<1>1. /\ Len(q) \in Nat \ {0} /\ DOMAIN q = 1..Len(q)
      /\ DOMAIN Tail(q) = 1..(Len(q) - 1)
      /\ \A j \in 1..(Len(q) - 1) : Tail(q)[j] = q[j + 1]
  BY Rest
<1>2. i - 1 \in 1..(Len(q) - 1) /\ i - 1 + 1 = i
  BY <1>1
<1>3. \A j \in 1..(Len(q) - 1) : j \in Nat /\ j + 1 \in 1..Len(q) /\ (j # i - 1 => j + 1 # i)
  BY <1>1, <1>2
<1>4. \A types : OnlyAt(q, i, types) => OnlyAt(Tail(q), i - 1, types)
  BY <1>1, <1>2, <1>3 DEF OnlyAt
<1> QED
  BY <1>1, <1>2, <1>3, <1>4

\* The host takes a frame of a device that is no request; if it is a good-bye
\* of the session, the device is in the seat it names no longer.
LEMMA HostReads ==
  ASSUME TypeOK, NEW d \in Devices, Ordered(d), SameClient(d), session' = session,
         up[d] # <<>>, up'[d] = Tail(up[d]), down'[d] = down[d],
         ~IsLive(session, Head(up[d]), {"REQUEST"}),
         IsLive(session, Head(up[d]), {"LEFT"}) \/ seat' = seat,
         \A p \in Seats : seat'[p] = d =>
           seat[p] = d /\ ~(IsLive(session, Head(up[d]), {"LEFT"}) /\ Head(up[d]).from = p),
         \A p \in Seats : seat'[p] = d =>
           IF IsLive(session, Head(up[d]), {"HEARTBEAT"}) /\ Head(up[d]).from = p
             THEN silence'[p] = 0 ELSE silence'[p] = silence[p]
  PROVE  Ordered(d)'
<1> DEFINE q == up[d]
           S == Frames(lastSession)
<1>1. q \in Seq(S) /\ q # <<>>
  BY DEF TypeOK
<1>2. up'[d] = Tail(q) /\ SameClient(d) /\ down'[d] = down[d]
  OBVIOUS
<1> HIDE DEF q, S
<1>3. /\ Len(q) \in Nat \ {0} /\ DOMAIN q = 1..Len(q) /\ Head(q) = q[1]
      /\ DOMAIN Tail(q) = 1..(Len(q) - 1)
      /\ \A i \in 1..(Len(q) - 1) : Tail(q)[i] = q[i + 1]
  BY <1>1, Rest
<1>4. \A types : NoneOf(q, types) => NoneOf(Tail(q), types) /\ ~IsLive(session, Head(q), types)
  BY <1>1, NoneOfRest
<1>5. ASSUME NEW i \in DOMAIN q, i # 1
      PROVE  /\ i - 1 \in DOMAIN Tail(q) /\ Tail(q)[i - 1] = q[i] /\ i - 1 \in Nat
             /\ i \in Nat /\ i > 0
             /\ \A types : OnlyAt(q, i, types) => OnlyAt(Tail(q), i - 1, types)
             /\ \A j \in DOMAIN Tail(q) : /\ j \in Nat /\ j + 1 \in DOMAIN q
                                          /\ Tail(q)[j] = q[j + 1]
  BY <1>1, <1>5, MovesUp
<1>6. ASSUME NoneOf(q, {"REQUEST", "LEFT"})
      PROVE  /\ seat' = seat /\ NoneOf(Tail(q), {"REQUEST", "LEFT"})
             /\ NoneOf(up[d], {"REQUEST", "LEFT"})'
  <2>1. NoneOf(Tail(q), {"REQUEST", "LEFT"}) /\ ~IsLive(session, Head(q), {"LEFT"})
    BY <1>4, <1>6 DEF IsLive
  <2> QED
    BY <1>2, <2>1 DEF NoneOf, q
<1>7. CASE Member(d)
  <2>1. seat' = seat /\ NoneOf(up[d], {"REQUEST", "LEFT"})'
    BY <1>6, <1>7 DEF Member, q
  <2>2. NoneOf(down[d], {"ACCEPT", "REJECT"})'
    BY <1>2, <1>7 DEF Member, NoneOf
  <2>3. \/ silence'[mySeat[d]] = 0
        \/ /\ silence'[mySeat[d]] = 1
           /\ \E i \in DOMAIN Tail(q) : IsLive(session, Tail(q)[i], {"HEARTBEAT"})
                                        /\ Tail(q)[i].from = mySeat[d]
    <3>1. mySeat[d] \in Seats /\ seat[mySeat[d]] = d /\ seat'[mySeat[d]] = d
      BY <1>7, <2>1 DEF Member
    <3>2. CASE IsLive(session, Head(q), {"HEARTBEAT"}) /\ Head(q).from = mySeat[d]
      BY <3>1, <3>2 DEF q
    <3>3. CASE ~(IsLive(session, Head(q), {"HEARTBEAT"}) /\ Head(q).from = mySeat[d])
      <4>1. silence'[mySeat[d]] = silence[mySeat[d]]
        BY <3>1, <3>3 DEF q
      <4>2. CASE silence[mySeat[d]] # 0
        <5>1. silence[mySeat[d]] = 1
              /\ \E i \in DOMAIN q : IsLive(session, q[i], {"HEARTBEAT"}) /\ q[i].from = mySeat[d]
          BY <1>7, <4>2 DEF Member, q
        <5>2. PICK i \in DOMAIN q : IsLive(session, q[i], {"HEARTBEAT"}) /\ q[i].from = mySeat[d]
          BY <5>1
        <5>3. i # 1
          BY <1>3, <3>3, <5>2
        <5>4. i - 1 \in DOMAIN Tail(q) /\ Tail(q)[i - 1] = q[i]
          BY <1>5, <5>3
        <5> QED
          BY <4>1, <5>1, <5>2, <5>4
      <4> QED
        BY <4>1, <4>2
    <3> QED
      BY <3>2, <3>3
  <2>4. Member(d)'
    BY <1>2, <1>7, <2>1, <2>2, <2>3 DEF Member, SameClient
  <2> QED
    BY <2>4 DEF Ordered
<1>8. CASE Asking(d)
  <2>1. PICK i \in DOMAIN q :
          /\ IsLive(session, q[i], {"REQUEST"})
          /\ OnlyAt(q, i, {"REQUEST"})
          /\ \A j \in DOMAIN q : j > i => ~IsLive(session, q[j], {"LEFT"})
          /\ SaysGoodBye(d, i)
    BY <1>8 DEF Asking, q
  <2>2. i # 1
    BY <1>3, <2>1 DEF q
  <2>3. /\ i - 1 \in DOMAIN Tail(q) /\ Tail(q)[i - 1] = q[i] /\ i \in Nat
        /\ OnlyAt(Tail(q), i - 1, {"REQUEST"})
        /\ \A j \in DOMAIN Tail(q) : /\ j \in Nat /\ j + 1 \in DOMAIN q
                                     /\ Tail(q)[j] = q[j + 1]
    BY <1>5, <2>1, <2>2
  <2>4. \A j \in DOMAIN Tail(q) : j > i - 1 => ~IsLive(session, Tail(q)[j], {"LEFT"})
    BY <2>1, <2>3
  <2>5. ASSUME NEW p \in Seats, seat'[p] = d
        PROVE  \E j \in DOMAIN Tail(q) : /\ j < i - 1 /\ IsLive(session, Tail(q)[j], {"LEFT"})
                                         /\ Tail(q)[j].from = p
    <3>1. PICK j \in DOMAIN q : j < i /\ IsLive(session, q[j], {"LEFT"}) /\ q[j].from = p
      BY <2>1, <2>5 DEF SaysGoodBye, q
    <3>2. j # 1
      BY <1>3, <2>5, <3>1 DEF q
    <3>3. j - 1 \in DOMAIN Tail(q) /\ Tail(q)[j - 1] = q[j] /\ j - 1 < i - 1
      BY <1>5, <2>3, <3>1, <3>2
    <3> QED
      BY <3>1, <3>3
  <2>6. NoneOf(down[d], {"ACCEPT", "REJECT"})' /\ Joining(d)'
    BY <1>2, <1>8 DEF Asking, NoneOf, Joining, SameClient
  <2>7. OnlyAt(up[d], i - 1, {"REQUEST"})'
    BY <1>2, <2>3 DEF OnlyAt
  <2>8. SaysGoodBye(d, i - 1)'
    BY <1>2, <2>5 DEF SaysGoodBye
  <2>9. Asking(d)'
    BY <1>2, <2>1, <2>3, <2>4, <2>6, <2>7, <2>8 DEF Asking
  <2> QED
    BY <2>9 DEF Ordered
<1>9. CASE Accepted(d)
  <2>1. seat' = seat /\ NoneOf(up[d], {"REQUEST", "LEFT"})'
    BY <1>6, <1>9 DEF Accepted, q
  <2>2. \A p \in Seats : seat[p] = d /\ silence[p] = 0 => silence'[p] = 0
    BY <2>1
  <2>3. Joining(d)'
    BY <1>9 DEF Accepted, Joining, SameClient
  <2>4. Accepted(d)'
    BY <1>2, <1>9, <2>1, <2>2, <2>3 DEF Accepted, OnlyAt
  <2> QED
    BY <2>4 DEF Ordered
<1>10. CASE Refused(d)
  <2>1. seat' = seat /\ NoneOf(up[d], {"REQUEST", "LEFT"})'
    BY <1>6, <1>10 DEF Refused, q
  <2>2. Refused(d)'
    BY <1>2, <1>10, <2>1 DEF Refused, Joining, SameClient, OnlyAt
  <2> QED
    BY <2>2 DEF Ordered
<1>11. CASE Away(d)
  <2>1. NoneOf(Tail(q), {"REQUEST"})
    BY <1>4, <1>11 DEF Away, q
  <2>2. ASSUME NEW p \in Seats, seat'[p] = d
        PROVE  \E j \in DOMAIN Tail(q) : /\ j < Len(Tail(q)) + 1 /\ IsLive(session, Tail(q)[j], {"LEFT"})
                                         /\ Tail(q)[j].from = p
    <3>1. PICK j \in DOMAIN q : IsLive(session, q[j], {"LEFT"}) /\ q[j].from = p
      BY <1>11, <2>2 DEF Away, SaysGoodBye, q
    <3>2. j # 1
      BY <1>3, <2>2, <3>1 DEF q
    <3>3. j - 1 \in DOMAIN Tail(q) /\ Tail(q)[j - 1] = q[j]
      BY <1>5, <3>1, <3>2
    <3>4. Tail(q) \in Seq(S)
      BY <1>1, Rest
    <3>5. \A k \in DOMAIN Tail(q) : k < Len(Tail(q)) + 1
      BY <3>4
    <3> QED
      BY <3>1, <3>3, <3>5
  <2>3. NoneOf(down[d], {"ACCEPT", "REJECT"})' /\ NoneOf(up[d], {"REQUEST"})'
    BY <1>2, <1>11, <2>1 DEF Away, NoneOf
  <2>4. SaysGoodBye(d, Len(up[d]) + 1)'
    BY <1>2, <2>2 DEF SaysGoodBye
  <2>5. Away(d)'
    BY <1>2, <1>11, <2>3, <2>4 DEF Away, SameClient
  <2> QED
    BY <2>5 DEF Ordered
<1> QED
  BY <1>7, <1>8, <1>9, <1>10, <1>11 DEF Ordered

-----------------------------------------------------------------------------
(* The host and its bursts *)

LEMMA BurstSent ==
  ASSUME SInv, NEW burst \in [Devices -> Seq(Frames(lastSession))], HostSends(burst),
         session' = session,
         \A e \in Devices : \A i \in DOMAIN burst[e] : Farewell(session, burst[e][i])
  PROVE  /\ down' \in [Devices -> Seq(Frames(lastSession))]
         /\ \A e \in Devices : \A i \in DOMAIN down'[e] : Farewell(session', down'[e][i])
         /\ ~Dropped(burst) => \A e \in Devices : down'[e] = down[e] \o burst[e]
<1>1. PICK S : S = Frames(lastSession)
  OBVIOUS
<1>2. down \in [Devices -> Seq(S)] /\ burst \in [Devices -> Seq(S)]
  BY <1>1 DEF SInv, TypeOK
<1>3. /\ down' \in [Devices -> Seq(S)]
      /\ ~Dropped(burst) => \A e \in Devices : down'[e] = down[e] \o burst[e]
  BY <1>2, WholeBurst
<1>4. ASSUME NEW e \in Devices, NEW i \in DOMAIN down'[e] PROVE Farewell(session', down'[e][i])
  <2>1. PICK q, b, w : q = down[e] /\ b = burst[e] /\ w = down'[e]
    OBVIOUS
  <2>2. q \in Seq(S) /\ b \in Seq(S) /\ w = q \o Fits(q, b) /\ i \in DOMAIN w
    BY <1>2, <2>1 DEF HostSends
  <2>3. (\E j \in DOMAIN q : w[i] = q[j]) \/ (\E j \in DOMAIN b : w[i] = b[j])
    BY <2>2, WhereFrom
  <2>4. (\A j \in DOMAIN q : Farewell(session, q[j])) /\ (\A j \in DOMAIN b : Farewell(session, b[j]))
    BY <2>1 DEF SInv, Consistent
  <2>5. Farewell(session, w[i])
    BY <2>3, <2>4
  <2> QED
    BY <2>1, <2>5
<1> QED
  BY <1>1, <1>3, <1>4

LEMMA FrameType ==
  ASSUME NEW n \in Nat, NEW type \in FrameTypes, NEW s \in 0..n, NEW from \in Players,
         NEW p \in Players, NEW d \in Devices \cup {NoDevice, HostDevice}
  PROVE  Frame(type, s, from, p, d) \in Frames(n)
  BY DEF Frame, Frames

LEMMA LeftBurstType ==
  ASSUME TypeOK, NEW p \in Seats
  PROVE  /\ LeftBurst(seat, p) \in [Devices -> Seq(Frames(lastSession))]
         /\ Frame("LEFT", session, 0, p, NoDevice) \in Frames(lastSession)
         /\ \A e \in Devices : \A i \in DOMAIN LeftBurst(seat, p)[e] :
              Farewell(session, LeftBurst(seat, p)[e][i])
<1>1. PICK f : f = Frame("LEFT", session, 0, p, NoDevice)
  OBVIOUS
<1>2. f \in Frames(lastSession)
  BY <1>1, FrameType, SeatNumbers DEF TypeOK, FrameTypes
<1>3. Farewell(session, f)
  BY <1>1, SeatNumbers DEF Farewell, Frame
<1>4. ASSUME NEW e \in Devices
      PROVE  /\ LeftBurst(seat, p)[e] \in Seq(Frames(lastSession))
             /\ \A i \in DOMAIN LeftBurst(seat, p)[e] : Farewell(session, LeftBurst(seat, p)[e][i])
  <2>1. LeftBurst(seat, p)[e] = <<f>> \/ LeftBurst(seat, p)[e] = <<>>
    BY <1>1 DEF LeftBurst
  <2>2. <<f>> \in Seq(Frames(lastSession)) /\ \A i \in DOMAIN <<f>> : <<f>>[i] = f
    BY <1>2
  <2>3. <<>> \in Seq(Frames(lastSession)) /\ \A i \in DOMAIN <<>> : FALSE
    OBVIOUS
  <2> QED
    BY <1>3, <2>1, <2>2, <2>3
<1>5. LeftBurst(seat, p) = [e \in Devices |-> LeftBurst(seat, p)[e]]
  BY DEF LeftBurst
<1> QED
  BY <1>1, <1>2, <1>4, <1>5

\* Somebody's seat becomes free and the others are told.
LEMMA Departure ==
  ASSUME SInv, NEW p \in Seats, seat' = [seat EXCEPT ![p] = NoDevice],
         \A r \in Seats \ {p} : silence'[r] = silence[r],
         HostSends(LeftBurst(seat, p)), ~Dropped(LeftBurst(seat, p)),
         session' = session, UNCHANGED clientVars,
         NEW d \in Devices, Ordered(d)
  PROVE  /\ seat[p] # d /\ up'[d] = up[d] => Ordered(d)'
         /\ seat[p] = d => down'[d] = down[d]
<1>1. PICK f : f = Frame("LEFT", session, 0, p, NoDevice)
  OBVIOUS
<1>2. PICK burst : burst = LeftBurst(seat, p)
  OBVIOUS
<1>3. /\ burst \in [Devices -> Seq(Frames(lastSession))] /\ f \in Frames(lastSession)
      /\ \A e \in Devices : \A i \in DOMAIN burst[e] : Farewell(session, burst[e][i])
  BY <1>1, <1>2, LeftBurstType DEF SInv
<1>4. down'[d] = down[d] \o burst[d]
  BY <1>2, <1>3, BurstSent
<1>5. burst[d] = IF \E r \in Seats \ {p} : seat[r] = d THEN <<f>> ELSE <<>>
  BY <1>1, <1>2 DEF LeftBurst
<1>6. down[d] \in Seq(Frames(lastSession)) /\ (down[d] \o <<>> = down[d])
  BY ConcatEmptySeq DEF SInv, TypeOK
<1>7. ASSUME seat[p] = d PROVE ~(\E r \in Seats \ {p} : seat[r] = d)
  BY <1>7, DevicesAssumption DEF SInv, OneSeat
<1>8. ASSUME seat[p] # d, up'[d] = up[d] PROVE Ordered(d)'
  <2>1. Says(session, f, p) /\ f.device = NoDevice
    BY <1>1 DEF Says, Frame
  <2>2. SameClient(d) /\ NoDevice # d
    BY DevicesAssumption DEF SameClient, clientVars
  <2>3. /\ (\E r \in Seats \ {p} : seat[r] = d) => down'[d] = down[d] \o <<f>>
        /\ ~(\E r \in Seats \ {p} : seat[r] = d) => down'[d] = down[d]
    BY <1>4, <1>5, <1>6
  <2>4. TypeOK
    BY DEF SInv
  <2> QED
    BY <1>3, <1>8, <2>1, <2>2, <2>3, <2>4, Bystander
<1> QED
  BY <1>4, <1>5, <1>6, <1>7, <1>8

\* A seat that falls silent is of somebody who has left or is asking again.
LEMMA Forgotten ==
  ASSUME SInv, NEW d \in Devices, Ordered(d), SameClient(d), session' = session,
         NEW p \in Seats, seat[p] = d, silence[p] >= ConnectionTimeout,
         seat' = [seat EXCEPT ![p] = NoDevice], up'[d] = up[d], down'[d] = down[d]
  PROVE  Ordered(d)'
<1>1. \A r \in Seats : seat[r] = d => r = p
  BY DevicesAssumption DEF SInv, OneSeat
<1>2. \A r \in Seats : seat'[r] # d
  BY <1>1, DevicesAssumption DEF SInv, TypeOK
<1>3. ~Member(d) /\ ~Accepted(d) /\ ~Refused(d)
  BY <1>1, TimeoutAssumption DEF Member, Accepted, Refused
<1>4. CASE Asking(d)
  <2>1. Asking(d)'
    BY <1>2, <1>4 DEF Asking, Joining, SameClient, NoneOf, OnlyAt, SaysGoodBye
  <2> QED
    BY <2>1 DEF Ordered
<1>5. CASE Away(d)
  <2>1. Away(d)'
    BY <1>2, <1>5 DEF Away, SameClient, NoneOf, SaysGoodBye
  <2> QED
    BY <2>1 DEF Ordered
<1> QED
  BY <1>3, <1>4, <1>5 DEF Ordered

-----------------------------------------------------------------------------
(* The acceptance *)

LEMMA MinExists ==
  ASSUME NEW S, S \subseteq Nat, S # {}
  PROVE  Min(S) \in S
<1>1. PICK p \in S : \A q \in S : ~(<<q, p>> \in OpToRel(<, Nat))
  BY WFMin, NatLessThanWellFounded
<1>2. ASSUME NEW q \in S PROVE p <= q
  <2>1. p \in Nat /\ q \in Nat /\ <<q, p>> \in Nat \X Nat
    OBVIOUS
  <2>2. ~(q < p)
    BY <1>1, <2>1 DEF OpToRel
  <2> QED
    BY <2>1, <2>2
<1> QED
  BY <1>2 DEF Min

\* A finite set of numbers, each at the place that is the number of those below.
LEMMA Ranks ==
  ASSUME NEW T, T \subseteq Nat, IsFiniteSet(T)
  PROVE  /\ Cardinality(T) \in Nat
         /\ \A q \in T : Cardinality({r \in T : r < q}) \in 0..(Cardinality(T) - 1)
         /\ \A q, u \in T : Cardinality({r \in T : r < q}) = Cardinality({r \in T : r < u}) => q = u
         /\ \A k \in 0..(Cardinality(T) - 1) : \E q \in T : Cardinality({r \in T : r < q}) = k
<1> DEFINE Below(q) == {r \in T : r < q}
           n == Cardinality(T)
           rank == [q \in T |-> Cardinality(Below(q))]
<1>1. n \in Nat
  BY FS_CardinalityType
<1>2. ASSUME NEW q \in T
      PROVE  /\ Below(q) \subseteq T \ {q} /\ IsFiniteSet(Below(q))
             /\ Cardinality(Below(q)) \in 0..(n - 1)
  <2>1. Below(q) \subseteq T \ {q}
    OBVIOUS
  <2>2. IsFiniteSet(T \ {q}) /\ Cardinality(T \ {q}) = n - 1
    BY FS_RemoveElement
  <2>3. IsFiniteSet(Below(q)) /\ Cardinality(Below(q)) <= n - 1
    BY <2>1, <2>2, FS_Subset
  <2>4. Cardinality(Below(q)) \in Nat
    BY <2>3, FS_CardinalityType
  <2> QED
    BY <1>1, <2>1, <2>3, <2>4
<1>3. ASSUME NEW q \in T, NEW u \in T, q < u PROVE Cardinality(Below(q)) # Cardinality(Below(u))
  <2>1. Below(q) \subseteq Below(u) /\ q \in Below(u) /\ q \notin Below(q)
    <3>1. q \in Nat /\ u \in Nat /\ \A r \in T : r \in Nat
      OBVIOUS
    <3>2. \A r \in T : r < q => r < u
      BY <1>3, <3>1
    <3>3. ~(q < q)
      BY <3>1
    <3> QED
      BY <1>3, <3>2, <3>3
  <2>2. Below(q) # Below(u)
    BY <2>1
  <2>3. PICK A, B : A = Below(q) /\ B = Below(u)
    OBVIOUS
  <2>4. IsFiniteSet(Below(u))
    BY <1>2
  <2>5. A \in SUBSET B /\ A # B /\ IsFiniteSet(B)
    BY <2>1, <2>2, <2>3, <2>4
  <2>6. Cardinality(A) # Cardinality(B)
    BY <2>5, FS_Subset
  <2> QED
    BY <2>3, <2>6
<1>4. \A q, u \in T : Cardinality(Below(q)) = Cardinality(Below(u)) => q = u
  <2> SUFFICES ASSUME NEW q \in T, NEW u \in T, q # u
               PROVE  Cardinality(Below(q)) # Cardinality(Below(u))
    OBVIOUS
  <2>1. q < u \/ u < q
    OBVIOUS
  <2> HIDE DEF Below
  <2> QED
    BY <1>3, <2>1
<1> HIDE DEF Below
<1>5. rank \in Injection(T, 0..(n - 1))
  BY <1>2, <1>4 DEF Injection, IsInjective
<1>6. IsFiniteSet(0..(n - 1)) /\ Cardinality(0..(n - 1)) = n
  <2>1. PICK m : m = n - 1
    OBVIOUS
  <2>2. m \in Int /\ 0 \in Int /\ n = IF 0 > m THEN 0 ELSE m - 0 + 1
    BY <1>1, <2>1
  <2>3. IsFiniteSet(0..m) /\ Cardinality(0..m) = n
    BY <2>2, FS_Interval
  <2> QED
    BY <2>1, <2>3
<1>7. rank \in Surjection(T, 0..(n - 1))
  <2>1. PICK N, f : N = 0..(n - 1) /\ f = rank
    OBVIOUS
  <2>2. f \in Injection(T, N) /\ IsFiniteSet(N) /\ Cardinality(T) = Cardinality(N)
    BY <1>5, <1>6, <2>1
  <2>3. f \in Surjection(T, N)
    BY <2>2, FS_Injection
  <2> QED
    BY <2>1, <2>3
<1>8. \A k \in 0..(n - 1) : \E q \in T : Cardinality(Below(q)) = k
  BY <1>7 DEF Surjection
<1> QED
  BY <1>1, <1>2, <1>4, <1>8 DEF Below

\* The newcomer is told of every other occupied seat, of each once.
LEMMA Told ==
  ASSUME NEW members, NEW p, NEW list, list = OthersOf(members, p)
  PROVE  /\ \E n \in Nat : DOMAIN list = 1..n
         /\ \A i \in DOMAIN list : list[i] \in Players \ {p} /\ DeviceIn(members, list[i]) # NoDevice
         /\ \A i, j \in DOMAIN list : list[i] = list[j] => i = j
         /\ \A q \in Players \ {p} : DeviceIn(members, q) # NoDevice =>
              \E i \in DOMAIN list : list[i] = q
<1> DEFINE T == {q \in Players \ {p} : DeviceIn(members, q) # NoDevice}
           Rank(q) == Cardinality({r \in T : r < q})
           n == Cardinality(T)
           told == [i \in 1..n |-> CHOOSE q \in T : Rank(q) = i - 1]
<1>1. list = told
  BY DEF OthersOf
<1>2. T \subseteq Nat /\ IsFiniteSet(T)
  <2>1. IsFiniteSet(Players) /\ Players \subseteq Nat
    BY PlayersAssumption, FS_Interval DEF Players
  <2>2. T \subseteq Players
    OBVIOUS
  <2> QED
    BY <2>1, <2>2, FS_Subset
<1>3. /\ n \in Nat
      /\ \A q \in T : Rank(q) \in 0..(n - 1)
      /\ \A q, u \in T : Rank(q) = Rank(u) => q = u
      /\ \A k \in 0..(n - 1) : \E q \in T : Rank(q) = k
  <2> HIDE DEF T
  <2> QED
    BY <1>2, Ranks
<1>4. \A q \in T : q \in Players \ {p} /\ DeviceIn(members, q) # NoDevice
  OBVIOUS
<1>5. \A q \in Players \ {p} : DeviceIn(members, q) # NoDevice => q \in T
  OBVIOUS
<1> HIDE DEF T, Rank, n
<1>6. \A i \in 1..n : told[i] \in T /\ Rank(told[i]) = i - 1
  <2> SUFFICES ASSUME NEW i \in 1..n PROVE told[i] \in T /\ Rank(told[i]) = i - 1
    OBVIOUS
  <2>1. i - 1 \in 0..(n - 1)
    BY <1>3
  <2>2. \E q \in T : Rank(q) = i - 1
    BY <1>3, <2>1
  <2> QED
    BY <2>2
<1>7. DOMAIN told = 1..n
  OBVIOUS
<1> HIDE DEF told
<1>8. \A i, j \in 1..n : told[i] = told[j] => i = j
  <2> SUFFICES ASSUME NEW i \in 1..n, NEW j \in 1..n, told[i] = told[j] PROVE i = j
    OBVIOUS
  <2>1. i - 1 = j - 1
    BY <1>6
  <2> QED
    BY <1>3, <2>1
<1>9. ASSUME NEW q \in T PROVE \E i \in 1..n : told[i] = q
  <2>1. PICK k \in 0..(n - 1) : k = Rank(q)
    BY <1>3, <1>9
  <2>2. k + 1 \in 1..n /\ (k + 1) - 1 = k
    BY <1>3
  <2>3. told[k + 1] \in T /\ Rank(told[k + 1]) = k
    BY <1>6, <2>2
  <2>4. told[k + 1] = q
    BY <1>3, <1>9, <2>1, <2>3
  <2> QED
    BY <2>2, <2>4
<1> QED
  BY <1>1, <1>3, <1>4, <1>5, <1>6, <1>7, <1>8, <1>9

\* What a newcomer is sent behind the acceptance.
Greeting(members, p) ==
  [i \in DOMAIN OthersOf(members, p) |->
     Frame("JOINED", session, 0, OthersOf(members, p)[i], DeviceIn(members, OthersOf(members, p)[i]))]

LEMMA GreetingType ==
  ASSUME TypeOK, NEW d \in Devices, NEW p \in Seats, NEW members, members = [seat EXCEPT ![p] = d]
  PROVE  /\ Greeting(members, p) \in Seq(Frames(lastSession))
         /\ \A i \in DOMAIN Greeting(members, p) : Greeting(members, p)[i].type = "JOINED"
<1>1. PICK told, g : told = OthersOf(members, p) /\ g = Greeting(members, p)
  OBVIOUS
<1>2. PICK n \in Nat : DOMAIN told = 1..n
  BY <1>1, Told
<1>3. ASSUME NEW i \in 1..n
      PROVE  /\ Frame("JOINED", session, 0, told[i], DeviceIn(members, told[i])) \in Frames(lastSession)
             /\ Frame("JOINED", session, 0, told[i], DeviceIn(members, told[i])).type = "JOINED"
  <2>1. told[i] \in Players
    BY <1>1, <1>2, Told
  <2>2. DeviceIn(members, told[i]) \in Devices \cup {NoDevice, HostDevice}
    BY <2>1 DEF DeviceIn, TypeOK, Players, Seats
  <2>3. "JOINED" \in FrameTypes /\ session \in 0..lastSession /\ 0 \in Players /\ lastSession \in Nat
    BY SeatNumbers DEF TypeOK, FrameTypes
  <2>4. Frame("JOINED", session, 0, told[i], DeviceIn(members, told[i])) \in Frames(lastSession)
    BY <2>1, <2>2, <2>3, FrameType
  <2> QED
    BY <2>4 DEF Frame
<1>4. g = [i \in 1..n |-> Frame("JOINED", session, 0, told[i], DeviceIn(members, told[i]))]
  BY <1>1, <1>2 DEF Greeting
<1>5. g \in [1..n -> Frames(lastSession)]
  BY <1>3, <1>4
<1>6. g \in Seq(Frames(lastSession))
  BY <1>5, SeqDef
<1>7. \A i \in DOMAIN g : g[i].type = "JOINED"
  BY <1>3, <1>4
<1> QED
  BY <1>1, <1>6, <1>7

LEMMA GreetingTells ==
  ASSUME TypeOK, NEW d \in Devices, NEW p \in Seats, NEW members, members = [seat EXCEPT ![p] = d],
         NEW q \in Seq(Frames(lastSession)), NEW r \in Seats \ {p}
  PROVE  Tells(session, q \o Greeting(members, p), Len(q), r, NoDevice, seat[r])
<1>1. PICK told, g, w, S : /\ told = OthersOf(members, p) /\ g = Greeting(members, p)
                           /\ w = q \o g /\ S = Frames(lastSession)
  OBVIOUS
<1>2. g \in Seq(S) /\ q \in Seq(S) /\ DOMAIN told = DOMAIN g
  BY <1>1, GreetingType DEF Greeting
<1>3. /\ Len(q) \in Nat /\ Len(g) \in Nat /\ DOMAIN g = 1..Len(g) /\ DOMAIN told = 1..Len(g)
      /\ DOMAIN w = 1..(Len(q) + Len(g))
      /\ \A i \in 1..Len(g) : w[Len(q) + i] = g[i]
  <2>1. /\ Len(q) \in Nat /\ Len(g) \in Nat /\ DOMAIN g = 1..Len(g)
        /\ DOMAIN (q \o g) = 1..(Len(q) + Len(g))
        /\ \A i \in 1..Len(g) : (q \o g)[Len(q) + i] = g[i]
    BY <1>2, Behind
  <2> QED
    BY <1>1, <1>2, <2>1
<1>4. ASSUME NEW k \in DOMAIN w, k > Len(q)
      PROVE  k - Len(q) \in 1..Len(g) /\ w[k] = g[k - Len(q)]
  <2>1. k - Len(q) \in 1..Len(g) /\ Len(q) + (k - Len(q)) = k
    BY <1>3, <1>4
  <2> QED
    BY <1>3, <2>1
<1>5. \A i \in 1..Len(g) : /\ Says(session, g[i], r) <=> told[i] = r
                           /\ g[i].device = DeviceIn(members, told[i])
  BY <1>1, <1>3 DEF Greeting, Frame, Says
<1>6. r \in Players \ {p} /\ DeviceIn(members, r) = seat[r]
  BY SeatNumbers DEF DeviceIn, TypeOK
<1>7. /\ \A i \in DOMAIN told : DeviceIn(members, told[i]) # NoDevice
      /\ \A i, j \in DOMAIN told : told[i] = told[j] => i = j
      /\ DeviceIn(members, r) # NoDevice => \E i \in DOMAIN told : told[i] = r
  <2>1. told = OthersOf(members, p)
    BY <1>1
  <2>2. \A i \in DOMAIN told : DeviceIn(members, told[i]) # NoDevice
    BY <2>1, Told
  <2>3. \A i, j \in DOMAIN told : told[i] = told[j] => i = j
    BY <2>1, Told
  <2>4. \A x \in Players \ {p} : DeviceIn(members, x) # NoDevice => \E i \in DOMAIN told : told[i] = x
    BY <2>1, Told
  <2> QED
    BY <1>6, <2>2, <2>3, <2>4
<1>8. CASE seat[r] = NoDevice
  <2>1. \A i \in 1..Len(g) : told[i] # r
    BY <1>3, <1>6, <1>8, <1>7
  <2> QED
    BY <1>1, <1>4, <1>5, <1>8, <2>1 DEF Tells
<1>9. CASE seat[r] # NoDevice
  <2>1. PICK i \in 1..Len(g) : told[i] = r
    BY <1>3, <1>6, <1>9, <1>7
  <2>2. \A j \in 1..Len(g) : told[j] = r => j = i
    BY <1>3, <1>7, <2>1
  <2>3. Len(q) + i \in DOMAIN w /\ Len(q) + i > Len(q) /\ w[Len(q) + i] = g[i]
    BY <1>3
  <2>4. Says(session, w[Len(q) + i], r) /\ w[Len(q) + i].device = seat[r]
    BY <1>5, <1>6, <2>1, <2>3
  <2>5. ASSUME NEW k \in DOMAIN w, k > Len(q) + i PROVE ~Says(session, w[k], r)
    <3>1. k > Len(q)
      BY <1>3, <2>5
    <3>2. k - Len(q) \in 1..Len(g) /\ w[k] = g[k - Len(q)] /\ k - Len(q) # i
      BY <1>3, <1>4, <2>5, <3>1
    <3> QED
      BY <1>5, <2>2, <3>2
  <2> QED
    BY <1>1, <2>3, <2>4, <2>5 DEF Tells
<1> QED
  BY <1>8, <1>9

LEMMA JoinBurstType ==
  ASSUME TypeOK, NEW d \in Devices, NEW p \in Seats, NEW members, members = [seat EXCEPT ![p] = d],
         NEW burst, burst = JoinBurst(members, d, p)
  PROVE  /\ Frame("ACCEPT", session, 0, p, d) \in Frames(lastSession)
         /\ Frame("JOINED", session, 0, p, d) \in Frames(lastSession)
         /\ burst \in [Devices -> Seq(Frames(lastSession))]
         /\ burst[d] = <<Frame("ACCEPT", session, 0, p, d)>> \o Greeting(members, p)
         /\ \A e \in Devices \ {d} :
              burst[e] = IF \E q \in Seats \ {p} : seat[q] = e
                           THEN <<Frame("JOINED", session, 0, p, d)>> ELSE <<>>
         /\ \A e \in Devices : \A i \in DOMAIN burst[e] : Farewell(session, burst[e][i])
<1>0. PICK a, j : a = Frame("ACCEPT", session, 0, p, d) /\ j = Frame("JOINED", session, 0, p, d)
  OBVIOUS
<1>1. a \in Frames(lastSession) /\ j \in Frames(lastSession)
  <2>1. /\ "ACCEPT" \in FrameTypes /\ "JOINED" \in FrameTypes /\ session \in 0..lastSession
        /\ 0 \in Players /\ p \in Players /\ lastSession \in Nat
    BY SeatNumbers DEF TypeOK, FrameTypes
  <2>2. a \in Frames(lastSession)
    BY <1>0, <2>1, FrameType
  <2> QED
    BY <1>0, <2>1, <2>2, FrameType
<1>2. PICK g, S : g = Greeting(members, p) /\ S = Frames(lastSession)
  OBVIOUS
<1>3. g \in Seq(S) /\ \A i \in DOMAIN g : g[i].type = "JOINED"
  BY <1>2, GreetingType
<1>4. burst = [e \in Devices |->
                 CASE e = d -> <<a>> \o g
                   [] e # d /\ (\E q \in Seats \ {p} : members[q] = e) -> <<j>>
                   [] OTHER -> <<>>]
  BY <1>0, <1>2 DEF JoinBurst, Greeting
<1>5. \A q \in Seats \ {p} : members[q] = seat[q]
  BY DEF TypeOK
<1>6. burst[d] = <<a>> \o g
  BY <1>4
<1>7. \A e \in Devices \ {d} :
        burst[e] = IF \E q \in Seats \ {p} : seat[q] = e THEN <<j>> ELSE <<>>
  <2> SUFFICES ASSUME NEW e \in Devices \ {d}
               PROVE  burst[e] = IF \E q \in Seats \ {p} : seat[q] = e THEN <<j>> ELSE <<>>
    OBVIOUS
  <2>1. (\E q \in Seats \ {p} : members[q] = e) <=> \E q \in Seats \ {p} : seat[q] = e
    BY <1>5
  <2>2. burst[e] = CASE e = d -> <<a>> \o g
                     [] e # d /\ (\E q \in Seats \ {p} : members[q] = e) -> <<j>>
                     [] OTHER -> <<>>
    BY <1>4
  <2>3. CASE \E q \in Seats \ {p} : seat[q] = e
    BY <2>1, <2>2, <2>3
  <2>4. CASE ~\E q \in Seats \ {p} : seat[q] = e
    BY <2>1, <2>2, <2>4
  <2> QED
    BY <2>3, <2>4
<1>8. <<a>> \in Seq(S) /\ <<j>> \in Seq(S) /\ <<>> \in Seq(S)
      /\ (\A i \in DOMAIN <<j>> : <<j>>[i] = j) /\ DOMAIN <<>> = {}
  BY <1>1, <1>2
<1>9. /\ <<a>> \o g \in Seq(S)
      /\ \A i \in DOMAIN (<<a>> \o g) : (<<a>> \o g)[i].type # "LEFT"
  <2>1. PICK b : b = <<a>>
    OBVIOUS
  <2>2. b \in Seq(S) /\ Len(b) = 1 /\ b[1] = a
    BY <1>8, <2>1
  <2>3. /\ b \o g \in Seq(S)
        /\ Len(g) \in Nat /\ DOMAIN g = 1..Len(g)
        /\ DOMAIN (b \o g) = 1..(1 + Len(g))
        /\ (b \o g)[1] = b[1]
        /\ \A i \in 1..Len(g) : (b \o g)[1 + i] = g[i]
    <3>1. g \in Seq(S) /\ b \in Seq(S)
      BY <1>3, <2>2
    <3>2. b \o g \in Seq(S) /\ Len(g) \in Nat /\ DOMAIN g = 1..Len(g)
      BY <3>1, Behind
    <3>3. DOMAIN (b \o g) = 1..(Len(b) + Len(g))
      BY <3>1, Behind
    <3>4. \A i \in 1..Len(b) : (b \o g)[i] = b[i]
      BY <3>1, Behind
    <3>5. \A i \in 1..Len(g) : (b \o g)[Len(b) + i] = g[i]
      BY <3>1, Behind
    <3> QED
      BY <2>2, <3>2, <3>3, <3>4, <3>5
  <2>4. ASSUME NEW i \in DOMAIN (b \o g) PROVE (b \o g)[i].type # "LEFT"
    <3>1. CASE i = 1
      BY <1>0, <2>2, <2>3, <3>1 DEF Frame
    <3>2. CASE i # 1
      <4>1. i - 1 \in 1..Len(g) /\ 1 + (i - 1) = i
        BY <2>3, <3>2
      <4>2. (b \o g)[i] = g[i - 1]
        BY <2>3, <4>1
      <4> QED
        BY <1>3, <2>3, <4>1, <4>2
    <3> QED
      BY <3>1, <3>2
  <2> QED
    BY <2>1, <2>3, <2>4
<1>10. ASSUME NEW e \in Devices
       PROVE  burst[e] \in Seq(S) /\ \A i \in DOMAIN burst[e] : burst[e][i].type # "LEFT"
  <2>1. CASE e = d
    BY <1>6, <1>9, <2>1
  <2>2. CASE e # d
    <3>1. burst[e] = <<j>> \/ burst[e] = <<>>
      BY <1>7, <2>2
    <3>2. j.type # "LEFT"
      BY <1>0 DEF Frame
    <3> QED
      BY <1>8, <3>1, <3>2
  <2> QED
    BY <2>1, <2>2
<1>11. burst \in [Devices -> Seq(S)]
  <2>1. burst = [e \in Devices |-> burst[e]]
    BY <1>4
  <2> QED
    BY <1>10, <2>1
<1>12. \A e \in Devices : \A i \in DOMAIN burst[e] : Farewell(session, burst[e][i])
  BY <1>10 DEF Farewell
<1> QED
  BY <1>0, <1>1, <1>2, <1>6, <1>7, <1>11, <1>12

\* The seat the host has for a device is its own or an open one.
LEMMA SeatForIs ==
  ASSUME TypeOK, NEW d \in Devices, HasRoom
  PROVE  /\ SeatFor(d) \in Seats
         /\ \/ seat[SeatFor(d)] = d
            \/ seat[SeatFor(d)] = NoDevice /\ \A r \in Seats : seat[r] # d
<1>1. Seats \subseteq Nat /\ IsFiniteSet(Seats) /\ Cardinality(Seats) = MaxPlayers - 1
  <2>1. PICK m \in Int : m = MaxPlayers - 1 /\ m >= 1
    BY PlayersAssumption
  <2>2. IsFiniteSet(1..m) /\ Cardinality(1..m) = m
    BY <2>1, FS_Interval
  <2> QED
    BY <2>1, <2>2 DEF Seats
<1>2. CASE InSeat(d) # {}
  <2>1. Min(InSeat(d)) \in InSeat(d)
    BY <1>1, <1>2, MinExists DEF InSeat
  <2> QED
    BY <1>2, <2>1 DEF SeatFor, InSeat
<1>3. CASE InSeat(d) = {}
  <2> DEFINE open == {p \in Seats : seat[p] = NoDevice}
  <2>1. open # {}
    <3> SUFFICES ASSUME open = {} PROVE FALSE
      OBVIOUS
    <3>1. {p \in Seats : seat[p] # NoDevice} = Seats
      OBVIOUS
    <3> QED
      BY <1>1, <3>1, PlayersAssumption DEF HasRoom
  <2>2. Min(open) \in open
    BY <1>1, <2>1, MinExists
  <2> QED
    BY <1>3, <2>2 DEF SeatFor, InSeat
<1> QED
  BY <1>2, <1>3

\* Queues after their first frame is taken.
LEMMA Taken ==
  ASSUME NEW q \in [Devices -> Seq(Frames(lastSession))], NEW d \in Devices, q[d] # <<>>,
         NEW t, t = [q EXCEPT ![d] = Tail(@)]
  PROVE  /\ t \in [Devices -> Seq(Frames(lastSession))]
         /\ t[d] = Tail(q[d])
         /\ \A e \in Devices \ {d} : t[e] = q[e]
<1>1. q[d] \in Seq(Frames(lastSession))
  OBVIOUS
<1>2. Tail(q[d]) \in Seq(Frames(lastSession))
  BY <1>1, Rest
<1> QED
  BY <1>2

\* Whoever asks is in no seat, and has said good-bye before.
LEMMA WhoAsks ==
  ASSUME SInv, prompt, session # 0, NEW d \in Devices, up[d] # <<>>,
         IsLive(session, Head(up[d]), {"REQUEST"})
  PROVE  /\ Joining(d) /\ NoneOf(down[d], {"ACCEPT", "REJECT"})
         /\ NoneOf(Tail(up[d]), {"REQUEST", "LEFT"})
         /\ \A p \in Seats : seat[p] # d
<1>1. PICK q, S : q = up[d] /\ S = Frames(lastSession)
  OBVIOUS
<1>2. q \in Seq(S) /\ q # <<>>
  BY <1>1 DEF SInv, TypeOK
<1>3. /\ Len(q) \in Nat \ {0} /\ DOMAIN q = 1..Len(q) /\ Head(q) = q[1]
      /\ DOMAIN Tail(q) = 1..(Len(q) - 1)
      /\ \A i \in 1..(Len(q) - 1) : Tail(q)[i] = q[i + 1]
  BY <1>2, Rest
<1>4. 1 \in DOMAIN q /\ IsLive(session, q[1], {"REQUEST"})
  BY <1>1, <1>3
<1>5. IsLive(session, q[1], {"REQUEST", "LEFT"})
  BY <1>4 DEF IsLive
<1>6. Asking(d)
  <2>1. ~NoneOf(q, {"REQUEST"}) /\ ~NoneOf(q, {"REQUEST", "LEFT"})
    BY <1>4, <1>5 DEF NoneOf
  <2>2. Ordered(d)
    BY DEF SInv
  <2> QED
    BY <1>1, <2>1, <2>2 DEF Ordered, Member, Accepted, Refused, Away
<1>7. PICK i \in DOMAIN q : /\ OnlyAt(q, i, {"REQUEST"})
                            /\ \A j \in DOMAIN q : j > i => ~IsLive(session, q[j], {"LEFT"})
                            /\ SaysGoodBye(d, i)
  BY <1>1, <1>6 DEF Asking
<1>8. i = 1
  BY <1>4, <1>7 DEF OnlyAt
<1>9. ASSUME NEW j \in DOMAIN Tail(q) PROVE ~IsLive(session, Tail(q)[j], {"REQUEST", "LEFT"})
  <2>1. j + 1 \in DOMAIN q /\ j + 1 > 1 /\ j + 1 # 1 /\ Tail(q)[j] = q[j + 1]
    BY <1>3
  <2>2. ~IsLive(session, q[j + 1], {"REQUEST"}) /\ ~IsLive(session, q[j + 1], {"LEFT"})
    BY <1>7, <1>8, <2>1 DEF OnlyAt
  <2> QED
    BY <2>1, <2>2 DEF IsLive
<1>10. \A p \in Seats : seat[p] # d
  <2>1. \A j \in DOMAIN q : ~(j < 1)
    BY <1>3
  <2> QED
    BY <1>1, <1>7, <1>8, <2>1 DEF SaysGoodBye
<1> QED
  BY <1>1, <1>6, <1>9, <1>10 DEF Asking, NoneOf

\* Places in a queue and behind it.
LEMMA TwoQueues ==
  ASSUME NEW S, NEW q \in Seq(S), NEW r \in Seq(S), NEW w, w = q \o r
  PROVE  /\ Len(q) \in Nat
         /\ \A i \in DOMAIN q : i \in DOMAIN w /\ w[i] = q[i]
         /\ \A i \in DOMAIN w : \/ i \in DOMAIN q /\ w[i] = q[i]
                                \/ /\ i > Len(q) /\ i - Len(q) \in DOMAIN r
                                   /\ w[i] = r[i - Len(q)]
<1>1. /\ Len(q) \in Nat /\ Len(r) \in Nat
      /\ DOMAIN q = 1..Len(q) /\ DOMAIN r = 1..Len(r)
      /\ DOMAIN w = 1..(Len(q) + Len(r))
      /\ \A i \in 1..Len(q) : w[i] = q[i]
      /\ \A i \in 1..Len(r) : w[Len(q) + i] = r[i]
  OBVIOUS
<1>2. ASSUME NEW i \in DOMAIN w
      PROVE  \/ i \in DOMAIN q /\ w[i] = q[i]
             \/ i > Len(q) /\ i - Len(q) \in DOMAIN r /\ w[i] = r[i - Len(q)]
  <2>1. CASE i \in 1..Len(q)
    BY <1>1, <2>1
  <2>2. CASE i \notin 1..Len(q)
    <3>1. i > Len(q) /\ i - Len(q) \in 1..Len(r) /\ Len(q) + (i - Len(q)) = i
      BY <1>1, <2>2
    <3>2. w[i] = r[i - Len(q)]
      BY <1>1, <3>1
    <3> QED
      BY <1>1, <3>1, <3>2
  <2> QED
    BY <2>1, <2>2
<1>3. \A i \in DOMAIN q : i \in DOMAIN w /\ w[i] = q[i]
  BY <1>1
<1> QED
  BY <1>1, <1>2, <1>3

LEMMA NewMember ==
  ASSUME SInv, NEW d \in Devices, Joining(d), NoneOf(down[d], {"ACCEPT", "REJECT"}),
         NoneOf(up'[d], {"REQUEST", "LEFT"}), NEW p \in Seats,
         seat' = [seat EXCEPT ![p] = d], silence' = [silence EXCEPT ![p] = 0],
         SameClient(d), session' = session,
         down'[d] = down[d] \o (<<Frame("ACCEPT", session, 0, p, d)>> \o Greeting([seat EXCEPT ![p] = d], p))
  PROVE  Accepted(d)'
<1>1. PICK q, g, w, S, a : /\ q = down[d] /\ S = Frames(lastSession) /\ w = down'[d]
                           /\ a = Frame("ACCEPT", session, 0, p, d)
                           /\ g = Greeting([seat EXCEPT ![p] = d], p)
  OBVIOUS
<1>2. TypeOK
  BY DEF SInv
<1>3. q \in Seq(S) /\ g \in Seq(S) /\ a \in S /\ \A i \in DOMAIN g : g[i].type = "JOINED"
  <2>1. q \in Seq(S)
    BY <1>1, <1>2 DEF TypeOK
  <2>2. g \in Seq(S) /\ \A i \in DOMAIN g : g[i].type = "JOINED"
    BY <1>1, <1>2, GreetingType
  <2>3. a \in S
    BY <1>1, <1>2, JoinBurstType
  <2> QED
    BY <2>1, <2>2, <2>3
<1>4. PICK b : b = <<a>>
  OBVIOUS
<1>5. b \in Seq(S) /\ Len(b) = 1 /\ DOMAIN b = {1} /\ b[1] = a
  BY <1>3, <1>4
<1>6. PICK qa : qa = q \o b
  OBVIOUS
<1>7. qa \in Seq(S) /\ Len(qa) = Len(q) + 1 /\ Len(q) \in Nat /\ DOMAIN qa = 1..(Len(q) + 1)
      /\ qa[Len(q) + 1] = a /\ DOMAIN q = 1..Len(q)
  BY <1>3, <1>4, <1>6
<1>8. w = qa \o g
  <2>1. w = q \o (b \o g)
    BY <1>1, <1>4
  <2>2. q \in Seq(S) /\ b \in Seq(S) /\ g \in Seq(S)
    BY <1>3, <1>5
  <2>3. (q \o b) \o g = q \o (b \o g)
    BY <2>2, ConcatAssociative
  <2> QED
    BY <1>6, <2>1, <2>3
<1>9. PICK i : i = Len(q) + 1
  OBVIOUS
<1>10. i \in Nat /\ i \in DOMAIN qa /\ i \in DOMAIN w /\ w[i] = a
  <2>1. i \in Nat /\ i \in DOMAIN qa /\ qa[i] = a
    BY <1>7, <1>9
  <2> QED
    BY <1>3, <1>7, <1>8, <2>1, TwoQueues
<1>11. OnlyAt(w, i, {"ACCEPT", "REJECT"})
  <2> SUFFICES ASSUME NEW j \in DOMAIN w, j # i PROVE ~IsLive(session, w[j], {"ACCEPT", "REJECT"})
    BY DEF OnlyAt
  <2>1. \/ j \in DOMAIN qa /\ w[j] = qa[j]
        \/ j > Len(qa) /\ j - Len(qa) \in DOMAIN g /\ w[j] = g[j - Len(qa)]
    BY <1>3, <1>7, <1>8, TwoQueues
  <2>2. CASE j \in DOMAIN qa /\ w[j] = qa[j]
    <3>1. j \in 1..Len(q)
      BY <1>7, <1>9, <2>2
    <3>2. \A k \in 1..Len(q) : (q \o b)[k] = q[k]
      BY <1>3, <1>5, Behind
    <3>3. j \in DOMAIN q /\ w[j] = q[j]
      BY <1>6, <1>7, <2>2, <3>1, <3>2
    <3> QED
      BY <1>1, <3>3 DEF NoneOf
  <2>3. CASE j > Len(qa) /\ j - Len(qa) \in DOMAIN g /\ w[j] = g[j - Len(qa)]
    BY <1>3, <2>3 DEF IsLive
  <2> QED
    BY <2>1, <2>2, <2>3
<1>12. a.player = p /\ IsLive(session, a, {"ACCEPT"})
  BY <1>1 DEF Frame, IsLive
<1>13. seat'[p] = d /\ silence'[p] = 0 /\ \A r \in Seats \ {p} : seat'[r] = seat[r]
  BY <1>2 DEF TypeOK
<1>14. \A r \in Seats \ {p} : Tells(session, w, i, r, NoDevice, seat[r])
  <2> SUFFICES ASSUME NEW r \in Seats \ {p} PROVE Tells(session, w, i, r, NoDevice, seat[r])
    OBVIOUS
  <2>1. PICK members : members = [seat EXCEPT ![p] = d]
    OBVIOUS
  <2>2. qa \in Seq(Frames(lastSession)) /\ Len(qa) = i /\ w = qa \o Greeting(members, p)
    BY <1>1, <1>7, <1>8, <1>9, <2>1
  <2> QED
    BY <1>2, <2>1, <2>2, GreetingTells
<1>15. Joining(d)' /\ NoneOf(up[d], {"REQUEST", "LEFT"})'
  BY DEF Joining, SameClient, NoneOf
<1>16. /\ i \in DOMAIN down'[d] /\ IsLive(session', down'[d][i], {"ACCEPT"})
       /\ OnlyAt(down[d], i, {"ACCEPT", "REJECT"})'
       /\ down'[d][i].player = p
  BY <1>1, <1>10, <1>11, <1>12 DEF OnlyAt
<1>17. \A r \in Seats \ {p} : Tells(session', down'[d], i, r, NoDevice, seat'[r])
  BY <1>1, <1>13, <1>14
<1> QED
  BY <1>13, <1>15, <1>16, <1>17 DEF Accepted

\* What a burst leaves: nobody hears a wrong good-bye, and while it is not
\* dropped nothing else is disturbed.
LEMMA BurstDelivered ==
  ASSUME SInv, NEW burst \in [Devices -> Seq(Frames(lastSession))], HostSends(burst),
         Delivered(burst), session' = session,
         \A e \in Devices : \A i \in DOMAIN burst[e] : Farewell(session, burst[e][i])
  PROVE  /\ down' \in [Devices -> Seq(Frames(lastSession))]
         /\ \A e \in Devices : \A i \in DOMAIN down'[e] : Farewell(session', down'[e][i])
         /\ prompt' \in BOOLEAN
         /\ prompt' => prompt /\ ~Dropped(burst) /\ \A e \in Devices : down'[e] = down[e] \o burst[e]
<1>1. prompt' \in BOOLEAN /\ (prompt' => prompt /\ ~Dropped(burst))
  <2>1. prompt \in BOOLEAN
    BY DEF SInv, TypeOK
  <2>2. CASE ~Dropped(burst) /\ UNCHANGED envVars
    <3>1. prompt' = prompt
      BY <2>2 DEF envVars
    <3> QED
      BY <2>1, <2>2, <3>1
  <2>3. CASE prompt' = FALSE
    BY <2>3
  <2> QED
    BY <2>2, <2>3 DEF Delivered
<1>2. down' \in [Devices -> Seq(Frames(lastSession))]
  BY BurstSent
<1>3. \A e \in Devices : \A i \in DOMAIN down'[e] : Farewell(session', down'[e][i])
  BY BurstSent
<1>4. ~Dropped(burst) => \A e \in Devices : down'[e] = down[e] \o burst[e]
  BY BurstSent
<1> QED
  BY <1>1, <1>2, <1>3, <1>4

\* processJoinRequest seats the device.
LEMMA RequestAccepted ==
  ASSUME SInv, session # 0, NEW d \in Devices, up[d] # <<>>,
         IsLive(session, Head(up[d]), {"REQUEST"}), HostTakes(d),
         NEW p \in Seats, seat[p] = d \/ (seat[p] = NoDevice /\ \A r \in Seats : seat[r] # d),
         NEW members, members = [seat EXCEPT ![p] = d],
         seat' = members, silence' = [silence EXCEPT ![p] = 0],
         HostSends(JoinBurst(members, d, p)), Delivered(JoinBurst(members, d, p)),
         UNCHANGED <<session, lastSession, clientVars>>
  PROVE  SInv'
<1>1. TypeOK
  BY DEF SInv
<1>2. p \in Seats /\ (seat[p] = d \/ (seat[p] = NoDevice /\ \A r \in Seats : seat[r] # d))
  OBVIOUS
<1>3. PICK burst, a, j : /\ burst = JoinBurst(members, d, p)
                         /\ a = Frame("ACCEPT", session, 0, p, d)
                         /\ j = Frame("JOINED", session, 0, p, d)
  OBVIOUS
<1>4. /\ a \in Frames(lastSession) /\ j \in Frames(lastSession)
      /\ burst \in [Devices -> Seq(Frames(lastSession))]
      /\ burst[d] = <<a>> \o Greeting(members, p)
      /\ \A e \in Devices \ {d} :
           burst[e] = IF \E q \in Seats \ {p} : seat[q] = e THEN <<j>> ELSE <<>>
      /\ \A e \in Devices : \A i \in DOMAIN burst[e] : Farewell(session, burst[e][i])
  <2>1. burst = JoinBurst(members, d, p)
    BY <1>3
  <2>2. a \in Frames(lastSession) /\ j \in Frames(lastSession)
    BY <1>1, <1>3, <2>1, JoinBurstType
  <2>3. burst \in [Devices -> Seq(Frames(lastSession))]
    BY <1>1, <2>1, JoinBurstType
  <2>4. burst[d] = <<Frame("ACCEPT", session, 0, p, d)>> \o Greeting(members, p)
    BY <1>3 DEF JoinBurst, Greeting
  <2>5. \A e \in Devices \ {d} :
          burst[e] = IF \E q \in Seats \ {p} : seat[q] = e
                       THEN <<Frame("JOINED", session, 0, p, d)>> ELSE <<>>
    <3> SUFFICES ASSUME NEW e \in Devices \ {d}
                 PROVE  burst[e] = IF \E q \in Seats \ {p} : seat[q] = e THEN <<j>> ELSE <<>>
      BY <1>3
    <3>1. (\E q \in Seats \ {p} : members[q] = e) <=> \E q \in Seats \ {p} : seat[q] = e
      BY <1>1 DEF TypeOK
    <3>2. /\ (\E q \in Seats \ {p} : members[q] = e) => burst[e] = <<j>>
          /\ ~(\E q \in Seats \ {p} : members[q] = e) => burst[e] = <<>>
      BY <1>3 DEF JoinBurst
    <3> QED
      BY <3>1, <3>2
  <2>6. \A e \in Devices : \A i \in DOMAIN burst[e] : Farewell(session, burst[e][i])
    BY <1>1, <2>1, JoinBurstType
  <2> QED
    BY <1>3, <2>2, <2>3, <2>4, <2>5, <2>6
<1>5. \A e \in Devices : \A i \in DOMAIN burst[e] : Farewell(session, burst[e][i])
  BY <1>4
<1>6. /\ down' \in [Devices -> Seq(Frames(lastSession))]
      /\ prompt' \in BOOLEAN
      /\ prompt' => prompt /\ \A e \in Devices : down'[e] = down[e] \o burst[e]
  BY <1>3, <1>4, <1>5, BurstDelivered
<1>7. \A e \in Devices : \A i \in DOMAIN down'[e] : Farewell(session', down'[e][i])
  BY <1>3, <1>4, <1>5, BurstDelivered
<1>8. /\ up' \in [Devices -> Seq(Frames(lastSession))]
      /\ up'[d] = Tail(up[d])
      /\ \A e \in Devices \ {d} : up'[e] = up[e]
  <2>1. PICK q, t : q = up /\ t = up'
    OBVIOUS
  <2>2. q \in [Devices -> Seq(Frames(lastSession))] /\ q[d] # <<>> /\ t = [q EXCEPT ![d] = Tail(@)]
    BY <1>1, <2>1 DEF HostTakes, TypeOK
  <2>3. /\ t \in [Devices -> Seq(Frames(lastSession))] /\ t[d] = Tail(q[d])
        /\ \A e \in Devices \ {d} : t[e] = q[e]
    BY <2>2, Taken
  <2> QED
    BY <2>1, <2>3
<1>9. TypeOK'
  BY <1>1, <1>2, <1>6, <1>8 DEF TypeOK, clientVars
<1>10. OneSeat'
  BY <1>1, <1>2 DEF SInv, OneSeat, TypeOK
<1>11. Consistent'
  BY <1>7 DEF SInv, Consistent, clientVars
<1>12. ASSUME prompt', NEW e \in Devices PROVE Ordered(e)'
  <2>1. prompt /\ down'[e] = down[e] \o burst[e] /\ Ordered(e) /\ SameClient(e)
    BY <1>6, <1>12 DEF SInv, SameClient, clientVars
  <2>2. /\ Joining(d) /\ NoneOf(down[d], {"ACCEPT", "REJECT"})
        /\ NoneOf(Tail(up[d]), {"REQUEST", "LEFT"})
        /\ \A r \in Seats : seat[r] # d
    BY <2>1, WhoAsks
  <2>3. CASE e = d
    <3>1. burst[d] = <<a>> \o Greeting(members, p)
      BY <1>4
    <3>2. down'[d] = down[d] \o
            (<<Frame("ACCEPT", session, 0, p, d)>> \o Greeting([seat EXCEPT ![p] = d], p))
      BY <1>3, <2>1, <2>3, <3>1
    <3>3. NoneOf(up'[d], {"REQUEST", "LEFT"}) /\ SameClient(d) /\ session' = session
      BY <1>8, <2>1, <2>2, <2>3
    <3>4. Accepted(d)'
      BY <1>2, <2>2, <3>2, <3>3, NewMember
    <3> QED
      BY <2>3, <3>4 DEF Ordered
  <2>4. CASE e # d
    <3>1. burst[e] = IF \E q \in Seats \ {p} : seat[q] = e THEN <<j>> ELSE <<>>
      BY <1>4, <2>4
    <3>2. j \in Frames(lastSession)
      BY <1>4
    <3>3. down[e] \in Seq(Frames(lastSession)) /\ down[e] \o <<>> = down[e]
      BY <1>1, ConcatEmptySeq DEF TypeOK
    <3>4. /\ (\E r \in Seats \ {p} : seat[r] = e) => down'[e] = down[e] \o <<j>>
          /\ ~(\E r \in Seats \ {p} : seat[r] = e) => down'[e] = down[e]
      BY <2>1, <3>1, <3>3
    <3>5. Says(session, j, p) /\ j.device = d
      BY <1>3 DEF Says, Frame
    <3>6. up'[e] = up[e] /\ d # e /\ seat[p] # e /\ session' = session
      BY <1>2, <1>8, <2>2, <2>4, DevicesAssumption
    <3>7. \A r \in Seats \ {p} : silence'[r] = silence[r]
      BY <1>1 DEF TypeOK
    <3> QED
      BY <1>1, <1>2, <2>1, <3>2, <3>4, <3>5, <3>6, <3>7, Bystander
  <2> QED
    BY <2>3, <2>4
<1> QED
  BY <1>9, <1>10, <1>11, <1>12 DEF SInv

\* processJoinRequest refuses the device.
LEMMA RequestRefused ==
  ASSUME SInv, session # 0, NEW d \in Devices, up[d] # <<>>,
         IsLive(session, Head(up[d]), {"REQUEST"}), HostTakes(d),
         NEW refusal, refusal = [Quiet EXCEPT ![d] = <<Frame("REJECT", session, 0, 0, d)>>],
         HostSends(refusal), Delivered(refusal),
         UNCHANGED <<session, lastSession, seat, silence, clientVars>>
  PROVE  SInv'
<1>1. TypeOK
  BY DEF SInv
<1>2. PICK f : f = Frame("REJECT", session, 0, 0, d)
  OBVIOUS
<1>3. f \in Frames(lastSession) /\ f.type = "REJECT" /\ IsLive(session, f, {"REJECT"})
  <2>1. /\ "REJECT" \in FrameTypes /\ session \in 0..lastSession /\ 0 \in Players
        /\ lastSession \in Nat
    BY <1>1, SeatNumbers DEF TypeOK, FrameTypes
  <2>2. f \in Frames(lastSession)
    BY <1>2, <2>1, FrameType
  <2> QED
    BY <1>2, <2>2 DEF Frame, IsLive
<1>4. refusal[d] = <<f>> /\ \A e \in Devices \ {d} : refusal[e] = <<>>
  BY <1>2 DEF Quiet
<1>5. refusal \in [Devices -> Seq(Frames(lastSession))]
  <2>1. <<f>> \in Seq(Frames(lastSession)) /\ <<>> \in Seq(Frames(lastSession))
    BY <1>3
  <2> QED
    BY <1>2, <2>1 DEF Quiet
<1>6. \A e \in Devices : \A i \in DOMAIN refusal[e] : Farewell(session, refusal[e][i])
  <2>1. \A i \in DOMAIN <<f>> : <<f>>[i] = f
    OBVIOUS
  <2>2. Farewell(session, f)
    BY <1>3 DEF Farewell
  <2>3. \A i \in DOMAIN <<>> : FALSE
    OBVIOUS
  <2> QED
    BY <1>4, <2>1, <2>2, <2>3
<1>7. /\ down' \in [Devices -> Seq(Frames(lastSession))]
      /\ prompt' \in BOOLEAN
      /\ prompt' => prompt /\ \A e \in Devices : down'[e] = down[e] \o refusal[e]
  BY <1>5, <1>6, BurstDelivered
<1>8. \A e \in Devices : \A i \in DOMAIN down'[e] : Farewell(session', down'[e][i])
  BY <1>5, <1>6, BurstDelivered
<1>9. /\ up' \in [Devices -> Seq(Frames(lastSession))]
      /\ up'[d] = Tail(up[d])
      /\ \A e \in Devices \ {d} : up'[e] = up[e]
  <2>1. PICK q, t : q = up /\ t = up'
    OBVIOUS
  <2>2. q \in [Devices -> Seq(Frames(lastSession))] /\ q[d] # <<>> /\ t = [q EXCEPT ![d] = Tail(@)]
    BY <1>1, <2>1 DEF HostTakes, TypeOK
  <2>3. /\ t \in [Devices -> Seq(Frames(lastSession))] /\ t[d] = Tail(q[d])
        /\ \A e \in Devices \ {d} : t[e] = q[e]
    BY <2>2, Taken
  <2> QED
    BY <2>1, <2>3
<1>10. TypeOK'
  BY <1>1, <1>7, <1>9 DEF TypeOK, clientVars
<1>11. OneSeat'
  BY DEF SInv, OneSeat
<1>12. Consistent'
  BY <1>8 DEF SInv, Consistent, clientVars
<1>13. ASSUME prompt', NEW e \in Devices PROVE Ordered(e)'
  <2>1. prompt /\ down'[e] = down[e] \o refusal[e] /\ Ordered(e) /\ SameClient(e)
    BY <1>7, <1>13 DEF SInv, SameClient, clientVars
  <2>2. down[e] \in Seq(Frames(lastSession)) /\ down[e] \o <<>> = down[e]
    BY <1>1, ConcatEmptySeq DEF TypeOK
  <2>3. CASE e # d
    BY <1>4, <1>9, <2>1, <2>2, <2>3, StandsBy
  <2>4. CASE e = d
    <3>1. /\ Joining(d) /\ NoneOf(down[d], {"ACCEPT", "REJECT"})
          /\ NoneOf(Tail(up[d]), {"REQUEST", "LEFT"})
          /\ \A r \in Seats : seat[r] # d
      BY <2>1, WhoAsks
    <3>2. PICK q, w, S : q = down[d] /\ w = down'[d] /\ S = Frames(lastSession)
      OBVIOUS
    <3>3. q \in Seq(S) /\ f \in S /\ w = q \o <<f>>
      BY <1>3, <1>4, <2>1, <2>2, <2>4, <3>2
    <3>4. /\ Len(q) \in Nat /\ DOMAIN q = 1..Len(q) /\ DOMAIN w = 1..(Len(q) + 1)
          /\ w[Len(q) + 1] = f /\ \A i \in 1..Len(q) : w[i] = q[i]
      BY <3>3
    <3>5. Len(q) + 1 \in DOMAIN w
      BY <3>4
    <3>6. OnlyAt(w, Len(q) + 1, {"ACCEPT", "REJECT"})
      <4> SUFFICES ASSUME NEW j \in DOMAIN w, j # Len(q) + 1
                   PROVE  ~IsLive(session, w[j], {"ACCEPT", "REJECT"})
        BY DEF OnlyAt
      <4>1. j \in DOMAIN q /\ w[j] = q[j]
        BY <3>4
      <4> QED
        BY <3>1, <3>2, <4>1 DEF NoneOf
    <3>7. \E i \in DOMAIN down'[d] : /\ IsLive(session', down'[d][i], {"REJECT"})
                                     /\ OnlyAt(down[d], i, {"ACCEPT", "REJECT"})'
      BY <1>3, <3>2, <3>4, <3>5, <3>6 DEF OnlyAt
    <3>8. Joining(d)' /\ NoneOf(up[d], {"REQUEST", "LEFT"})'
      BY <1>9, <2>1, <2>4, <3>1 DEF Joining, SameClient, NoneOf
    <3>9. Refused(d)'
      BY <3>1, <3>7, <3>8 DEF Refused
    <3> QED
      BY <2>4, <3>9 DEF Ordered
  <2> QED
    BY <2>3, <2>4
<1> QED
  BY <1>10, <1>11, <1>12, <1>13 DEF SInv

LEMMA RequestMet ==
  ASSUME SInv, NEW d \in Devices, NEW busy \in BOOLEAN, ProcessJoinRequest(d, busy)
  PROVE  SInv'
<1> DEFINE p == SeatFor(d)
           members == [seat EXCEPT ![p] = d]
           refusal == [Quiet EXCEPT ![d] = <<Frame("REJECT", session, 0, 0, d)>>]
<1>1. /\ up[d] # <<>> /\ Head(up[d]).type = "REQUEST" /\ Head(up[d]).session = session
      /\ session # 0 /\ HostTakes(d) /\ UNCHANGED <<session, lastSession, clientVars>>
  BY DEF ProcessJoinRequest
<1>2. IsLive(session, Head(up[d]), {"REQUEST"})
  BY <1>1 DEF IsLive
<1>3. CASE /\ HasRoom
           /\ seat' = members
           /\ silence' = [silence EXCEPT ![p] = 0]
           /\ HostSends(JoinBurst(members, d, p))
           /\ Delivered(JoinBurst(members, d, p))
  <2>1. SeatFor(d) \in Seats
    BY <1>3, SeatForIs DEF SInv
  <2>2. seat[SeatFor(d)] = d \/ (seat[SeatFor(d)] = NoDevice /\ \A r \in Seats : seat[r] # d)
    BY <1>3, SeatForIs DEF SInv
  <2>3. PICK s, m : s = p /\ m = members
    OBVIOUS
  <2>4. /\ s \in Seats /\ (seat[s] = d \/ (seat[s] = NoDevice /\ \A r \in Seats : seat[r] # d))
        /\ m = [seat EXCEPT ![s] = d] /\ seat' = m /\ silence' = [silence EXCEPT ![s] = 0]
        /\ HostSends(JoinBurst(m, d, s)) /\ Delivered(JoinBurst(m, d, s))
    BY <1>3, <2>1, <2>2, <2>3
  <2> HIDE DEF p, members
  <2> QED
    BY <1>1, <1>2, <2>4, RequestAccepted
<1>4. CASE /\ HostSends(refusal)
           /\ Delivered(refusal)
           /\ UNCHANGED <<seat, silence>>
  <2>1. PICK r : r = refusal
    OBVIOUS
  <2>2. /\ r = [Quiet EXCEPT ![d] = <<Frame("REJECT", session, 0, 0, d)>>]
        /\ HostSends(r) /\ Delivered(r)
        /\ UNCHANGED <<session, lastSession, seat, silence, clientVars>>
    BY <1>1, <1>4, <2>1
  <2> HIDE DEF refusal
  <2> QED
    BY <1>1, <1>2, <2>2, RequestRefused
<1> QED
  BY <1>3, <1>4 DEF ProcessJoinRequest

\* The host takes a frame and hears whatever is behind it.
LEMMA UpTaken ==
  ASSUME TypeOK, NEW d \in Devices, up[d] # <<>>, HostTakes(d)
  PROVE  /\ up' \in [Devices -> Seq(Frames(lastSession))]
         /\ up'[d] = Tail(up[d])
         /\ \A e \in Devices \ {d} : up'[e] = up[e]
<1>1. PICK q, t : q = up /\ t = up'
  OBVIOUS
<1>2. q \in [Devices -> Seq(Frames(lastSession))] /\ q[d] # <<>> /\ t = [q EXCEPT ![d] = Tail(@)]
  BY <1>1 DEF HostTakes, TypeOK
<1>3. /\ t \in [Devices -> Seq(Frames(lastSession))] /\ t[d] = Tail(q[d])
      /\ \A e \in Devices \ {d} : t[e] = q[e]
  BY <1>2, Taken
<1> QED
  BY <1>1, <1>3

LEMMA HeartbeatHeard ==
  ASSUME SInv, NEW d \in Devices, up[d] # <<>>, HostTakes(d),
         NEW frame, frame = Head(up[d]), frame.type = "HEARTBEAT", HostKnows(d, frame),
         silence' = [silence EXCEPT ![frame.from] = 0],
         UNCHANGED <<seat, down, envVars, session, lastSession, clientVars>>
  PROVE  SInv'
<1>1. TypeOK
  BY DEF SInv
<1>2. /\ up' \in [Devices -> Seq(Frames(lastSession))]
      /\ up'[d] = Tail(up[d])
      /\ \A e \in Devices \ {d} : up'[e] = up[e]
  BY <1>1, UpTaken
<1>3. frame.from \in Seats /\ seat[frame.from] = d /\ frame.session = session /\ prompt' = prompt
  BY DEF HostKnows, envVars
<1>4. TypeOK'
  BY <1>1, <1>2, <1>3 DEF TypeOK, clientVars
<1>5. OneSeat' /\ Consistent'
  BY DEF SInv, OneSeat, Consistent, clientVars
<1>6. ASSUME prompt', session' # 0, NEW e \in Devices PROVE Ordered(e)'
  <2>1. Ordered(e) /\ SameClient(e) /\ down'[e] = down[e] /\ session' = session /\ seat' = seat
    BY <1>3, <1>6 DEF SInv, SameClient, clientVars
  <2>2. \A r \in Seats : silence'[r] = IF r = frame.from THEN 0 ELSE silence[r]
    BY <1>1, <1>3 DEF TypeOK
  <2>3. CASE e = d
    <3>1. /\ ~IsLive(session, Head(up[d]), {"REQUEST"}) /\ ~IsLive(session, Head(up[d]), {"LEFT"})
          /\ IsLive(session, Head(up[d]), {"HEARTBEAT"})
      BY <1>3 DEF IsLive
    <3>2. \A r \in Seats : seat'[r] = d =>
            seat[r] = d /\ ~(IsLive(session, Head(up[d]), {"LEFT"}) /\ Head(up[d]).from = r)
      BY <2>1, <3>1
    <3>3. \A r \in Seats : seat'[r] = d =>
            IF IsLive(session, Head(up[d]), {"HEARTBEAT"}) /\ Head(up[d]).from = r
              THEN silence'[r] = 0 ELSE silence'[r] = silence[r]
      BY <2>2, <3>1
    <3> QED
      BY <1>1, <1>2, <2>1, <2>3, <3>1, <3>2, <3>3, HostReads
  <2>4. CASE e # d
    <3>1. \A r \in Seats : seat[r] = e => silence'[r] = silence[r]
      BY <1>3, <2>2, <2>4
    <3> QED
      BY <1>2, <2>1, <2>4, <3>1, StandsBy
  <2> QED
    BY <2>3, <2>4
<1> QED
  BY <1>4, <1>5, <1>6 DEF SInv

LEMMA GoodByeHeard ==
  ASSUME SInv, NEW d \in Devices, up[d] # <<>>, HostTakes(d),
         NEW frame, frame = Head(up[d]), frame.type = "LEFT", HostKnows(d, frame),
         NEW p, p = frame.from,
         seat' = [seat EXCEPT ![p] = NoDevice], silence' = [silence EXCEPT ![p] = 0],
         HostSends(LeftBurst(seat, p)), Delivered(LeftBurst(seat, p)),
         UNCHANGED <<session, lastSession, clientVars>>
  PROVE  SInv'
<1>1. TypeOK
  BY DEF SInv
<1>2. /\ up' \in [Devices -> Seq(Frames(lastSession))]
      /\ up'[d] = Tail(up[d])
      /\ \A e \in Devices \ {d} : up'[e] = up[e]
  BY <1>1, UpTaken
<1>3. p \in Seats /\ seat[p] = d /\ frame.session = session
  BY DEF HostKnows
<1>4. PICK burst : burst = LeftBurst(seat, p)
  OBVIOUS
<1>5. burst \in [Devices -> Seq(Frames(lastSession))]
  BY <1>1, <1>3, <1>4, LeftBurstType
<1>6. \A e \in Devices : \A i \in DOMAIN burst[e] : Farewell(session, burst[e][i])
  BY <1>1, <1>3, <1>4, LeftBurstType
<1>7. /\ down' \in [Devices -> Seq(Frames(lastSession))]
      /\ prompt' \in BOOLEAN
      /\ prompt' => prompt /\ ~Dropped(burst)
  BY <1>4, <1>5, <1>6, BurstDelivered
<1>8. \A e \in Devices : \A i \in DOMAIN down'[e] : Farewell(session', down'[e][i])
  BY <1>4, <1>5, <1>6, BurstDelivered
<1>9. TypeOK'
  BY <1>1, <1>2, <1>3, <1>7 DEF TypeOK, clientVars
<1>10. OneSeat'
  BY <1>1, <1>3 DEF SInv, OneSeat, TypeOK
<1>11. Consistent'
  BY <1>1, <1>3, <1>8 DEF SInv, Consistent, clientVars, TypeOK
<1>12. ASSUME prompt', session' # 0, NEW e \in Devices PROVE Ordered(e)'
  <2>1. Ordered(e) /\ SameClient(e) /\ ~Dropped(LeftBurst(seat, p)) /\ UNCHANGED clientVars
        /\ session' = session
    BY <1>4, <1>7, <1>12 DEF SInv, SameClient, clientVars
  <2>2. \A r \in Seats \ {p} : silence'[r] = silence[r] /\ seat'[r] = seat[r]
    BY <1>1 DEF TypeOK
  <2>3. seat'[p] = NoDevice /\ d # NoDevice
    BY <1>1, <1>3, DevicesAssumption DEF TypeOK
  <2>4. /\ seat[p] # e /\ up'[e] = up[e] => Ordered(e)'
        /\ seat[p] = e => down'[e] = down[e]
    <3>1. \A r \in Seats \ {p} : silence'[r] = silence[r]
      BY <2>2
    <3> QED
      BY <1>3, <2>1, <3>1, Departure
  <2>5. CASE e = d
    <3>1. down'[d] = down[d]
      BY <1>3, <2>4, <2>5
    <3>2. /\ ~IsLive(session, Head(up[d]), {"REQUEST"}) /\ IsLive(session, Head(up[d]), {"LEFT"})
          /\ ~IsLive(session, Head(up[d]), {"HEARTBEAT"})
      BY <1>3 DEF IsLive
    <3>3. \A r \in Seats : seat'[r] = d =>
            seat[r] = d /\ ~(IsLive(session, Head(up[d]), {"LEFT"}) /\ Head(up[d]).from = r)
      BY <2>2, <2>3
    <3>4. \A r \in Seats : seat'[r] = d =>
            IF IsLive(session, Head(up[d]), {"HEARTBEAT"}) /\ Head(up[d]).from = r
              THEN silence'[r] = 0 ELSE silence'[r] = silence[r]
      BY <2>2, <2>3, <3>2
    <3> QED
      BY <1>1, <1>2, <2>1, <2>5, <3>1, <3>2, <3>3, <3>4, HostReads
  <2>6. CASE e # d
    BY <1>2, <1>3, <2>4, <2>6
  <2> QED
    BY <2>5, <2>6
<1> QED
  BY <1>9, <1>10, <1>11, <1>12 DEF SInv

\* What the host is sent by whom it does not know, or of another session.
LEMMA NotHeard ==
  ASSUME SInv, NEW d \in Devices, up[d] # <<>>, HostTakes(d),
         NEW frame, frame = Head(up[d]),
         \/ frame.type # "REQUEST" /\ ~HostKnows(d, frame)
         \/ frame.type = "REQUEST" /\ (session = 0 \/ frame.session # session),
         UNCHANGED <<seat, silence, down, envVars, session, lastSession, clientVars>>
  PROVE  SInv'
<1>1. TypeOK
  BY DEF SInv
<1>2. /\ up' \in [Devices -> Seq(Frames(lastSession))]
      /\ up'[d] = Tail(up[d])
      /\ \A e \in Devices \ {d} : up'[e] = up[e]
  BY <1>1, UpTaken
<1>3. prompt' = prompt
  BY DEF envVars
<1>4. TypeOK'
  BY <1>1, <1>2, <1>3 DEF TypeOK, clientVars
<1>5. OneSeat' /\ Consistent'
  BY DEF SInv, OneSeat, Consistent, clientVars
<1>6. ASSUME prompt', session' # 0, NEW e \in Devices PROVE Ordered(e)'
  <2>1. Ordered(e) /\ SameClient(e) /\ down'[e] = down[e] /\ session' = session /\ seat' = seat
        /\ silence' = silence
    BY <1>3, <1>6 DEF SInv, SameClient, clientVars
  <2>2. CASE e = d
    <3>1. ~IsLive(session, Head(up[d]), {"REQUEST"})
      BY <1>6, <2>1 DEF IsLive
    <3>2. ASSUME NEW r \in Seats, seat[r] = d
          PROVE  /\ ~(IsLive(session, Head(up[d]), {"LEFT"}) /\ Head(up[d]).from = r)
                 /\ ~(IsLive(session, Head(up[d]), {"HEARTBEAT"}) /\ Head(up[d]).from = r)
      BY <1>6, <2>1, <3>2 DEF IsLive, HostKnows
    <3>3. \A r \in Seats : seat'[r] = d =>
            seat[r] = d /\ ~(IsLive(session, Head(up[d]), {"LEFT"}) /\ Head(up[d]).from = r)
      BY <2>1, <3>2
    <3>4. \A r \in Seats : seat'[r] = d =>
            IF IsLive(session, Head(up[d]), {"HEARTBEAT"}) /\ Head(up[d]).from = r
              THEN silence'[r] = 0 ELSE silence'[r] = silence[r]
      BY <2>1, <3>2
    <3> QED
      BY <1>1, <1>2, <2>1, <2>2, <3>1, <3>3, <3>4, HostReads
  <2>3. CASE e # d
    BY <1>2, <2>1, <2>3, StandsBy
  <2> QED
    BY <2>2, <2>3
<1> QED
  BY <1>4, <1>5, <1>6 DEF SInv

LEMMA HostHeard ==
  ASSUME SInv, NEW d \in Devices, HostHears(d)
  PROVE  SInv'
<1>1. PICK frame : frame = Head(up[d])
  OBVIOUS
<1>2. /\ up[d] # <<>> /\ HostTakes(d) /\ UNCHANGED <<session, lastSession, clientVars>>
  BY DEF HostHears
<1>3. CASE /\ frame.type = "HEARTBEAT" /\ HostKnows(d, frame)
           /\ silence' = [silence EXCEPT ![frame.from] = 0]
           /\ UNCHANGED <<seat, down, envVars>>
  BY <1>1, <1>2, <1>3, HeartbeatHeard
<1>4. CASE /\ frame.type = "LEFT" /\ HostKnows(d, frame)
           /\ seat' = [seat EXCEPT ![frame.from] = NoDevice]
           /\ silence' = [silence EXCEPT ![frame.from] = 0]
           /\ HostSends(LeftBurst(seat, frame.from))
           /\ Delivered(LeftBurst(seat, frame.from))
  BY <1>1, <1>2, <1>4, GoodByeHeard
<1>5. CASE /\ \/ frame.type # "REQUEST" /\ ~HostKnows(d, frame)
              \/ frame.type = "REQUEST" /\ (session = 0 \/ frame.session # session)
           /\ UNCHANGED <<seat, silence, down, envVars>>
  BY <1>1, <1>2, <1>5, NotHeard
<1> QED
  BY <1>1, <1>3, <1>4, <1>5 DEF HostHears

\* expireConnections.
LEMMA HostExpired ==
  ASSUME SInv, NEW p \in Seats, HostExpires(p)
  PROVE  SInv'
<1>1. TypeOK
  BY DEF SInv
<1>2. /\ seat[p] # NoDevice /\ silence[p] >= ConnectionTimeout
      /\ seat' = [seat EXCEPT ![p] = NoDevice] /\ silence' = [silence EXCEPT ![p] = 0]
      /\ HostSends(LeftBurst(seat, p)) /\ Delivered(LeftBurst(seat, p))
      /\ UNCHANGED <<session, lastSession, clientVars, up>>
  BY DEF HostExpires, Silent
<1>3. PICK burst : burst = LeftBurst(seat, p)
  OBVIOUS
<1>4. burst \in [Devices -> Seq(Frames(lastSession))]
  BY <1>1, <1>3, LeftBurstType
<1>5. \A e \in Devices : \A i \in DOMAIN burst[e] : Farewell(session, burst[e][i])
  BY <1>1, <1>3, LeftBurstType
<1>6. /\ down' \in [Devices -> Seq(Frames(lastSession))]
      /\ prompt' \in BOOLEAN
      /\ prompt' => prompt /\ ~Dropped(burst)
  BY <1>2, <1>3, <1>4, <1>5, BurstDelivered
<1>7. \A e \in Devices : \A i \in DOMAIN down'[e] : Farewell(session', down'[e][i])
  BY <1>2, <1>3, <1>4, <1>5, BurstDelivered
<1>8. TypeOK'
  BY <1>1, <1>2, <1>6 DEF TypeOK, clientVars
<1>9. OneSeat'
  BY <1>1, <1>2 DEF SInv, OneSeat, TypeOK
<1>10. Consistent'
  BY <1>1, <1>2, <1>7 DEF SInv, Consistent, clientVars, TypeOK
<1>11. ASSUME prompt', session' # 0, NEW e \in Devices PROVE Ordered(e)'
  <2>1. Ordered(e) /\ SameClient(e) /\ ~Dropped(LeftBurst(seat, p)) /\ UNCHANGED clientVars
        /\ session' = session /\ up'[e] = up[e]
    BY <1>2, <1>3, <1>6, <1>11 DEF SInv, SameClient, clientVars
  <2>2. \A r \in Seats \ {p} : silence'[r] = silence[r]
    BY <1>1, <1>2 DEF TypeOK
  <2>3. /\ seat[p] # e /\ up'[e] = up[e] => Ordered(e)'
        /\ seat[p] = e => down'[e] = down[e]
    BY <1>2, <2>1, <2>2, Departure
  <2>4. CASE seat[p] = e
    BY <1>2, <2>1, <2>3, <2>4, Forgotten
  <2> QED
    BY <2>1, <2>3, <2>4
<1> QED
  BY <1>8, <1>9, <1>10, <1>11 DEF SInv

-----------------------------------------------------------------------------
(* Sessions *)

\* A new session: nobody has heard of it.
LEMMA SessionHosted ==
  ASSUME SInv, HostSession
  PROVE  SInv'
<1>1. /\ TypeOK /\ session = 0 /\ session' = lastSession + 1 /\ lastSession' = lastSession + 1
      /\ UNCHANGED <<seat, silence, clientVars, up, down, prompt>>
  BY DEF SInv, HostSession
<1>2. PICK n \in Nat : n = lastSession
  BY <1>1 DEF TypeOK
<1>3. Frames(n) \subseteq Frames(n + 1) /\ 0..n \subseteq 0..(n + 1)
  BY <1>2 DEF Frames
<1>4. \A e \in Devices : up[e] \in Seq(Frames(n)) /\ down[e] \in Seq(Frames(n))
  BY <1>1, <1>2 DEF TypeOK
<1>5. \A e \in Devices : up[e] \in Seq(Frames(n + 1)) /\ down[e] \in Seq(Frames(n + 1))
  BY <1>3, <1>4, SeqMonotonic
<1>6. up \in [Devices -> Seq(Frames(n + 1))] /\ down \in [Devices -> Seq(Frames(n + 1))]
  BY <1>1, <1>5 DEF TypeOK
<1>7. joined \in [Devices -> 0..(n + 1)]
  BY <1>1, <1>2, <1>3 DEF TypeOK
<1>8. TypeOK'
  BY <1>1, <1>2, <1>6, <1>7 DEF TypeOK, clientVars
<1>9. ASSUME NEW q \in Seq(Frames(n)), NEW i \in DOMAIN q
      PROVE  q[i].session \in 0..n /\ q[i].session # session'
  <2>1. q[i] \in Frames(n)
    BY <1>9
  <2>2. q[i].session \in 0..n
    BY <2>1 DEF Frames
  <2> QED
    BY <1>1, <1>2, <2>2
<1>10. OneSeat'
  BY <1>1 DEF SInv, OneSeat
<1>11. ASSUME NEW e \in Devices, NEW i \in DOMAIN down[e] PROVE Farewell(session', down[e][i])
  <2>1. Farewell(session, down[e][i]) /\ down[e][i].session # session'
    BY <1>4, <1>9 DEF SInv, Consistent
  <2> QED
    BY <2>1 DEF Farewell
<1>12. session' # 0
  BY <1>1, <1>2
<1>13. Consistent'
  BY <1>1, <1>11, <1>12 DEF SInv, Consistent, clientVars
<1>14. ASSUME NEW e \in Devices PROVE Away(e)'
  <2>1. joined[e] # session'
    BY <1>1, <1>2 DEF TypeOK
  <2>2. \A r \in Seats : seat[r] # e
    BY <1>1, DevicesAssumption DEF SInv, Consistent
  <2>3. /\ \A i \in DOMAIN up[e] : up[e][i].session # session'
        /\ \A i \in DOMAIN down[e] : down[e][i].session # session'
    BY <1>4, <1>9
  <2>4. mode'[e] = "INACTIVE" \/ joined'[e] # session'
    BY <1>1, <2>1 DEF clientVars
  <2>5. NoneOf(up[e], {"REQUEST"})' /\ NoneOf(down[e], {"ACCEPT", "REJECT"})'
    BY <1>1, <2>3 DEF NoneOf, IsLive
  <2>6. SaysGoodBye(e, Len(up[e]) + 1)'
    BY <1>1, <2>2 DEF SaysGoodBye
  <2> QED
    BY <2>4, <2>5, <2>6 DEF Away
<1> QED
  BY <1>8, <1>10, <1>13, <1>14 DEF SInv, Ordered

\* leaveSession of the host: its session is over.
LEMMA SessionEnded ==
  ASSUME SInv, HostLeaves
  PROVE  SInv'
<1>1. /\ TypeOK /\ session # 0 /\ session' = 0 /\ seat' = NoMembers
      /\ silence' = [p \in Seats |-> 0] /\ UNCHANGED <<lastSession, clientVars, up>>
  BY DEF SInv, HostLeaves
<1>2. PICK burst, f, S : /\ burst = LeftBurst(seat, 0) /\ f = Frame("LEFT", session, 0, 0, NoDevice)
                         /\ S = Frames(lastSession)
  OBVIOUS
<1>3. f \in S /\ f.device = NoDevice
  <2>1. /\ "LEFT" \in FrameTypes /\ session \in 0..lastSession /\ 0 \in Players
        /\ lastSession \in Nat
    BY <1>1, SeatNumbers DEF TypeOK, FrameTypes
  <2>2. f \in Frames(lastSession)
    BY <1>2, <2>1, FrameType
  <2> QED
    BY <1>2, <2>2 DEF Frame
<1>4. \A e \in Devices : burst[e] = <<f>> \/ burst[e] = <<>>
  BY <1>2 DEF LeftBurst
<1>5. burst \in [Devices -> Seq(S)]
  <2>1. <<f>> \in Seq(S) /\ <<>> \in Seq(S)
    BY <1>3
  <2>2. burst = [e \in Devices |-> burst[e]]
    BY <1>2 DEF LeftBurst
  <2> QED
    BY <1>4, <2>1, <2>2
<1>6. down \in [Devices -> Seq(S)]
  BY <1>1, <1>2 DEF TypeOK
<1>7. \A e \in Devices : \A i \in DOMAIN down[e] : Farewell(0, down[e][i])
  BY DEF SInv, Consistent, Farewell
<1>8. (HostSends(burst) /\ prompt' = (prompt /\ ~Dropped(burst))) \/ (down' = down /\ prompt' = FALSE)
  BY <1>2 DEF HostLeaves
<1>9. prompt' \in BOOLEAN
  BY <1>8
<1>10. down' \in [Devices -> Seq(S)]
  <2>1. CASE HostSends(burst)
    BY <1>5, <1>6, <2>1, WholeBurst
  <2> QED
    BY <1>6, <1>8, <2>1
<1>11. ASSUME NEW e \in Devices, NEW i \in DOMAIN down'[e] PROVE Farewell(0, down'[e][i])
  <2>1. CASE down' = down
    BY <1>7, <2>1
  <2>2. CASE HostSends(burst)
    <3>1. PICK q, b, w : q = down[e] /\ b = burst[e] /\ w = down'[e]
      OBVIOUS
    <3>2. q \in Seq(S) /\ b \in Seq(S) /\ w = q \o Fits(q, b) /\ i \in DOMAIN w
      BY <1>5, <1>6, <2>2, <3>1 DEF HostSends
    <3>3. (\E j \in DOMAIN q : w[i] = q[j]) \/ (\E j \in DOMAIN b : w[i] = b[j])
      BY <3>2, WhereFrom
    <3>4. \A j \in DOMAIN q : Farewell(0, q[j])
      BY <1>7, <3>1
    <3>5. \A j \in DOMAIN b : Farewell(0, b[j])
      <4>1. Farewell(0, f)
        BY <1>3 DEF Farewell
      <4>2. (\A j \in DOMAIN <<f>> : <<f>>[j] = f) /\ \A j \in DOMAIN <<>> : FALSE
        OBVIOUS
      <4> QED
        BY <1>4, <3>1, <4>1, <4>2
    <3> QED
      BY <3>1, <3>3, <3>4, <3>5
  <2> QED
    BY <1>8, <2>1, <2>2
<1>12. TypeOK'
  BY <1>1, <1>2, <1>9, <1>10 DEF TypeOK, clientVars, NoMembers
<1>13. OneSeat'
  BY <1>1 DEF OneSeat, NoMembers
<1>14. Consistent'
  BY <1>1, <1>11 DEF SInv, Consistent, clientVars, NoMembers
<1> QED
  BY <1>1, <1>12, <1>13, <1>14 DEF SInv

-----------------------------------------------------------------------------
(* The clients *)

\* What concerns the clients alone in the type invariant.
ClientsOK ==
  /\ mode \in [Devices -> Modes]
  /\ joined \in [Devices -> 0..lastSession]
  /\ mySeat \in [Devices -> Players]
  /\ roster \in [Devices -> [Players -> Devices \cup {NoDevice, HostDevice}]]
  /\ patience \in [Devices -> Nat]

LEMMA ClearedIs ==
  ASSUME TypeOK, NEW d \in Devices, Cleared(d), lastSession' = lastSession
  PROVE  /\ ClientsOK'
         /\ mode'[d] = "INACTIVE"
         /\ \A e \in Devices \ {d} : SameClient(e)
<1>1. NoRoster \in [Players -> Devices \cup {NoDevice, HostDevice}]
  BY DEF NoRoster
<1>2. 0 \in Players /\ "INACTIVE" \in Modes /\ 0 \in 0..lastSession
  BY SeatNumbers DEF Modes, TypeOK
<1>3. ClientsOK'
  BY <1>1, <1>2 DEF ClientsOK, TypeOK, Cleared
<1>4. mode'[d] = "INACTIVE" /\ \A e \in Devices \ {d} : SameClient(e)
  BY DEF TypeOK, Cleared, SameClient
<1> QED
  BY <1>3, <1>4

\* A device appends a frame to what it has sent.
LEMMA UpSent ==
  ASSUME TypeOK, NEW d \in Devices, NEW f \in Frames(lastSession), up' = [up EXCEPT ![d] = Sent(d, f)]
  PROVE  /\ up' \in [Devices -> Seq(Frames(lastSession))]
         /\ \A e \in Devices \ {d} : up'[e] = up[e]
         /\ Len(up[d]) \in Nat /\ Len(up'[d]) = Len(up[d]) + 1
         /\ DOMAIN up[d] = 1..Len(up[d]) /\ DOMAIN up'[d] = 1..(Len(up[d]) + 1)
         /\ up'[d][Len(up[d]) + 1] = f
         /\ \A i \in 1..Len(up[d]) : up'[d][i] = up[d][i]
<1>1. PICK q, w, S : q = up[d] /\ w = up'[d] /\ S = Frames(lastSession)
  OBVIOUS
<1>2. q \in Seq(S) /\ f \in S /\ w = Append(q, f) /\ \A e \in Devices \ {d} : up'[e] = up[e]
  BY <1>1 DEF TypeOK, Sent
<1>3. /\ w \in Seq(S) /\ Len(q) \in Nat /\ Len(w) = Len(q) + 1
      /\ DOMAIN q = 1..Len(q) /\ DOMAIN w = 1..(Len(q) + 1)
      /\ w[Len(q) + 1] = f /\ \A i \in 1..Len(q) : w[i] = q[i]
  BY <1>2
<1>4. up' \in [Devices -> Seq(Frames(lastSession))]
  BY <1>1, <1>2, <1>3 DEF TypeOK
<1> QED
  BY <1>1, <1>2, <1>3, <1>4

\* A device takes a frame.
LEMMA DownTaken ==
  ASSUME TypeOK, NEW d \in Devices, down[d] # <<>>, DeviceTakes(d)
  PROVE  /\ down' \in [Devices -> Seq(Frames(lastSession))]
         /\ down'[d] = Tail(down[d])
         /\ \A e \in Devices \ {d} : down'[e] = down[e]
         /\ Head(down[d]) \in Frames(lastSession)
<1>1. PICK q, t : q = down /\ t = down'
  OBVIOUS
<1>2. q \in [Devices -> Seq(Frames(lastSession))] /\ q[d] # <<>> /\ t = [q EXCEPT ![d] = Tail(@)]
  BY <1>1 DEF DeviceTakes, TypeOK
<1>3. /\ t \in [Devices -> Seq(Frames(lastSession))] /\ t[d] = Tail(q[d])
      /\ \A e \in Devices \ {d} : t[e] = q[e]
  BY <1>2, Taken
<1>4. Head(q[d]) \in Frames(lastSession)
  BY <1>2, Rest
<1> QED
  BY <1>1, <1>3, <1>4

\* Good-byes stay true of what is left in a queue.
LEMMA RestFarewell ==
  ASSUME SInv, NEW d \in Devices, down[d] # <<>>, DeviceTakes(d), session' = session
  PROVE  \A e \in Devices : \A i \in DOMAIN down'[e] : Farewell(session', down'[e][i])
<1> SUFFICES ASSUME NEW e \in Devices, NEW i \in DOMAIN down'[e]
             PROVE  Farewell(session', down'[e][i])
  OBVIOUS
<1>1. TypeOK /\ \A j \in DOMAIN down[e] : Farewell(session, down[e][j])
  BY DEF SInv, Consistent
<1>2. /\ down'[d] = Tail(down[d])
      /\ \A u \in Devices \ {d} : down'[u] = down[u]
  BY <1>1, DownTaken
<1>3. CASE e # d
  BY <1>1, <1>2, <1>3
<1>4. CASE e = d
  <2>1. PICK q : q = down[d]
    OBVIOUS
  <2>2. q \in Seq(Frames(lastSession)) /\ q # <<>>
    BY <1>1, <2>1 DEF TypeOK
  <2>3. /\ Len(q) \in Nat /\ DOMAIN q = 1..Len(q) /\ DOMAIN Tail(q) = 1..(Len(q) - 1)
        /\ \A j \in 1..(Len(q) - 1) : Tail(q)[j] = q[j + 1]
    BY <2>2, Rest
  <2>4. i + 1 \in DOMAIN q /\ down'[e][i] = q[i + 1]
    <3>1. down'[e] = Tail(q) /\ i \in DOMAIN Tail(q)
      BY <1>2, <1>4, <2>1
    <3>2. i \in 1..(Len(q) - 1) /\ i + 1 \in 1..Len(q)
      BY <2>3, <3>1
    <3> QED
      BY <2>3, <3>1, <3>2
  <2> QED
    BY <1>1, <1>4, <2>1, <2>4
<1> QED
  BY <1>3, <1>4

\* Who has nothing to do with the session stays so.
LEMMA StillAway ==
  ASSUME NEW d \in Devices, Away(d), session' = session, seat' = seat, up'[d] = up[d],
         mode'[d] = "INACTIVE" \/ joined'[d] # session,
         \/ down'[d] = down[d]
         \/ TypeOK /\ down[d] # <<>> /\ down'[d] = Tail(down[d])
  PROVE  Ordered(d)'
<1>1. NoneOf(down'[d], {"ACCEPT", "REJECT"})
  <2>1. CASE down'[d] = down[d]
    BY <2>1 DEF Away
  <2>2. CASE TypeOK /\ down[d] # <<>> /\ down'[d] = Tail(down[d])
    <3>1. PICK q : q = down[d]
      OBVIOUS
    <3>2. q \in Seq(Frames(lastSession)) /\ q # <<>> /\ NoneOf(q, {"ACCEPT", "REJECT"})
      BY <2>2, <3>1 DEF Away, TypeOK
    <3>3. NoneOf(Tail(q), {"ACCEPT", "REJECT"})
      BY <3>2, NoneOfRest
    <3> QED
      BY <2>2, <3>1, <3>3
  <2> QED
    BY <2>1, <2>2
<1>2. NoneOf(down[d], {"ACCEPT", "REJECT"})'
  BY <1>1 DEF NoneOf
<1>3. Away(d)'
  BY <1>2 DEF Away, NoneOf, SaysGoodBye
<1> QED
  BY <1>3 DEF Ordered

\* Joining a session that was hosted.
LEMMA JoinBegun ==
  ASSUME SInv, NEW d \in Devices, NEW s \in Sessions, JoinNearby(d, s)
  PROVE  SInv'
<1>1. /\ TypeOK /\ mode[d] = "INACTIVE" /\ s \in 1..lastSession
      /\ mode' = [mode EXCEPT ![d] = "JOINING"] /\ joined' = [joined EXCEPT ![d] = s]
      /\ patience' = [patience EXCEPT ![d] = 0]
      /\ up' = [up EXCEPT ![d] = Sent(d, Frame("REQUEST", s, 0, 0, d))]
      /\ UNCHANGED <<mySeat, roster, hostVars, down, prompt>>
  BY DEF SInv, JoinNearby
<1>2. /\ session' = session /\ lastSession' = lastSession /\ seat' = seat /\ silence' = silence
      /\ mySeat' = mySeat /\ roster' = roster /\ down' = down /\ prompt' = prompt
  BY <1>1 DEF hostVars
<1>3. PICK f : f = Frame("REQUEST", s, 0, 0, d)
  OBVIOUS
<1>4. s \in 0..lastSession /\ s # 0
  BY <1>1 DEF TypeOK
<1>5. f \in Frames(lastSession) /\ f.type = "REQUEST" /\ f.session = s
  <2>1. "REQUEST" \in FrameTypes /\ 0 \in Players /\ lastSession \in Nat
    BY <1>1, SeatNumbers DEF TypeOK, FrameTypes
  <2>2. f \in Frames(lastSession)
    BY <1>3, <1>4, <2>1, FrameType
  <2> QED
    BY <1>3, <2>2 DEF Frame
<1>6. up' = [up EXCEPT ![d] = Sent(d, f)]
  BY <1>1, <1>3
<1>7. /\ up' \in [Devices -> Seq(Frames(lastSession))]
      /\ \A e \in Devices \ {d} : up'[e] = up[e]
      /\ Len(up[d]) \in Nat /\ Len(up'[d]) = Len(up[d]) + 1
      /\ DOMAIN up[d] = 1..Len(up[d]) /\ DOMAIN up'[d] = 1..(Len(up[d]) + 1)
      /\ up'[d][Len(up[d]) + 1] = f
      /\ \A i \in 1..Len(up[d]) : up'[d][i] = up[d][i]
  BY <1>1, <1>5, <1>6, UpSent
<1>8. TypeOK'
  BY <1>1, <1>2, <1>4, <1>7 DEF TypeOK, Modes
<1>9. OneSeat' /\ Consistent'
  BY <1>1, <1>2, <1>4 DEF SInv, OneSeat, Consistent, TypeOK
<1>10. ASSUME prompt', session' # 0, NEW e \in Devices PROVE Ordered(e)'
  <2>1. Ordered(e)
    BY <1>2, <1>10 DEF SInv
  <2>2. CASE e # d
    <3>1. SameClient(e)
      BY <1>1, <1>2, <2>2 DEF SameClient, TypeOK
    <3> QED
      BY <1>2, <1>7, <2>1, <2>2, <3>1, StandsBy
  <2>3. CASE e = d
    <3>1. Away(d)
      BY <1>1, <2>1, <2>3 DEF Ordered, Member, Asking, Accepted, Refused, Joining
    <3>2. PICK n \in Nat : n = Len(up[d])
      BY <1>7
    <3>3. /\ \A i \in 1..n : ~IsLive(session, up'[d][i], {"REQUEST"})
          /\ \A i \in DOMAIN up'[d] : i \in 1..n \/ i = n + 1
          /\ n + 1 \in DOMAIN up'[d] /\ up'[d][n + 1] = f
      BY <1>7, <3>1, <3>2 DEF Away, NoneOf
    <3>4. mode'[d] = "JOINING" /\ joined'[d] = s /\ patience'[d] = 0
      BY <1>1 DEF TypeOK
    <3>5. ASSUME NEW p \in Seats, seat[p] = d
          PROVE  \E j \in DOMAIN up'[d] : /\ j < n + 1 /\ IsLive(session, up'[d][j], {"LEFT"})
                                          /\ up'[d][j].from = p
      <4>1. PICK j \in DOMAIN up[d] : IsLive(session, up[d][j], {"LEFT"}) /\ up[d][j].from = p
        BY <3>1, <3>5 DEF Away, SaysGoodBye
      <4>2. j \in 1..n /\ j \in DOMAIN up'[d] /\ j < n + 1 /\ up'[d][j] = up[d][j]
        BY <1>7, <3>2, <4>1
      <4> QED
        BY <4>1, <4>2
    <3>6. NoneOf(down[d], {"ACCEPT", "REJECT"})'
      BY <1>2, <3>1 DEF Away, NoneOf
    <3>7. CASE s = session
      <4>1. IsLive(session, f, {"REQUEST"})
        BY <1>5, <3>7 DEF IsLive
      <4>2. \A i \in DOMAIN up'[d] : i # n + 1 => ~IsLive(session, up'[d][i], {"REQUEST"})
        BY <3>3
      <4>3. \A i \in DOMAIN up'[d] : ~(i > n + 1)
        BY <3>3
      <4>4. OnlyAt(up[d], n + 1, {"REQUEST"})' /\ SaysGoodBye(d, n + 1)'
        BY <1>2, <3>5, <4>2 DEF OnlyAt, SaysGoodBye
      <4>5. Joining(d)'
        BY <1>2, <3>4, <3>7 DEF Joining
      <4>6. Asking(d)'
        BY <1>2, <3>3, <3>6, <4>1, <4>3, <4>4, <4>5 DEF Asking
      <4> QED
        BY <2>3, <4>6 DEF Ordered
    <3>8. CASE s # session
      <4>1. ~IsLive(session, f, {"REQUEST"})
        BY <1>5, <3>8 DEF IsLive
      <4>2. NoneOf(up[d], {"REQUEST"})'
        BY <1>2, <3>3, <4>1 DEF NoneOf
      <4>3. \A j \in 1..(n + 2) : j < n + 1 => j < Len(up'[d]) + 1
        BY <1>7, <3>2
      <4>4. SaysGoodBye(d, Len(up[d]) + 1)'
        <5> SUFFICES ASSUME NEW p \in Seats, seat'[p] = d
                     PROVE  \E j \in DOMAIN up'[d] : /\ j < Len(up'[d]) + 1
                                                     /\ IsLive(session', up'[d][j], {"LEFT"})
                                                     /\ up'[d][j].from = p
          BY DEF SaysGoodBye
        <5>1. PICK j \in DOMAIN up'[d] : j < n + 1 /\ IsLive(session, up'[d][j], {"LEFT"})
                                         /\ up'[d][j].from = p
          BY <1>2, <3>5
        <5>2. j < Len(up'[d]) + 1
          BY <1>7, <3>2, <5>1
        <5> QED
          BY <1>2, <5>1, <5>2
      <4>5. Away(d)'
        BY <1>2, <3>4, <3>6, <3>8, <4>2, <4>4 DEF Away
      <4> QED
        BY <2>3, <4>5 DEF Ordered
    <3> QED
      BY <3>7, <3>8
  <2> QED
    BY <2>2, <2>3
<1> QED
  BY <1>8, <1>9, <1>10 DEF SInv

\* leaveSession of a client.
LEMMA ClientLeft ==
  ASSUME SInv, NEW d \in Devices, ClientLeaves(d)
  PROVE  SInv'
<1>1. TypeOK /\ Cleared(d) /\ UNCHANGED <<hostVars, down>> /\ mode[d] # "INACTIVE"
  BY DEF SInv, ClientLeaves
<1>2. /\ session' = session /\ lastSession' = lastSession /\ seat' = seat /\ silence' = silence
      /\ down' = down
  BY <1>1 DEF hostVars
<1>3. PICK f : f = Frame("LEFT", joined[d], mySeat[d], mySeat[d], NoDevice)
  OBVIOUS
<1>4. /\ f \in Frames(lastSession) /\ f.type = "LEFT" /\ f.session = joined[d] /\ f.from = mySeat[d]
  <2>1. /\ "LEFT" \in FrameTypes /\ mySeat[d] \in Players /\ lastSession \in Nat
        /\ joined[d] \in 0..lastSession
    BY <1>1 DEF TypeOK, FrameTypes
  <2>2. f \in Frames(lastSession)
    BY <1>3, <2>1, FrameType
  <2> QED
    BY <1>3, <2>2 DEF Frame
<1>5. /\ ClientsOK' /\ mode'[d] = "INACTIVE"
      /\ \A e \in Devices \ {d} : SameClient(e)
  BY <1>1, <1>2, ClearedIs
<1>6. \/ mode[d] = "CLIENT" /\ up' = [up EXCEPT ![d] = Sent(d, f)] /\ prompt' = prompt
      \/ prompt' = FALSE /\ up' = up
  BY <1>3 DEF ClientLeaves
<1>7. up' \in [Devices -> Seq(Frames(lastSession))] /\ prompt' \in BOOLEAN
  <2>1. CASE up' = [up EXCEPT ![d] = Sent(d, f)] /\ prompt' = prompt
    BY <1>1, <1>4, <2>1, UpSent DEF TypeOK
  <2>2. CASE prompt' = FALSE /\ up' = up
    BY <1>1, <2>2 DEF TypeOK
  <2> QED
    BY <1>6, <2>1, <2>2
<1>8. TypeOK'
  BY <1>1, <1>2, <1>5, <1>7 DEF TypeOK, ClientsOK
<1>9. OneSeat' /\ Consistent'
  <2>1. ASSUME NEW e \in Devices, mode'[e] # "INACTIVE" PROVE joined'[e] # 0
    BY <1>5, <2>1 DEF SInv, Consistent, SameClient
  <2> QED
    BY <1>2, <2>1 DEF SInv, OneSeat, Consistent
<1>10. ASSUME prompt', session' # 0, NEW e \in Devices PROVE Ordered(e)'
  <2>1. mode[d] = "CLIENT" /\ up' = [up EXCEPT ![d] = Sent(d, f)] /\ Ordered(e) /\ Ordered(d)
    BY <1>2, <1>6, <1>10 DEF SInv
  <2>2. /\ \A u \in Devices \ {d} : up'[u] = up[u]
        /\ Len(up[d]) \in Nat /\ Len(up'[d]) = Len(up[d]) + 1
        /\ DOMAIN up[d] = 1..Len(up[d]) /\ DOMAIN up'[d] = 1..(Len(up[d]) + 1)
        /\ up'[d][Len(up[d]) + 1] = f
        /\ \A i \in 1..Len(up[d]) : up'[d][i] = up[d][i]
    BY <1>1, <1>4, <2>1, UpSent
  <2>3. CASE e # d
    BY <1>2, <1>5, <2>1, <2>2, <2>3, StandsBy
  <2>4. CASE e = d
    <3>1. Member(d) \/ Away(d)
      BY <2>1 DEF Ordered, Asking, Accepted, Refused, Joining
    <3>2. PICK n \in Nat : n = Len(up[d])
      BY <2>2
    <3>3. ~IsLive(session, f, {"REQUEST"})
      BY <1>4 DEF IsLive
    <3>4. NoneOf(up[d], {"REQUEST"}) /\ NoneOf(down[d], {"ACCEPT", "REJECT"})
      BY <3>1 DEF Member, Away, NoneOf, IsLive
    <3>5. NoneOf(up[d], {"REQUEST"})'
      <4>1. \A i \in DOMAIN up'[d] : i \in DOMAIN up[d] \/ i = n + 1
        BY <2>2, <3>2
      <4> QED
        BY <1>2, <2>2, <3>2, <3>3, <3>4, <4>1 DEF NoneOf
    <3>6. NoneOf(down[d], {"ACCEPT", "REJECT"})'
      BY <1>2, <3>4 DEF NoneOf
    <3>7. ASSUME NEW p \in Seats, seat[p] = d
          PROVE  \E j \in DOMAIN up'[d] : /\ IsLive(session, up'[d][j], {"LEFT"})
                                          /\ up'[d][j].from = p
      <4>1. CASE Member(d)
        <5>1. p = mySeat[d] /\ joined[d] = session
          BY <3>7, <4>1, DevicesAssumption DEF Member, SInv, OneSeat
        <5>2. n + 1 \in DOMAIN up'[d] /\ up'[d][n + 1] = f
          BY <2>2, <3>2
        <5> QED
          BY <1>4, <5>1, <5>2 DEF IsLive
      <4>2. CASE Away(d)
        <5>1. PICK j \in DOMAIN up[d] : IsLive(session, up[d][j], {"LEFT"}) /\ up[d][j].from = p
          BY <3>7, <4>2 DEF Away, SaysGoodBye
        <5>2. j \in DOMAIN up'[d] /\ up'[d][j] = up[d][j]
          BY <2>2
        <5> QED
          BY <5>1, <5>2
      <4> QED
        BY <3>1, <4>1, <4>2
    <3>8. \A j \in DOMAIN up'[d] : j < Len(up'[d]) + 1
      BY <2>2
    <3>9. SaysGoodBye(d, Len(up[d]) + 1)'
      BY <1>2, <3>7, <3>8 DEF SaysGoodBye
    <3>10. Away(d)'
      BY <1>5, <3>5, <3>6, <3>9 DEF Away
    <3> QED
      BY <2>4, <3>10 DEF Ordered
  <2> QED
    BY <2>3, <2>4
<1> QED
  BY <1>8, <1>9, <1>10 DEF SInv

\* The host connection is given up, or the request.
LEMMA ClientExpired ==
  ASSUME SInv, NEW d \in Devices, ClientExpires(d)
  PROVE  SInv'
<1>1. TypeOK /\ Cleared(d) /\ UNCHANGED <<hostVars, up, down, envVars>> /\ GivesUp(d)
  BY DEF SInv, ClientExpires
<1>2. /\ session' = session /\ lastSession' = lastSession /\ seat' = seat /\ silence' = silence
      /\ down' = down /\ up' = up /\ prompt' = prompt
  BY <1>1 DEF hostVars, envVars
<1>3. /\ ClientsOK' /\ mode'[d] = "INACTIVE"
      /\ \A e \in Devices \ {d} : SameClient(e)
  BY <1>1, <1>2, ClearedIs
<1>4. TypeOK'
  BY <1>1, <1>2, <1>3 DEF TypeOK, ClientsOK
<1>5. OneSeat' /\ Consistent'
  <2>1. ASSUME NEW e \in Devices, mode'[e] # "INACTIVE" PROVE joined'[e] # 0
    BY <1>3, <2>1 DEF SInv, Consistent, SameClient
  <2> QED
    BY <1>2, <2>1 DEF SInv, OneSeat, Consistent
<1>6. ASSUME prompt', session' # 0, NEW e \in Devices PROVE Ordered(e)'
  <2>1. Ordered(e) /\ Ordered(d)
    BY <1>2, <1>6 DEF SInv
  <2>2. CASE e # d
    BY <1>2, <1>3, <2>1, <2>2, StandsBy
  <2>3. CASE e = d
    <3>1. Away(d)
      BY <1>1, <2>1, TimeoutAssumption
        DEF Ordered, Member, Asking, Accepted, Refused, Joining, GivesUp
    <3> QED
      BY <1>2, <1>3, <2>3, <3>1, StillAway
  <2> QED
    BY <2>2, <2>3
<1> QED
  BY <1>4, <1>5, <1>6 DEF SInv

\* A device takes a frame that changes nothing it knows: it is no answer, and
\* says nothing to a member.
LEMMA DeviceSkips ==
  ASSUME TypeOK, NEW d \in Devices, Ordered(d), SameClient(d), session' = session, seat' = seat,
         silence' = silence, up'[d] = up[d], down[d] # <<>>, down'[d] = Tail(down[d]),
         ~IsLive(session, Head(down[d]), {"ACCEPT", "REJECT"}),
         mode[d] = "CLIENT" /\ joined[d] = session => Head(down[d]).session # session
  PROVE  Ordered(d)'
<1>1. PICK q, S : q = down[d] /\ S = Frames(lastSession)
  OBVIOUS
<1>2. q \in Seq(S) /\ q # <<>> /\ down'[d] = Tail(q)
  BY <1>1 DEF TypeOK
<1>3. /\ Len(q) \in Nat \ {0} /\ DOMAIN q = 1..Len(q) /\ Head(q) = q[1]
      /\ DOMAIN Tail(q) = 1..(Len(q) - 1)
  BY <1>2, Rest
<1>4. \A types : NoneOf(q, types) => NoneOf(Tail(q), types)
  BY <1>2, NoneOfRest
<1>5. ASSUME NEW i \in DOMAIN q, i # 1
      PROVE  /\ i - 1 \in DOMAIN Tail(q) /\ Tail(q)[i - 1] = q[i] /\ i - 1 \in Nat
             /\ i \in Nat /\ i > 0
             /\ \A types : OnlyAt(q, i, types) => OnlyAt(Tail(q), i - 1, types)
  BY <1>2, <1>5, MovesUp
<1>6. CASE Member(d)
  <2>1. q[1].session # session
    BY <1>1, <1>3, <1>6 DEF Member
  <2>2. \A p \in Seats \ {mySeat[d]} : Tells(session, Tail(q), 0, p, roster[d][p], seat[p])
    <3> SUFFICES ASSUME NEW p \in Seats \ {mySeat[d]}
                 PROVE  Tells(session, Tail(q), 0, p, roster[d][p], seat[p])
      OBVIOUS
    <3>1. PICK old, x : old = roster[d][p] /\ x = seat[p]
      OBVIOUS
    <3>2. Tells(session, q, 0, p, old, x)
      BY <1>1, <1>6, <3>1 DEF Member
    <3>3. ~Says(session, Head(q), p)
      BY <1>3, <2>1 DEF Says
    <3>4. Tells(session, Tail(q), 0, p, IF Says(session, Head(q), p) THEN Head(q).device ELSE old, x)
      BY <1>2, <3>2, TellsRest
    <3> QED
      BY <3>1, <3>3, <3>4
  <2>3. \/ patience[d] = 0
        \/ patience[d] = 1 /\ \E i \in DOMAIN Tail(q) : IsLive(session, Tail(q)[i], {"HEARTBEAT"})
    <3>1. CASE patience[d] # 0
      <4>1. patience[d] = 1
        BY <1>6, <3>1 DEF Member
      <4>2. PICK i \in DOMAIN q : IsLive(session, q[i], {"HEARTBEAT"})
        BY <1>1, <1>6, <3>1 DEF Member
      <4>3. i # 1
        BY <2>1, <4>2 DEF IsLive
      <4>4. i - 1 \in DOMAIN Tail(q) /\ Tail(q)[i - 1] = q[i]
        BY <1>5, <4>3
      <4> QED
        BY <4>1, <4>2, <4>4
    <3> QED
      BY <3>1
  <2>4. NoneOf(Tail(q), {"ACCEPT", "REJECT"})
    BY <1>1, <1>4, <1>6 DEF Member
  <2>5. NoneOf(down[d], {"ACCEPT", "REJECT"})' /\ NoneOf(up[d], {"REQUEST", "LEFT"})'
    BY <1>2, <1>6, <2>4 DEF Member, NoneOf
  <2>6. Member(d)'
    BY <1>2, <1>6, <2>2, <2>3, <2>5 DEF Member, SameClient
  <2> QED
    BY <2>6 DEF Ordered
<1>7. CASE Asking(d)
  <2>1. NoneOf(Tail(q), {"ACCEPT", "REJECT"})
    BY <1>1, <1>4, <1>7 DEF Asking
  <2>2. NoneOf(down[d], {"ACCEPT", "REJECT"})'
    BY <1>2, <2>1 DEF NoneOf
  <2>3. Asking(d)'
    BY <1>7, <2>2 DEF Asking, Joining, SameClient, OnlyAt, SaysGoodBye
  <2> QED
    BY <2>3 DEF Ordered
<1>8. CASE Accepted(d)
  <2>1. PICK i \in DOMAIN q :
          /\ IsLive(session, q[i], {"ACCEPT"})
          /\ OnlyAt(q, i, {"ACCEPT", "REJECT"})
          /\ q[i].player \in Seats
          /\ seat[q[i].player] = d /\ silence[q[i].player] = 0
          /\ \A p \in Seats \ {q[i].player} : Tells(session, q, i, p, NoDevice, seat[p])
    BY <1>1, <1>8 DEF Accepted
  <2>2. i # 1
    BY <1>1, <1>3, <2>1 DEF IsLive
  <2>3. /\ i - 1 \in DOMAIN Tail(q) /\ Tail(q)[i - 1] = q[i]
        /\ i \in Nat /\ i > 0
        /\ OnlyAt(Tail(q), i - 1, {"ACCEPT", "REJECT"})
    BY <1>5, <2>1, <2>2
  <2>4. \A p \in Seats \ {q[i].player} : Tells(session, Tail(q), i - 1, p, NoDevice, seat[p])
    <3> SUFFICES ASSUME NEW p \in Seats \ {q[i].player}
                 PROVE  Tells(session, Tail(q), i - 1, p, NoDevice, seat[p])
      OBVIOUS
    <3>1. PICK x : x = seat[p]
      OBVIOUS
    <3>2. Tells(session, q, i, p, NoDevice, x)
      BY <2>1, <3>1
    <3>3. Tells(session, Tail(q), i - 1, p, NoDevice, x)
      BY <1>2, <2>3, <3>2, TellsRest
    <3> QED
      BY <3>1, <3>3
  <2>5. OnlyAt(down[d], i - 1, {"ACCEPT", "REJECT"})'
    BY <1>2, <2>3 DEF OnlyAt
  <2>6. Joining(d)' /\ NoneOf(up[d], {"REQUEST", "LEFT"})'
    BY <1>8 DEF Accepted, Joining, SameClient, NoneOf
  <2>7. Accepted(d)'
    BY <1>2, <2>1, <2>3, <2>4, <2>5, <2>6 DEF Accepted
  <2> QED
    BY <2>7 DEF Ordered
<1>9. CASE Refused(d)
  <2>1. PICK i \in DOMAIN q : /\ IsLive(session, q[i], {"REJECT"})
                              /\ OnlyAt(q, i, {"ACCEPT", "REJECT"})
    BY <1>1, <1>9 DEF Refused
  <2>2. i # 1
    BY <1>1, <1>3, <2>1 DEF IsLive
  <2>3. /\ i - 1 \in DOMAIN Tail(q) /\ Tail(q)[i - 1] = q[i]
        /\ OnlyAt(Tail(q), i - 1, {"ACCEPT", "REJECT"})
    BY <1>5, <2>1, <2>2
  <2>4. OnlyAt(down[d], i - 1, {"ACCEPT", "REJECT"})'
    BY <1>2, <2>3 DEF OnlyAt
  <2>5. Joining(d)' /\ NoneOf(up[d], {"REQUEST", "LEFT"})'
    BY <1>9 DEF Refused, Joining, SameClient, NoneOf
  <2>6. Refused(d)'
    BY <1>2, <1>9, <2>1, <2>3, <2>4, <2>5 DEF Refused
  <2> QED
    BY <2>6 DEF Ordered
<1>10. CASE Away(d)
  BY <1>10, StillAway DEF SameClient, Away
<1> QED
  BY <1>6, <1>7, <1>8, <1>9, <1>10 DEF Ordered

\* processJoinAccept, processJoinReject.
LEMMA AnswerMet ==
  ASSUME SInv, NEW d \in Devices, ClientAnswered(d)
  PROVE  SInv'
<1>1. PICK frame : frame = Head(down[d])
  OBVIOUS
<1>2. /\ TypeOK /\ down[d] # <<>> /\ frame.type \in {"ACCEPT", "REJECT"} /\ DeviceTakes(d)
      /\ UNCHANGED <<hostVars, up, envVars>>
  BY <1>1 DEF SInv, ClientAnswered
<1>3. /\ session' = session /\ lastSession' = lastSession /\ seat' = seat /\ silence' = silence
      /\ up' = up /\ prompt' = prompt
  BY <1>2 DEF hostVars, envVars
<1>4. /\ down' \in [Devices -> Seq(Frames(lastSession))]
      /\ down'[d] = Tail(down[d])
      /\ \A e \in Devices \ {d} : down'[e] = down[e]
      /\ Head(down[d]) \in Frames(lastSession)
  BY <1>2, DownTaken
<1>5. frame.player \in Players
  BY <1>1, <1>4 DEF Frames
<1>6. \A e \in Devices : \A i \in DOMAIN down'[e] : Farewell(session', down'[e][i])
  BY <1>2, <1>3, RestFarewell
<1> DEFINE expected == mode[d] = "JOINING" /\ frame.session = joined[d]
           fresh == [NoRoster EXCEPT ![0] = HostDevice, ![frame.player] = d]
<1>7. ASSUME expected, frame.type = "ACCEPT",
             mode' = [mode EXCEPT ![d] = "CLIENT"],
             mySeat' = [mySeat EXCEPT ![d] = frame.player],
             roster' = [roster EXCEPT ![d] = fresh],
             patience' = [patience EXCEPT ![d] = 0],
             UNCHANGED joined
      PROVE  SInv'
  <2>1. fresh \in [Players -> Devices \cup {NoDevice, HostDevice}]
        /\ \A p \in Seats \ {frame.player} : fresh[p] = NoDevice
    BY <1>5, SeatNumbers DEF NoRoster
  <2> HIDE DEF fresh
  <2>2. TypeOK'
    BY <1>2, <1>3, <1>4, <1>5, <1>7, <2>1 DEF TypeOK, Modes
  <2>3. OneSeat'
    BY <1>3 DEF SInv, OneSeat
  <2>4. \A e \in Devices : mode'[e] # "INACTIVE" => joined'[e] # 0
    BY <1>2, <1>7 DEF SInv, Consistent, TypeOK
  <2>5. Consistent'
    BY <1>3, <1>6, <2>4 DEF SInv, Consistent
  <2>6. ASSUME prompt', session' # 0, NEW e \in Devices PROVE Ordered(e)'
    <3>1. Ordered(e)
      BY <1>3, <2>6 DEF SInv
    <3>2. CASE e # d
      <4>1. SameClient(e)
        BY <1>2, <1>7, <3>2 DEF SameClient, TypeOK
      <4> QED
        BY <1>3, <1>4, <3>1, <3>2, <4>1, StandsBy
    <3>3. CASE e = d /\ joined[d] # session
      <4>1. Away(d)
        BY <3>1, <3>3 DEF Ordered, Member, Asking, Accepted, Refused, Joining
      <4> QED
        BY <1>2, <1>3, <1>4, <1>7, <3>3, <4>1, StillAway
    <3>4. CASE e = d /\ joined[d] = session
      <4>1. PICK q : q = down[d]
        OBVIOUS
      <4>2. q \in Seq(Frames(lastSession)) /\ q # <<>> /\ down'[d] = Tail(q)
        BY <1>2, <1>4, <4>1 DEF TypeOK
      <4>3. /\ Len(q) \in Nat \ {0} /\ DOMAIN q = 1..Len(q) /\ q[1] = frame
            /\ DOMAIN Tail(q) = 1..(Len(q) - 1)
            /\ \A i \in 1..(Len(q) - 1) : Tail(q)[i] = q[i + 1]
        BY <1>1, <4>1, <4>2, Rest
      <4>4. 1 \in DOMAIN q /\ IsLive(session, q[1], {"ACCEPT", "REJECT"})
            /\ ~IsLive(session, q[1], {"REJECT"})
        BY <1>7, <3>4, <4>3 DEF IsLive
      <4>5. ~NoneOf(q, {"ACCEPT", "REJECT"})
        BY <4>4 DEF NoneOf
      <4>6. ~Refused(d)
        BY <4>1, <4>4 DEF Refused, OnlyAt
      <4>7. Accepted(d)
        BY <3>1, <3>4, <4>1, <4>5, <4>6 DEF Ordered, Member, Asking, Away
      <4>8. PICK i \in DOMAIN q :
              /\ OnlyAt(q, i, {"ACCEPT", "REJECT"})
              /\ q[i].player \in Seats
              /\ seat[q[i].player] = d /\ silence[q[i].player] = 0
              /\ \A p \in Seats \ {q[i].player} : Tells(session, q, i, p, NoDevice, seat[p])
        BY <4>1, <4>7 DEF Accepted
      <4>9. i = 1
        BY <4>4, <4>8 DEF OnlyAt
      <4>10. /\ frame.player \in Seats /\ seat[frame.player] = d /\ silence[frame.player] = 0
             /\ \A p \in Seats \ {frame.player} : Tells(session, q, 1, p, NoDevice, seat[p])
        BY <4>3, <4>8, <4>9
      <4>11. \A p \in Seats \ {frame.player} : Tells(session, Tail(q), 0, p, NoDevice, seat[p])
        <5> SUFFICES ASSUME NEW p \in Seats \ {frame.player}
                     PROVE  Tells(session, Tail(q), 0, p, NoDevice, seat[p])
          OBVIOUS
        <5>1. PICK x, n : x = seat[p] /\ n = 1
          OBVIOUS
        <5>2. Tells(session, q, n, p, NoDevice, x) /\ n \in Nat /\ n > 0
          BY <4>10, <5>1
        <5>3. Tells(session, Tail(q), n - 1, p, NoDevice, x)
          BY <4>2, <5>2, TellsRest
        <5> QED
          BY <5>1, <5>3
      <4>12. NoneOf(Tail(q), {"ACCEPT", "REJECT"})
        <5> SUFFICES ASSUME NEW j \in DOMAIN Tail(q)
                     PROVE  ~IsLive(session, Tail(q)[j], {"ACCEPT", "REJECT"})
          BY DEF NoneOf
        <5>1. j + 1 \in DOMAIN q /\ j + 1 # 1 /\ Tail(q)[j] = q[j + 1]
          BY <4>3
        <5> QED
          BY <4>8, <4>9, <5>1 DEF OnlyAt
      <4>13. NoneOf(down[d], {"ACCEPT", "REJECT"})' /\ NoneOf(up[d], {"REQUEST", "LEFT"})'
        BY <1>3, <4>2, <4>7, <4>12 DEF Accepted, NoneOf
      <4>14. /\ mode'[d] = "CLIENT" /\ mySeat'[d] = frame.player /\ roster'[d] = fresh
             /\ patience'[d] = 0 /\ joined'[d] = session
        BY <1>2, <1>7, <3>4 DEF TypeOK
      <4>15. \A p \in Seats \ {frame.player} :
               Tells(session', down'[d], 0, p, roster'[d][p], seat'[p])
        BY <1>3, <2>1, <4>2, <4>11, <4>14
      <4>16. Member(d)'
        BY <1>3, <4>10, <4>13, <4>14, <4>15 DEF Member
      <4> QED
        BY <3>4, <4>16 DEF Ordered
    <3> QED
      BY <3>2, <3>3, <3>4
  <2> QED
    BY <2>2, <2>3, <2>5, <2>6 DEF SInv
<1>8. ASSUME expected, frame.type = "REJECT", Cleared(d)
      PROVE  SInv'
  <2>1. /\ ClientsOK' /\ mode'[d] = "INACTIVE"
        /\ \A e \in Devices \ {d} : SameClient(e)
    BY <1>2, <1>3, <1>8, ClearedIs
  <2>2. TypeOK'
    BY <1>2, <1>3, <1>4, <2>1 DEF TypeOK, ClientsOK
  <2>3. \A e \in Devices : mode'[e] # "INACTIVE" => joined'[e] # 0
    BY <2>1 DEF SInv, Consistent, SameClient
  <2>4. OneSeat' /\ Consistent'
    BY <1>3, <1>6, <2>3 DEF SInv, OneSeat, Consistent
  <2>5. ASSUME prompt', session' # 0, NEW e \in Devices PROVE Ordered(e)'
    <3>1. Ordered(e)
      BY <1>3, <2>5 DEF SInv
    <3>2. CASE e # d
      BY <1>3, <1>4, <2>1, <3>1, <3>2, StandsBy
    <3>3. CASE e = d /\ joined[d] # session
      <4>1. Away(d)
        BY <3>1, <3>3 DEF Ordered, Member, Asking, Accepted, Refused, Joining
      <4> QED
        BY <1>2, <1>3, <1>4, <2>1, <3>3, <4>1, StillAway
    <3>4. CASE e = d /\ joined[d] = session
      <4>1. PICK q : q = down[d]
        OBVIOUS
      <4>2. q \in Seq(Frames(lastSession)) /\ q # <<>> /\ down'[d] = Tail(q)
        BY <1>2, <1>4, <4>1 DEF TypeOK
      <4>3. /\ Len(q) \in Nat \ {0} /\ DOMAIN q = 1..Len(q) /\ q[1] = frame
            /\ DOMAIN Tail(q) = 1..(Len(q) - 1)
            /\ \A i \in 1..(Len(q) - 1) : Tail(q)[i] = q[i + 1]
        BY <1>1, <4>1, <4>2, Rest
      <4>4. 1 \in DOMAIN q /\ IsLive(session, q[1], {"ACCEPT", "REJECT"})
            /\ ~IsLive(session, q[1], {"ACCEPT"})
        BY <1>8, <3>4, <4>3 DEF IsLive
      <4>5. ~NoneOf(q, {"ACCEPT", "REJECT"})
        BY <4>4 DEF NoneOf
      <4>6. ~Accepted(d)
        BY <4>1, <4>4 DEF Accepted, OnlyAt
      <4>7. Refused(d)
        BY <3>1, <3>4, <4>1, <4>5, <4>6 DEF Ordered, Member, Asking, Away
      <4>8. PICK i \in DOMAIN q : OnlyAt(q, i, {"ACCEPT", "REJECT"})
        BY <4>1, <4>7 DEF Refused
      <4>9. i = 1
        BY <4>4, <4>8 DEF OnlyAt
      <4>10. NoneOf(Tail(q), {"ACCEPT", "REJECT"})
        <5> SUFFICES ASSUME NEW j \in DOMAIN Tail(q)
                     PROVE  ~IsLive(session, Tail(q)[j], {"ACCEPT", "REJECT"})
          BY DEF NoneOf
        <5>1. j + 1 \in DOMAIN q /\ j + 1 # 1 /\ Tail(q)[j] = q[j + 1]
          BY <4>3
        <5> QED
          BY <4>8, <4>9, <5>1 DEF OnlyAt
      <4>11. NoneOf(down[d], {"ACCEPT", "REJECT"})' /\ NoneOf(up[d], {"REQUEST"})'
        BY <1>3, <4>2, <4>7, <4>10 DEF Refused, NoneOf, IsLive
      <4>12. SaysGoodBye(d, Len(up[d]) + 1)'
        BY <1>3, <4>7 DEF Refused, SaysGoodBye
      <4>13. Away(d)'
        BY <2>1, <4>11, <4>12 DEF Away
      <4> QED
        BY <3>4, <4>13 DEF Ordered
    <3> QED
      BY <3>2, <3>3, <3>4
  <2> QED
    BY <2>2, <2>4, <2>5 DEF SInv
<1>9. ASSUME ~expected, UNCHANGED clientVars
      PROVE  SInv'
  <2>1. TypeOK'
    BY <1>2, <1>3, <1>4, <1>9 DEF TypeOK, clientVars
  <2>2. OneSeat' /\ Consistent'
    BY <1>3, <1>6, <1>9 DEF SInv, OneSeat, Consistent, clientVars
  <2>3. ASSUME prompt', session' # 0, NEW e \in Devices PROVE Ordered(e)'
    <3>1. Ordered(e) /\ SameClient(e)
      BY <1>3, <1>9, <2>3 DEF SInv, SameClient, clientVars
    <3>2. CASE e # d
      BY <1>3, <1>4, <3>1, <3>2, StandsBy
    <3>3. CASE e = d
      <4>1. frame.session # session
        <5> SUFFICES ASSUME frame.session = session PROVE FALSE
          OBVIOUS
        <5>1. PICK q : q = down[d]
          OBVIOUS
        <5>2. q \in Seq(Frames(lastSession)) /\ q # <<>>
          BY <1>2, <5>1 DEF TypeOK
        <5>3. 1 \in DOMAIN q /\ q[1] = frame
          BY <1>1, <5>1, <5>2, Rest
        <5>4. ~NoneOf(q, {"ACCEPT", "REJECT"})
          BY <1>2, <5>3 DEF NoneOf, IsLive
        <5>5. Joining(d)
          BY <3>1, <3>3, <5>1, <5>4 DEF Ordered, Member, Asking, Accepted, Refused, Away
        <5> QED
          BY <1>9, <5>5 DEF Joining
      <4>2. ~IsLive(session, Head(down[d]), {"ACCEPT", "REJECT"})
            /\ Head(down[d]).session # session
        BY <1>1, <4>1 DEF IsLive
      <4> QED
        BY <1>2, <1>3, <1>4, <3>1, <3>3, <4>2, DeviceSkips
    <3> QED
      BY <3>2, <3>3
  <2> QED
    BY <2>1, <2>2, <2>3 DEF SInv
<1>10. \/ /\ expected
          /\ frame.type = "ACCEPT"
          /\ mode' = [mode EXCEPT ![d] = "CLIENT"]
          /\ mySeat' = [mySeat EXCEPT ![d] = frame.player]
          /\ roster' = [roster EXCEPT ![d] = fresh]
          /\ patience' = [patience EXCEPT ![d] = 0]
          /\ UNCHANGED joined
       \/ /\ expected
          /\ frame.type = "REJECT"
          /\ Cleared(d)
       \/ /\ ~expected
          /\ UNCHANGED clientVars
  BY <1>1 DEF ClientAnswered
<1> HIDE DEF expected, fresh
<1> QED
  BY <1>7, <1>8, <1>9, <1>10

\* processHeartbeat, processPlayerJoined and processPlayerLeft at a member.
LEMMA NewsHeard ==
  ASSUME SInv, NEW d \in Devices, down[d] # <<>>, DeviceTakes(d),
         NEW frame, frame = Head(down[d]), frame.type \in {"HEARTBEAT", "JOINED", "LEFT"},
         ClientKnows(d, frame), ~(frame.type = "LEFT" /\ frame.player = 0),
         patience' = [patience EXCEPT ![d] = 0],
         NEW list,
         frame.type = "LEFT" => list = AfterLeft(d, frame.player),
         frame.type = "JOINED" => list = AfterJoined(d, frame.player, frame.device),
         frame.type = "HEARTBEAT" => list = roster[d],
         roster' = [roster EXCEPT ![d] = list],
         UNCHANGED <<mode, joined, mySeat, hostVars, up, envVars>>
  PROVE  SInv'
<1>1. TypeOK
  BY DEF SInv
<1>2. /\ session' = session /\ lastSession' = lastSession /\ seat' = seat /\ silence' = silence
      /\ up' = up /\ prompt' = prompt /\ mode' = mode /\ joined' = joined /\ mySeat' = mySeat
  BY DEF hostVars, envVars
<1>3. /\ down' \in [Devices -> Seq(Frames(lastSession))]
      /\ down'[d] = Tail(down[d])
      /\ \A e \in Devices \ {d} : down'[e] = down[e]
      /\ frame \in Frames(lastSession)
  BY <1>1, DownTaken
<1>4. \A e \in Devices : \A i \in DOMAIN down'[e] : Farewell(session', down'[e][i])
  BY <1>2, RestFarewell
<1>5. /\ frame.player \in Players /\ frame.device \in Devices \cup {NoDevice, HostDevice}
      /\ roster[d] \in [Players -> Devices \cup {NoDevice, HostDevice}]
  BY <1>1, <1>3 DEF Frames, TypeOK
<1>6. list \in [Players -> Devices \cup {NoDevice, HostDevice}]
  <2>1. CASE frame.type = "LEFT"
    BY <1>5, <2>1 DEF AfterLeft
  <2>2. CASE frame.type = "JOINED"
    BY <1>5, <2>2 DEF AfterJoined
  <2>3. CASE frame.type = "HEARTBEAT"
    BY <1>5, <2>3
  <2> QED
    BY <2>1, <2>2, <2>3
<1>7. TypeOK'
  BY <1>1, <1>2, <1>3, <1>6 DEF TypeOK
<1>8. OneSeat' /\ Consistent'
  BY <1>2, <1>4 DEF SInv, OneSeat, Consistent
<1>9. ASSUME prompt', session' # 0, NEW e \in Devices PROVE Ordered(e)'
  <2>1. Ordered(e)
    BY <1>2, <1>9 DEF SInv
  <2>2. CASE e # d
    <3>1. SameClient(e)
      BY <1>1, <1>2, <2>2 DEF SameClient, TypeOK
    <3> QED
      BY <1>2, <1>3, <2>1, <2>2, <3>1, StandsBy
  <2>3. CASE e = d /\ joined[d] # session
    <3>1. Away(d)
      BY <2>1, <2>3 DEF Ordered, Member, Asking, Accepted, Refused, Joining
    <3> QED
      BY <1>1, <1>2, <1>3, <2>3, <3>1, StillAway
  <2>4. CASE e = d /\ joined[d] = session
    <3>1. Member(d)
      BY <2>1, <2>4 DEF Ordered, Asking, Accepted, Refused, Away, Joining, ClientKnows
    <3>2. PICK q : q = down[d]
      OBVIOUS
    <3>3. q \in Seq(Frames(lastSession)) /\ q # <<>> /\ down'[d] = Tail(q) /\ Head(q) = frame
      BY <1>1, <1>3, <3>2 DEF TypeOK
    <3>4. frame.session = session
      BY <2>4 DEF ClientKnows
    <3>5. frame.type = "LEFT" => frame.device = NoDevice
      <4>1. 1 \in DOMAIN q /\ q[1] = frame
        BY <3>3, Rest
      <4>2. Farewell(session, frame)
        BY <3>2, <4>1 DEF SInv, Consistent
      <4> QED
        BY <4>2 DEF Farewell
    <3>6. \A p \in Seats \ {mySeat[d]} :
            list[p] = IF Says(session, frame, p) THEN frame.device ELSE roster[d][p]
      <4> SUFFICES ASSUME NEW p \in Seats \ {mySeat[d]}
                   PROVE  list[p] = IF Says(session, frame, p) THEN frame.device ELSE roster[d][p]
        OBVIOUS
      <4>1. p \in Players /\ p # mySeat[d]
        BY SeatNumbers
      <4>2. CASE frame.type = "LEFT"
        BY <1>5, <3>4, <3>5, <4>1, <4>2 DEF AfterLeft, Says
      <4>3. CASE frame.type = "JOINED"
        BY <1>5, <3>4, <4>1, <4>3 DEF AfterJoined, Says
      <4>4. CASE frame.type = "HEARTBEAT"
        BY <4>4 DEF Says
      <4> QED
        BY <4>2, <4>3, <4>4
    <3>7. \A p \in Seats \ {mySeat[d]} : Tells(session, Tail(q), 0, p, list[p], seat[p])
      <4> SUFFICES ASSUME NEW p \in Seats \ {mySeat[d]}
                   PROVE  Tells(session, Tail(q), 0, p, list[p], seat[p])
        OBVIOUS
      <4>1. PICK old, x : old = roster[d][p] /\ x = seat[p]
        OBVIOUS
      <4>2. Tells(session, q, 0, p, old, x)
        BY <3>1, <3>2, <4>1 DEF Member
      <4>3. Tells(session, Tail(q), 0, p, IF Says(session, Head(q), p) THEN Head(q).device ELSE old, x)
        BY <3>3, <4>2, TellsRest
      <4>4. list[p] = IF Says(session, Head(q), p) THEN Head(q).device ELSE old
        BY <3>3, <3>6, <4>1
      <4> QED
        BY <4>1, <4>3, <4>4
    <3>8. NoneOf(Tail(q), {"ACCEPT", "REJECT"})
      <4>1. NoneOf(q, {"ACCEPT", "REJECT"})
        BY <3>1, <3>2 DEF Member
      <4> QED
        BY <3>3, <4>1, NoneOfRest
    <3>9. NoneOf(down[d], {"ACCEPT", "REJECT"})' /\ NoneOf(up[d], {"REQUEST", "LEFT"})'
      BY <1>2, <3>1, <3>3, <3>8 DEF Member, NoneOf
    <3>10. roster'[d] = list /\ patience'[d] = 0
      BY <1>1 DEF TypeOK
    <3>11. \A p \in Seats \ {mySeat'[d]} :
             Tells(session', down'[d], 0, p, roster'[d][p], seat'[p])
      BY <1>2, <3>3, <3>7, <3>10
    <3>12. Member(d)'
      BY <1>2, <3>1, <3>9, <3>10, <3>11 DEF Member
    <3> QED
      BY <2>4, <3>12 DEF Ordered
  <2> QED
    BY <2>2, <2>3, <2>4
<1> QED
  BY <1>7, <1>8, <1>9 DEF SInv

LEMMA ClientHeard ==
  ASSUME SInv, NEW d \in Devices, ClientHears(d)
  PROVE  SInv'
<1>1. PICK frame : frame = Head(down[d])
  OBVIOUS
<1>2. /\ TypeOK /\ down[d] # <<>> /\ frame.type \in {"HEARTBEAT", "JOINED", "LEFT"} /\ DeviceTakes(d)
      /\ UNCHANGED <<hostVars, up, envVars>>
  BY <1>1 DEF SInv, ClientHears
<1>3. /\ session' = session /\ lastSession' = lastSession /\ seat' = seat /\ silence' = silence
      /\ up' = up /\ prompt' = prompt
  BY <1>2 DEF hostVars, envVars
<1>4. /\ down' \in [Devices -> Seq(Frames(lastSession))]
      /\ down'[d] = Tail(down[d])
      /\ \A e \in Devices \ {d} : down'[e] = down[e]
  BY <1>2, DownTaken
<1>5. \A e \in Devices : \A i \in DOMAIN down'[e] : Farewell(session', down'[e][i])
  BY <1>2, <1>3, RestFarewell
<1>6. ASSUME ~ClientKnows(d, frame), UNCHANGED clientVars
      PROVE  SInv'
  <2>1. TypeOK'
    BY <1>2, <1>3, <1>4, <1>6 DEF TypeOK, clientVars
  <2>2. OneSeat' /\ Consistent'
    BY <1>3, <1>5, <1>6 DEF SInv, OneSeat, Consistent, clientVars
  <2>3. ASSUME prompt', session' # 0, NEW e \in Devices PROVE Ordered(e)'
    <3>1. Ordered(e) /\ SameClient(e)
      BY <1>3, <1>6, <2>3 DEF SInv, SameClient, clientVars
    <3>2. CASE e # d
      BY <1>3, <1>4, <3>1, <3>2, StandsBy
    <3>3. CASE e = d
      <4>1. ~IsLive(session, Head(down[d]), {"ACCEPT", "REJECT"})
        BY <1>1, <1>2 DEF IsLive
      <4>2. mode[d] = "CLIENT" /\ joined[d] = session => Head(down[d]).session # session
        BY <1>1, <1>6 DEF ClientKnows
      <4> QED
        BY <1>2, <1>3, <1>4, <3>1, <3>3, <4>1, <4>2, DeviceSkips
    <3> QED
      BY <3>2, <3>3
  <2> QED
    BY <2>1, <2>2, <2>3 DEF SInv
<1>7. ASSUME ClientKnows(d, frame), frame.type = "LEFT", frame.player = 0, Cleared(d)
      PROVE  SInv'
  <2>1. /\ ClientsOK' /\ mode'[d] = "INACTIVE"
        /\ \A e \in Devices \ {d} : SameClient(e)
    BY <1>2, <1>3, <1>7, ClearedIs
  <2>2. TypeOK'
    BY <1>2, <1>3, <1>4, <2>1 DEF TypeOK, ClientsOK
  <2>3. \A e \in Devices : mode'[e] # "INACTIVE" => joined'[e] # 0
    BY <2>1 DEF SInv, Consistent, SameClient
  <2>4. OneSeat' /\ Consistent'
    BY <1>3, <1>5, <2>3 DEF SInv, OneSeat, Consistent
  <2>5. ASSUME prompt', session' # 0, NEW e \in Devices PROVE Ordered(e)'
    <3>1. Ordered(e)
      BY <1>3, <2>5 DEF SInv
    <3>2. CASE e # d
      BY <1>3, <1>4, <2>1, <3>1, <3>2, StandsBy
    <3>3. CASE e = d
      <4>1. joined[d] # session
        <5>1. PICK q : q = down[d]
          OBVIOUS
        <5>2. q \in Seq(Frames(lastSession)) /\ q # <<>>
          BY <1>2, <5>1 DEF TypeOK
        <5>3. 1 \in DOMAIN q /\ q[1] = frame
          BY <1>1, <5>1, <5>2, Rest
        <5>4. Farewell(session, frame)
          BY <5>1, <5>3 DEF SInv, Consistent
        <5> QED
          BY <1>3, <1>7, <2>5, <5>4 DEF Farewell, ClientKnows
      <4>2. Away(d)
        BY <3>1, <3>3, <4>1 DEF Ordered, Member, Asking, Accepted, Refused, Joining
      <4> QED
        BY <1>2, <1>3, <1>4, <2>1, <3>3, <4>2, StillAway
    <3> QED
      BY <3>2, <3>3
  <2> QED
    BY <2>2, <2>4, <2>5 DEF SInv
<1> DEFINE list == CASE frame.type = "LEFT" -> AfterLeft(d, frame.player)
                     [] frame.type = "JOINED" -> AfterJoined(d, frame.player, frame.device)
                     [] OTHER -> roster[d]
<1>8. ASSUME ClientKnows(d, frame), ~(frame.type = "LEFT" /\ frame.player = 0),
             patience' = [patience EXCEPT ![d] = 0],
             roster' = [roster EXCEPT ![d] = list],
             UNCHANGED <<mode, joined, mySeat>>
      PROVE  SInv'
  <2>1. PICK l : l = list
    OBVIOUS
  <2>2. /\ frame.type = "LEFT" => l = AfterLeft(d, frame.player)
        /\ frame.type = "JOINED" => l = AfterJoined(d, frame.player, frame.device)
        /\ frame.type = "HEARTBEAT" => l = roster[d]
    BY <2>1
  <2>3. roster' = [roster EXCEPT ![d] = l]
    BY <1>8, <2>1
  <2>4. UNCHANGED <<mode, joined, mySeat, hostVars, up, envVars>>
    BY <1>2, <1>8
  <2> HIDE DEF list
  <2> QED
    BY <1>1, <1>2, <1>8, <2>2, <2>3, <2>4, NewsHeard
<1>9. \/ ~ClientKnows(d, frame) /\ UNCHANGED clientVars
      \/ ClientKnows(d, frame) /\ frame.type = "LEFT" /\ frame.player = 0 /\ Cleared(d)
      \/ /\ ClientKnows(d, frame)
         /\ ~(frame.type = "LEFT" /\ frame.player = 0)
         /\ patience' = [patience EXCEPT ![d] = 0]
         /\ roster' = [roster EXCEPT ![d] = list]
         /\ UNCHANGED <<mode, joined, mySeat>>
  BY <1>1 DEF ClientHears
<1> HIDE DEF list
<1> QED
  BY <1>6, <1>7, <1>8, <1>9

-----------------------------------------------------------------------------
(* Time and radio *)

\* What the host and a device send in a heartbeat interval.
Beat == Frame("HEARTBEAT", session, 0, 0, NoDevice)

Beats == [d \in Devices |-> IF InSeat(d) # {} THEN <<Beat>> ELSE <<>>]

Voice(d) ==
  CASE mode[d] = "CLIENT" -> <<Frame("HEARTBEAT", joined[d], mySeat[d], 0, NoDevice)>>
    [] mode[d] = "JOINING" -> <<Frame("REQUEST", joined[d], 0, 0, d)>>
    [] OTHER -> <<>>

LEMMA BeatsType ==
  ASSUME TypeOK
  PROVE  /\ Beat \in Frames(lastSession)
         /\ Beats \in [Devices -> Seq(Frames(lastSession))]
         /\ \A e \in Devices : \A i \in DOMAIN Beats[e] : Farewell(session, Beats[e][i])
<1>1. PICK f : f = Beat
  OBVIOUS
<1>2. f \in Frames(lastSession) /\ f.type = "HEARTBEAT"
  <2>1. /\ "HEARTBEAT" \in FrameTypes /\ session \in 0..lastSession /\ 0 \in Players
        /\ lastSession \in Nat
    BY SeatNumbers DEF TypeOK, FrameTypes
  <2>2. f \in Frames(lastSession)
    BY <1>1, <2>1, FrameType DEF Beat
  <2> QED
    BY <1>1, <2>2 DEF Beat, Frame
<1>3. <<f>> \in Seq(Frames(lastSession)) /\ <<>> \in Seq(Frames(lastSession))
      /\ (\A i \in DOMAIN <<f>> : <<f>>[i] = f) /\ \A i \in DOMAIN <<>> : FALSE
  BY <1>2
<1>4. \A e \in Devices : Beats[e] = <<f>> \/ Beats[e] = <<>>
  BY <1>1 DEF Beats
<1>5. Beats = [e \in Devices |-> Beats[e]]
  BY DEF Beats
<1>6. Beats \in [Devices -> Seq(Frames(lastSession))]
  BY <1>3, <1>4, <1>5
<1>7. Farewell(session, f)
  BY <1>2 DEF Farewell
<1> QED
  BY <1>1, <1>2, <1>3, <1>4, <1>6, <1>7

LEMMA VoiceType ==
  ASSUME TypeOK, NEW d \in Devices
  PROVE  /\ Voice(d) \in Seq(Frames(lastSession))
         /\ mode[d] = "CLIENT" =>
              Voice(d) = <<Frame("HEARTBEAT", joined[d], mySeat[d], 0, NoDevice)>>
         /\ mode[d] = "JOINING" => Voice(d) = <<Frame("REQUEST", joined[d], 0, 0, d)>>
         /\ mode[d] = "INACTIVE" => Voice(d) = <<>>
<1>1. PICK f, g : /\ f = Frame("HEARTBEAT", joined[d], mySeat[d], 0, NoDevice)
                  /\ g = Frame("REQUEST", joined[d], 0, 0, d)
  OBVIOUS
<1>2. /\ "HEARTBEAT" \in FrameTypes /\ "REQUEST" \in FrameTypes /\ joined[d] \in 0..lastSession
      /\ 0 \in Players /\ mySeat[d] \in Players /\ lastSession \in Nat /\ mode[d] \in Modes
  BY SeatNumbers DEF TypeOK, FrameTypes
<1>3. f \in Frames(lastSession)
  BY <1>1, <1>2, FrameType
<1>4. g \in Frames(lastSession)
  BY <1>1, <1>2, FrameType
<1>5. /\ mode[d] = "CLIENT" => Voice(d) = <<f>>
      /\ mode[d] = "JOINING" => Voice(d) = <<g>>
      /\ mode[d] = "INACTIVE" => Voice(d) = <<>>
  BY <1>1 DEF Voice
<1>6. <<f>> \in Seq(Frames(lastSession)) /\ <<g>> \in Seq(Frames(lastSession))
      /\ <<>> \in Seq(Frames(lastSession))
  BY <1>3, <1>4
<1>7. Voice(d) \in Seq(Frames(lastSession))
  BY <1>2, <1>5, <1>6 DEF Modes
<1> QED
  BY <1>1, <1>5, <1>7

\* The heartbeat of a queue that was empty arrives.
LEMMA BeatArrives ==
  ASSUME NEW f
  PROVE  <<>> \o Fits(<<>>, <<f>>) = <<f>> /\ <<>> \o Fits(<<>>, <<>>) = <<>>
         /\ <<>> \o <<f>> = <<f>> /\ <<>> \o <<>> = <<>>
<1>1. <<>> \in Seq({f}) /\ <<f>> \in Seq({f}) /\ Len(<<f>>) = 1 /\ Len(<<>>) = 0
  OBVIOUS
<1>2. Fits(<<>>, <<>>) = <<>>
  <2>1. Fits(<<>>, <<>>) = SubSeq(<<>>, 1, Min({0, QueueLength - 0}))
    BY <1>1 DEF Fits
  <2>2. QueueLength - 0 \in Int /\ 0 <= QueueLength - 0
    BY TimeoutAssumption
  <2>3. Min({0, QueueLength - 0}) = 0
    BY <2>2, MinOfTwo
  <2> QED
    BY <1>1, <2>1, <2>3, SubSeqEmpty
<1>3. Fits(<<>>, <<f>>) = <<f>>
  <2>1. Fits(<<>>, <<f>>) = SubSeq(<<f>>, 1, Min({1, QueueLength - 0}))
    BY <1>1 DEF Fits
  <2>2. QueueLength - 0 \in Int /\ 1 <= QueueLength - 0
    BY TimeoutAssumption
  <2>3. Min({1, QueueLength - 0}) = 1
    BY <2>2, MinOfTwo
  <2>4. SubSeq(<<f>>, 1, 1) = <<f>>
    BY <1>1, SubSeqFull
  <2> QED
    BY <2>1, <2>3, <2>4
<1> QED
  BY <1>1, <1>2, <1>3, ConcatEmptySeq

\* A heartbeat interval passes.
LEMMA Ticked ==
  ASSUME SInv, Tick
  PROVE  SInv'
<1>1. TypeOK
  BY DEF SInv
<1>2. /\ silence' = [p \in Seats |-> IF seat[p] = NoDevice THEN 0 ELSE silence[p] + 1]
      /\ patience' = [d \in Devices |-> IF mode[d] = "INACTIVE" THEN 0 ELSE patience[d] + 1]
      /\ HostSends(Beats)
      /\ up' = [d \in Devices |-> up[d] \o Voice(d)]
      /\ UNCHANGED <<session, lastSession, seat, mode, joined, mySeat, roster>>
  BY DEF Tick, Beats, Beat, Voice
<1>3. \/ ~InFlight /\ prompt' = prompt
      \/ prompt' = FALSE
  BY DEF Tick
<1>4. /\ Beat \in Frames(lastSession)
      /\ Beats \in [Devices -> Seq(Frames(lastSession))]
      /\ \A e \in Devices : \A i \in DOMAIN Beats[e] : Farewell(session, Beats[e][i])
  BY <1>1, BeatsType
<1>5. down' \in [Devices -> Seq(Frames(lastSession))]
  BY <1>2, <1>4, BurstSent
<1>6. \A e \in Devices : \A i \in DOMAIN down'[e] : Farewell(session', down'[e][i])
  BY <1>2, <1>4, BurstSent
<1>7. up' \in [Devices -> Seq(Frames(lastSession))]
  <2>1. ASSUME NEW e \in Devices PROVE up[e] \o Voice(e) \in Seq(Frames(lastSession))
    <3>1. PICK q, r : q = up[e] /\ r = Voice(e)
      OBVIOUS
    <3>2. q \in Seq(Frames(lastSession)) /\ r \in Seq(Frames(lastSession))
      BY <1>1, <3>1, VoiceType DEF TypeOK
    <3>3. q \o r \in Seq(Frames(lastSession))
      BY <3>2, Behind
    <3> QED
      BY <3>1, <3>3
  <2> QED
    BY <1>2, <2>1
<1>8. silence' \in [Seats -> Nat] /\ patience' \in [Devices -> Nat] /\ prompt' \in BOOLEAN
  <2>1. silence \in [Seats -> Nat] /\ patience \in [Devices -> Nat] /\ prompt \in BOOLEAN
    BY <1>1 DEF TypeOK
  <2>2. \A p \in Seats : (IF seat[p] = NoDevice THEN 0 ELSE silence[p] + 1) \in Nat
    BY <2>1
  <2>3. \A d \in Devices : (IF mode[d] = "INACTIVE" THEN 0 ELSE patience[d] + 1) \in Nat
    BY <2>1
  <2>4. silence' \in [Seats -> Nat]
    BY <1>2, <2>2
  <2>5. patience' \in [Devices -> Nat]
    BY <1>2, <2>3
  <2>6. prompt' \in BOOLEAN
    BY <1>3, <2>1
  <2> QED
    BY <2>4, <2>5, <2>6
<1>9. TypeOK'
  BY <1>1, <1>2, <1>5, <1>7, <1>8 DEF TypeOK
<1>10. OneSeat' /\ Consistent'
  BY <1>2, <1>6 DEF SInv, OneSeat, Consistent
<1>11. ASSUME prompt', session' # 0, NEW e \in Devices PROVE Ordered(e)'
  <2>1. Ordered(e) /\ up[e] = <<>> /\ down[e] = <<>>
    BY <1>2, <1>3, <1>11 DEF SInv, InFlight
  <2>2. PICK f : f = Beat
    OBVIOUS
  <2>3. down'[e] = IF InSeat(e) # {} THEN <<f>> ELSE <<>>
    <3>1. down'[e] = <<>> \o Fits(<<>>, Beats[e])
      BY <1>2, <2>1 DEF HostSends
    <3>2. Beats[e] = IF InSeat(e) # {} THEN <<f>> ELSE <<>>
      BY <2>2 DEF Beats
    <3> QED
      BY <3>1, <3>2, BeatArrives
  <2>4. PICK v : v = Voice(e)
    OBVIOUS
  <2>5. v \in Seq(Frames(lastSession))
    BY <1>1, <2>4, VoiceType
  <2>6. up'[e] = v
    BY <1>2, <2>1, <2>4, <2>5, ConcatEmptySeq
  <2>7. DOMAIN <<>> = {} /\ DOMAIN <<f>> = {1} /\ <<f>>[1] = f
    OBVIOUS
  <2>8. f.type = "HEARTBEAT" /\ f.session = session
    BY <2>2 DEF Beat, Frame
  <2>9. NoneOf(down[e], {"ACCEPT", "REJECT"})'
    BY <2>3, <2>7, <2>8 DEF NoneOf, IsLive
  <2>10. Member(e) \/ Away(e)
    BY <2>1, <2>7 DEF Ordered, Asking, Accepted, Refused
  <2>11. CASE Member(e)
    <3>1. mySeat[e] \in Seats /\ seat[mySeat[e]] = e /\ mode[e] = "CLIENT" /\ joined[e] = session
      BY <2>11 DEF Member
    <3>2. silence[mySeat[e]] = 0 /\ patience[e] = 0
      BY <2>1, <2>7, <2>11 DEF Member
    <3>3. silence'[mySeat[e]] = 1 /\ patience'[e] = 1
      BY <1>2, <3>1, <3>2, DevicesAssumption
    <3>4. PICK g : g = Frame("HEARTBEAT", joined[e], mySeat[e], 0, NoDevice)
      OBVIOUS
    <3>5. /\ up'[e] = <<g>> /\ g.type = "HEARTBEAT" /\ g.session = session /\ g.from = mySeat[e]
          /\ DOMAIN <<g>> = {1} /\ <<g>>[1] = g
      BY <1>1, <2>4, <2>6, <3>1, <3>4, VoiceType DEF Frame
    <3>6. down'[e] = <<f>>
      BY <2>3, <3>1 DEF InSeat
    <3>7. NoneOf(up[e], {"REQUEST", "LEFT"})'
      BY <3>5 DEF NoneOf, IsLive
    <3>8. \A p \in Seats \ {mySeat[e]} : Tells(session, <<f>>, 0, p, roster[e][p], seat[p])
      <4> SUFFICES ASSUME NEW p \in Seats \ {mySeat[e]}
                   PROVE  Tells(session, <<f>>, 0, p, roster[e][p], seat[p])
        OBVIOUS
      <4>1. PICK old, x : old = roster[e][p] /\ x = seat[p]
        OBVIOUS
      <4>2. Tells(session, <<>>, 0, p, old, x)
        BY <2>1, <2>11, <4>1 DEF Member
      <4>3. x = old
        BY <4>2, TellsNothing
      <4>4. ~Says(session, f, p)
        BY <2>8 DEF Says
      <4> QED
        BY <2>7, <4>1, <4>3, <4>4 DEF Tells
    <3>9. \A p \in Seats \ {mySeat'[e]} :
            Tells(session', down'[e], 0, p, roster'[e][p], seat'[p])
      BY <1>2, <3>6, <3>8
    <3>10. /\ \E i \in DOMAIN up'[e] : IsLive(session', up'[e][i], {"HEARTBEAT"})
                                       /\ up'[e][i].from = mySeat'[e]
           /\ \E i \in DOMAIN down'[e] : IsLive(session', down'[e][i], {"HEARTBEAT"})
      BY <1>2, <2>7, <2>8, <3>5, <3>6 DEF IsLive
    <3>11. Member(e)'
      BY <1>2, <2>9, <3>1, <3>3, <3>7, <3>9, <3>10 DEF Member
    <3> QED
      BY <3>11 DEF Ordered
  <2>12. CASE Away(e)
    <3>1. \A p \in Seats : seat[p] # e
      BY <2>1, <2>7, <2>12 DEF Away, SaysGoodBye
    <3>2. SaysGoodBye(e, Len(up[e]) + 1)'
      BY <1>2, <3>1 DEF SaysGoodBye
    <3>3. NoneOf(v, {"REQUEST"})
      <4>1. CASE mode[e] = "INACTIVE"
        BY <1>1, <2>4, <2>7, <4>1, VoiceType DEF NoneOf
      <4>2. CASE mode[e] = "CLIENT"
        <5>1. PICK g : g = Frame("HEARTBEAT", joined[e], mySeat[e], 0, NoDevice)
          OBVIOUS
        <5>2. v = <<g>> /\ g.type = "HEARTBEAT" /\ DOMAIN <<g>> = {1} /\ <<g>>[1] = g
          BY <1>1, <2>4, <4>2, <5>1, VoiceType DEF Frame
        <5> QED
          BY <5>2 DEF NoneOf, IsLive
      <4>3. CASE mode[e] = "JOINING"
        <5>1. PICK g : g = Frame("REQUEST", joined[e], 0, 0, e)
          OBVIOUS
        <5>2. v = <<g>> /\ g.session = joined[e] /\ DOMAIN <<g>> = {1} /\ <<g>>[1] = g
          BY <1>1, <2>4, <4>3, <5>1, VoiceType DEF Frame
        <5>3. joined[e] # session
          BY <2>12, <4>3 DEF Away
        <5> QED
          BY <5>2, <5>3 DEF NoneOf, IsLive
      <4> QED
        BY <1>1, <4>1, <4>2, <4>3 DEF TypeOK, Modes
    <3>4. NoneOf(up[e], {"REQUEST"})'
      BY <1>2, <2>6, <3>3 DEF NoneOf
    <3>5. Away(e)'
      BY <1>2, <2>9, <2>12, <3>2, <3>4 DEF Away
    <3> QED
      BY <3>5 DEF Ordered
  <2> QED
    BY <2>10, <2>11, <2>12
<1> QED
  BY <1>9, <1>10, <1>11 DEF SInv

\* A frame is lost.
LEMMA Lost ==
  ASSUME SInv, NEW d \in Devices, Lose(d)
  PROVE  SInv'
<1>1. TypeOK /\ UNCHANGED <<hostVars, clientVars>> /\ prompt' = FALSE
  BY DEF SInv, Lose
<1>2. CASE up[d] # <<>> /\ HostTakes(d) /\ UNCHANGED down
  <2>1. up' \in [Devices -> Seq(Frames(lastSession))]
    BY <1>1, <1>2, UpTaken
  <2> QED
    BY <1>1, <1>2, <2>1 DEF SInv, TypeOK, OneSeat, Consistent, hostVars, clientVars
<1>3. CASE down[d] # <<>> /\ DeviceTakes(d) /\ UNCHANGED up
  <2>1. session' = session
    BY <1>1 DEF hostVars
  <2>2. down' \in [Devices -> Seq(Frames(lastSession))]
    BY <1>1, <1>3, DownTaken
  <2>3. \A e \in Devices : \A i \in DOMAIN down'[e] : Farewell(session', down'[e][i])
    BY <1>3, <2>1, RestFarewell
  <2> QED
    BY <1>1, <1>3, <2>2, <2>3 DEF SInv, TypeOK, OneSeat, Consistent, hostVars, clientVars
<1> QED
  BY <1>2, <1>3 DEF Lose

-----------------------------------------------------------------------------
(* The theorems *)

LEMMA Starts == Init => SInv
<1> SUFFICES ASSUME Init PROVE SInv
  OBVIOUS
<1>1. <<>> \in Seq(Frames(0)) /\ DOMAIN <<>> = {}
  OBVIOUS
<1>2. TypeOK
  BY <1>1, SeatNumbers DEF Init, TypeOK, NoMembers, NoRoster, Modes
<1>3. OneSeat /\ Consistent
  BY <1>1 DEF Init, OneSeat, Consistent, NoMembers
<1> QED
  BY <1>2, <1>3 DEF Init, SInv

LEMMA Stays ==
  ASSUME SInv, UNCHANGED vars
  PROVE  SInv'
BY DEF SInv, TypeOK, OneSeat, Consistent, Ordered, Member, Asking, Accepted, Refused, Away, Joining,
       NoneOf, OnlyAt, SaysGoodBye, vars, hostVars, clientVars, envVars

LEMMA StepKeeps == SInv /\ [Next]_vars => SInv'
<1> SUFFICES ASSUME SInv, [Next]_vars PROVE SInv'
  OBVIOUS
<1>1. CASE HostSession
  BY <1>1, SessionHosted
<1>2. CASE HostLeaves
  BY <1>2, SessionEnded
<1>3. CASE Tick
  BY <1>3, Ticked
<1>4. CASE \E p \in Seats : HostExpires(p)
  BY <1>4, HostExpired
<1>5. ASSUME NEW d \in Devices, HostHears(d) PROVE SInv'
  BY <1>5, HostHeard
<1>6. ASSUME NEW d \in Devices, ClientLeaves(d) PROVE SInv'
  BY <1>6, ClientLeft
<1>7. ASSUME NEW d \in Devices, ClientAnswered(d) PROVE SInv'
  BY <1>7, AnswerMet
<1>8. ASSUME NEW d \in Devices, ClientHears(d) PROVE SInv'
  BY <1>8, ClientHeard
<1>9. ASSUME NEW d \in Devices, ClientExpires(d) PROVE SInv'
  BY <1>9, ClientExpired
<1>10. ASSUME NEW d \in Devices, Lose(d) PROVE SInv'
  BY <1>10, Lost
<1>11. ASSUME NEW d \in Devices, NEW s \in Sessions, JoinNearby(d, s) PROVE SInv'
  BY <1>11, JoinBegun
<1>12. ASSUME NEW d \in Devices, NEW busy \in BOOLEAN, ProcessJoinRequest(d, busy) PROVE SInv'
  BY <1>12, RequestMet
<1>13. CASE UNCHANGED vars
  BY <1>13, Stays
<1> QED
  BY <1>1, <1>2, <1>3, <1>4, <1>5, <1>6, <1>7, <1>8, <1>9, <1>10, <1>11, <1>12, <1>13 DEF Next

\* While no frame was lost or late, every device is in one of the five
\* situations towards the host that Ordered names, whatever its players and the
\* host do in what order (processPacket of host and clients).
THEOREM SessionInvariance == Spec => []SInv
  BY Starts, StepKeeps, PTL DEF Spec

\* The host gives a device one seat, and a member that has heard all it was sent
\* lists exactly the members of the host (processJoinRequest, processPlayerJoined,
\* processPlayerLeft).
THEOREM SeatsAlwaysExact == Spec => []SeatsExact
  BY SessionInvariance, ExactFollows, PTL

=============================================================================
