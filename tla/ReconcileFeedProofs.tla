------------------------ MODULE ReconcileFeedProofs ------------------------
(***************************************************************************)
(* Proofs of ReconcileFeed for any objects, feeds, runs, page sizes, delays *)
(* and precisions of the indexer's clock.                                  *)
(***************************************************************************)
EXTENDS ReconcileFeed, FiniteSetTheorems, TLAPS

\* What a run fetched lies past where it read from.
PageIsPast ==
    \A r \in Run : phase[r] \in {"apply", "stalled"} =>
        \A o \in page[r] : fetched[r][o] # NoEvent /\ Past(fetched[r][o], o, cursor[r])

BaseInv == TypeOK /\ FromOneFeed /\ PageIsPast /\ StallNeedsAPage

\* A transaction that is open began so late that it cannot be behind what is settled.
OpenIsYoung ==
    \A f \in Feed, o \in Object :
        /\ event[f][o].at <= now
        /\ open[f][o] # NoEvent =>
              /\ Ms(now) <= Ms(open[f][o].at) + CommitDelay
              /\ event[f][o].at < open[f][o].at /\ open[f][o].at <= now

\* A cursor that is saved is settled.
SettledBy(c, end) == c = Start \/ c.after <= end
SavedIsSettled == SettledBy(saved, Ms(now) - Grace)

\* No row of the copy is newer than the indexer.
CopyIsOlder == \A o \in Object : copy[o].at <= Ms(event[feed][o].at)

\* The one run there is reads the feed of the copy, and what changed since it began is
\* past what it takes as settled.
Alone == \A r, s \in Run : phase[r] # "idle" /\ phase[s] # "idle" => r = s

RunIsOn ==
    \A r \in Run : phase[r] # "idle" =>
        /\ runFeed[r] = feed /\ held[r] = saved
        /\ settled[r] + Grace <= Ms(now)
        /\ SettledBy(saved, settled[r])
        /\ \A o \in since[r] : settled[r] < Ms(event[feed][o].at)

\* What a run has passed is in the copy, if it did not change since the run began.
ReadOn ==
    \A r \in Run : phase[r] \in {"fetch", "apply"} =>
        \A o \in Object \ since[r] :
            event[feed][o] # NoEvent /\ ~Past(event[feed][o], o, cursor[r]) => Shows(feed, o)

\* The page is the next events that did not change, and if it is short, all of them.
PageIsNext ==
    \A r \in Run : phase[r] = "apply" =>
        /\ \A o \in page[r] : /\ copy[o].at <= Ms(fetched[r][o].at)
                              /\ fetched[r][o].at <= event[feed][o].at
                              /\ o \notin since[r] => fetched[r][o] = event[feed][o]
        /\ \A o \in Object \ (page[r] \cup since[r]) :
              event[feed][o] # NoEvent /\ Past(event[feed][o], o, cursor[r]) =>
                  /\ ~(Cardinality(page[r]) < PageSize)
                  /\ \A p \in page[r] : ~Precedes(event[feed][o], o, fetched[r][p], p)

Through ==
    \A r \in Run : phase[r] \in {"prune", "synced"} =>
        \A o \in Object \ since[r] : Shows(feed, o)

FeedInv ==
    /\ BaseInv /\ OpenIsYoung /\ SavedIsSettled /\ CopyIsOlder /\ Alone /\ RunIsOn
    /\ ReadOn /\ PageIsNext /\ Through /\ SavedIsRead

----------------------------------------------------------------------------
(***************************************************************************)
(* Milliseconds.                                                           *)
(***************************************************************************)
LEMMA MsBounds ==
    ASSUME FeedAssumption, NEW a \in Int
    PROVE  Ms(a) \in Int /\ Ms(a) * Fine <= a /\ a < (Ms(a) + 1) * Fine
BY DEF FeedAssumption, Ms

LEMMA Products ==
    ASSUME NEW m \in Int, NEW n \in Int, NEW k \in Nat \ {0}, m <= n
    PROVE  m * k <= n * k /\ m * k \in Int
OBVIOUS

LEMMA MsMonotone ==
    ASSUME FeedAssumption, NEW a \in Int, NEW b \in Int, a <= b
    PROVE  Ms(a) <= Ms(b)
<1> SUFFICES ASSUME Ms(b) + 1 <= Ms(a) PROVE FALSE
    BY MsBounds
<1>1. Fine \in Nat \ {0}
    BY DEF FeedAssumption
<1>2. Ms(a) \in Int /\ Ms(b) \in Int /\ Ms(b) + 1 \in Int
    BY MsBounds
<1>3. (Ms(b) + 1) * Fine <= Ms(a) * Fine
    BY <1>1, <1>2, Products
<1>4. Ms(a) * Fine <= a /\ b < (Ms(b) + 1) * Fine
    BY MsBounds
<1> DEFINE x == Ms(a) * Fine
           y == (Ms(b) + 1) * Fine
<1>5. x \in Int /\ y \in Int
    BY <1>1, <1>2, Products
<1> HIDE DEF x, y
<1> QED BY <1>3, <1>4, <1>5 DEF x, y

LEMMA MsSmall ==
    ASSUME FeedAssumption PROVE Ms(-1) = -1 /\ \A a \in Nat : Ms(a) \in 0 .. a
<1>1. Fine \in Nat \ {0}
    BY DEF FeedAssumption
<1>2. Ms(-1) = -1
    <2>1. Ms(-1) \in Int /\ Ms(-1) * Fine <= -1 /\ -1 < (Ms(-1) + 1) * Fine
        BY MsBounds
    <2> DEFINE m == Ms(-1)
    <2> HIDE DEF m
    <2>2. m \in Int /\ m * Fine <= -1 /\ -1 < (m + 1) * Fine
        BY <2>1 DEF m
    <2>3. ~(m >= 0)
        <3>1. ASSUME m >= 0 PROVE FALSE
            <4>1. 0 * Fine <= m * Fine /\ 0 * Fine = 0
                BY <1>1, <2>2, <3>1, Products
            <4> DEFINE x == m * Fine
            <4>2. 0 <= x /\ x \in Int /\ x <= -1
                BY <1>1, <2>2, <4>1
            <4> HIDE DEF x
            <4> QED BY <4>2
        <3> QED BY <3>1
    <2>4. ~(m <= -2)
        <3>1. ASSUME m <= -2 PROVE FALSE
            <4>1. (m + 1) * Fine <= (-1) * Fine /\ (-1) * Fine = -Fine
                BY <1>1, <2>2, <3>1, Products
            <4> DEFINE x == (m + 1) * Fine
            <4>2. x <= -Fine /\ x \in Int /\ -1 < x
                BY <1>1, <2>2, <4>1
            <4> HIDE DEF x
            <4> QED BY <1>1, <4>2
        <3> QED BY <3>1
    <2> QED BY <2>2, <2>3, <2>4 DEF m
<1>3. ASSUME NEW a \in Nat PROVE Ms(a) \in 0 .. a
    <2> DEFINE m == Ms(a)
    <2>1. m \in Int /\ m * Fine <= a /\ a < (m + 1) * Fine
        BY MsBounds
    <2> HIDE DEF m
    <2>2. ~(m <= -1)
        <3>1. ASSUME m <= -1 PROVE FALSE
            <4>1. (m + 1) * Fine <= 0 * Fine /\ 0 * Fine = 0
                BY <1>1, <2>1, <3>1, Products
            <4> DEFINE x == (m + 1) * Fine
            <4>2. x <= 0 /\ x \in Int /\ a < x
                BY <1>1, <2>1, <4>1
            <4> HIDE DEF x
            <4> QED BY <4>2
        <3> QED BY <3>1
    <2>3. m <= m * Fine
        <3>1. m \in Nat
            BY <2>1, <2>2
        <3> QED BY <1>1, <3>1
    <2> DEFINE y == m * Fine
    <2>4. y \in Int /\ m <= y /\ y <= a /\ m \in Int /\ m >= 0
        BY <1>1, <2>1, <2>2, <2>3
    <2> HIDE DEF y
    <2>5. m \in 0 .. a
        BY <2>4
    <2> QED BY <2>5 DEF m
<1> QED BY <1>2, <1>3

\* A place and an instant.
LEMMA Places ==
    ASSUME FeedAssumption, NEW a \in Int, NEW m \in Int
    PROVE  /\ a > m * Fine => Ms(a) >= m
           /\ a = m * Fine => Ms(a) = m
           /\ Ms(a) > m => a > m * Fine
           /\ ~(a > Ms(a) * Fine) => a = Ms(a) * Fine
<1>1. Fine \in Nat \ {0}
    BY DEF FeedAssumption
<1> DEFINE n == Ms(a)
<1>2. n \in Int /\ n * Fine <= a /\ a < (n + 1) * Fine
    BY MsBounds
<1> HIDE DEF n
<1>3. n < m => (n + 1) * Fine <= m * Fine
    BY <1>1, <1>2, Products
<1>4. n > m => (m + 1) * Fine <= n * Fine /\ (m + 1) * Fine = m * Fine + Fine
    <2>1. n > m => (m + 1) * Fine <= n * Fine
        BY <1>1, <1>2, Products
    <2>2. (m + 1) * Fine = m * Fine + Fine
        BY <1>1
    <2> QED BY <2>1, <2>2
<1>5. m * Fine \in Int /\ n * Fine \in Int /\ (n + 1) * Fine \in Int
    BY <1>1, <1>2
<1> DEFINE x == m * Fine
           y == n * Fine
           z == (n + 1) * Fine
<1>6. /\ x \in Int /\ y \in Int /\ z \in Int /\ y <= a /\ a < z
      /\ n < m => z <= x
      /\ n > m => x + Fine <= y
    BY <1>2, <1>3, <1>4, <1>5
<1> HIDE DEF x, y, z
<1>7. /\ a > x => n >= m
      /\ a = x => n = m
      /\ n > m => a > x
      /\ ~(a > y) => a = y
    BY <1>1, <1>2, <1>6
<1> QED BY <1>7 DEF x, y, n

----------------------------------------------------------------------------
(***************************************************************************)
(* Order.                                                                  *)
(***************************************************************************)

\* A finite set that a set of pairs orders has a last element: with its rank, each has
\* another number up to that of the elements.
LEMMA LastExists ==
    ASSUME NEW T, IsFiniteSet(T), T # {}, NEW Rel,
           \A a, b \in T : <<a, b>> \in Rel \/ <<b, a>> \in Rel,
           \A a, b \in T : <<a, b>> \in Rel /\ <<b, a>> \in Rel => a = b,
           \A a, b, c \in T : <<a, b>> \in Rel /\ <<b, c>> \in Rel => <<a, c>> \in Rel
    PROVE  \E m \in T : \A a \in T : <<a, m>> \in Rel
<1> SUFFICES ASSUME \A m \in T : \E a \in T : <<a, m>> \notin Rel PROVE FALSE
    OBVIOUS
<1> DEFINE Upto(a) == {b \in T : <<b, a>> \in Rel}
           n == Cardinality(T)
           Ranks == 1 .. n - 1
           rank == [a \in T |-> Cardinality(Upto(a))]
<1>1. n \in Nat /\ n # 0
    BY FS_CardinalityType, FS_EmptySet
<1>2. \A a \in T : IsFiniteSet(Upto(a)) /\ Cardinality(Upto(a)) \in Nat
    BY FS_Subset, FS_CardinalityType
<1>3. ASSUME NEW a \in T PROVE Cardinality(Upto(a)) \in Ranks
    <2>1. Upto(a) # T /\ Upto(a) \subseteq T /\ a \in Upto(a)
        OBVIOUS
    <2>2. Cardinality(Upto(a)) <= n /\ Cardinality(Upto(a)) # n
        BY <2>1, FS_Subset
    <2>3. Cardinality(Upto(a)) # 0
        BY <1>2, <2>1, FS_EmptySet
    <2> DEFINE k == Cardinality(Upto(a))
    <2>4. k \in Nat /\ k <= n /\ k # n /\ k # 0
        BY <1>2, <2>2, <2>3
    <2> HIDE DEF k, n
    <2>5. k \in 1 .. n - 1
        BY <1>1, <2>4
    <2> QED BY <2>5 DEF k
<1>4. rank \in [T -> Ranks]
    BY <1>3
<1>5. IsFiniteSet(Ranks) /\ Cardinality(Ranks) < n
    <2>1. IsFiniteSet(Ranks) /\ Cardinality(Ranks) = IF 1 > n - 1 THEN 0 ELSE (n - 1) - 1 + 1
        BY <1>1, FS_Interval
    <2> QED BY <1>1, <2>1
<1>6. PICK a, b \in T : a # b /\ rank[a] = rank[b]
    <2> HIDE DEF Ranks, rank
    <2> QED BY <1>4, <1>5, FS_PigeonHole
<1>7. ASSUME NEW c \in T, NEW d \in T, c # d, <<c, d>> \in Rel
      PROVE  rank[c] < rank[d]
    <2>1. Upto(c) \subseteq Upto(d) /\ d \in Upto(d) /\ d \notin Upto(c)
        BY <1>7
    <2>2. Cardinality(Upto(c)) <= Cardinality(Upto(d)) /\ Cardinality(Upto(c)) # Cardinality(Upto(d))
        BY <1>2, <2>1, FS_Subset
    <2> DEFINE j == Cardinality(Upto(c))
               k == Cardinality(Upto(d))
    <2>3. j \in Nat /\ k \in Nat /\ j <= k /\ j # k /\ rank[c] = j /\ rank[d] = k
        BY <1>2, <2>2
    <2> HIDE DEF j, k, rank
    <2> QED BY <2>3
<1>8. rank[a] \in Int /\ rank[b] \in Int
    <2>1. rank[a] = Cardinality(Upto(a)) /\ rank[b] = Cardinality(Upto(b))
        OBVIOUS
    <2>2. Cardinality(Upto(a)) \in Nat /\ Cardinality(Upto(b)) \in Nat
        BY <1>2
    <2> HIDE DEF rank
    <2> QED BY <2>1, <2>2
<1>9. rank[a] < rank[b] \/ rank[b] < rank[a]
    <2>1. <<a, b>> \in Rel \/ <<b, a>> \in Rel
        OBVIOUS
    <2> QED BY <1>6, <1>7, <2>1
<1> HIDE DEF rank
<1> QED BY <1>6, <1>8, <1>9

----------------------------------------------------------------------------
(***************************************************************************)
(* Pages.                                                                  *)
(***************************************************************************)
LEMMA EventsTyped ==
    ASSUME FeedAssumption, NEW e \in Events
    PROVE  e.at \in Int /\ e.at >= -1 /\ e.deleted \in BOOLEAN /\ (e # NoEvent => e.at \in 0 .. MaxTime)
           /\ (e.at <= -1 => e = NoEvent)
<1>1. CASE e = NoEvent
    BY <1>1 DEF NoEvent
<1>2. CASE e \in [at : Instants, deleted : BOOLEAN]
    <2>1. e.at \in 0 .. MaxTime /\ e.deleted \in BOOLEAN
        BY <1>2 DEF Instants
    <2>2. MaxTime \in Nat
        BY DEF FeedAssumption
    <2> QED BY <2>1, <2>2
<1> QED BY <1>1, <1>2 DEF Events

LEMMA CursorsTyped ==
    ASSUME FeedAssumption, NEW c \in Cursors
    PROVE  c.after \in Int /\ c.id \in Int /\ (c # Start => c.after \in Nat /\ c.id \in Object)
<1>1. Ms(MaxTime) \in Int /\ Object \subseteq Nat
    BY MsBounds DEF FeedAssumption
<1>2. CASE c = Start
    BY <1>2 DEF Start
<1>3. CASE c \in [after : 0 .. Ms(MaxTime), id : Object]
    <2>1. c.after \in 0 .. Ms(MaxTime) /\ c.id \in Object
        BY <1>3
    <2> DEFINE m == Ms(MaxTime)
    <2>2. m \in Int /\ c.after \in 0 .. m
        BY <1>1, <2>1
    <2> HIDE DEF m
    <2>3. c.after \in Nat
        BY <2>2
    <2>4. c.id \in Nat
        BY <1>1, <2>1
    <2> QED BY <2>1, <2>3, <2>4
<1> QED BY <1>2, <1>3 DEF Cursors

\* Precedes orders the events of different objects.
LEMMA PrecedesOrders ==
    ASSUME FeedAssumption, NEW ev \in [Object -> Events]
    PROVE  /\ \A o, p \in Object : Precedes(ev[o], o, ev[p], p) \/ Precedes(ev[p], p, ev[o], o)
           /\ \A o, p \in Object :
                 Precedes(ev[o], o, ev[p], p) /\ Precedes(ev[p], p, ev[o], o) => o = p
           /\ \A o, p, q \in Object :
                 Precedes(ev[o], o, ev[p], p) /\ Precedes(ev[p], p, ev[q], q) =>
                     Precedes(ev[o], o, ev[q], q)
<1>1. \A o \in Object : o \in Int /\ ev[o].at \in Int
    BY EventsTyped DEF FeedAssumption
<1> QED BY <1>1 DEF Precedes

\* With an event on the page come those ahead that precede it.
LEMMA PageIsFirst ==
    ASSUME FeedAssumption, NEW ev \in [Object -> Events], NEW c \in Cursors,
           NEW o \in PageFrom(ev, c), NEW p \in Ahead(ev, c), Precedes(ev[p], p, ev[o], o)
    PROVE  p \in PageFrom(ev, c)
<1> DEFINE Upto(q) == {x \in Ahead(ev, c) : Precedes(ev[x], x, ev[q], q)}
<1>1. Ahead(ev, c) \subseteq Object /\ o \in Object /\ p \in Object
    BY DEF Ahead, PageFrom
<1>2. Upto(p) \subseteq Upto(o)
    BY <1>1, PrecedesOrders
<1>3. IsFiniteSet(Upto(o)) /\ IsFiniteSet(Upto(p))
    BY <1>1, FS_Subset DEF FeedAssumption
<1>4. Cardinality(Upto(p)) <= Cardinality(Upto(o))
    BY <1>2, <1>3, FS_Subset
<1>5. Cardinality(Upto(o)) <= PageSize
    BY DEF PageFrom
<1>6. Cardinality(Upto(o)) \in Nat /\ Cardinality(Upto(p)) \in Nat /\ PageSize \in Nat
    BY <1>3, FS_CardinalityType DEF FeedAssumption
<1>7. Cardinality(Upto(p)) <= PageSize
    BY <1>4, <1>5, <1>6
<1> QED BY <1>7 DEF PageFrom

\* A page that is not full has everything ahead: the first event that it left out would
\* have had a place.
LEMMA ShortPageIsAll ==
    ASSUME FeedAssumption, NEW ev \in [Object -> Events], NEW c \in Cursors,
           Cardinality(PageFrom(ev, c)) < PageSize
    PROVE  Ahead(ev, c) \subseteq PageFrom(ev, c)
<1> DEFINE A == Ahead(ev, c)
           P == PageFrom(ev, c)
           Out == A \ P
           Rel == {w \in Object \X Object : Precedes(ev[w[2]], w[2], ev[w[1]], w[1])}
<1> SUFFICES ASSUME Out # {} PROVE FALSE
    OBVIOUS
<1>1. P \subseteq A /\ A \subseteq Object /\ Out \subseteq Object /\ IsFiniteSet(Object)
    BY DEF Ahead, PageFrom, FeedAssumption
<1>2. IsFiniteSet(Out) /\ IsFiniteSet(P)
    BY <1>1, FS_Subset
<1>3. /\ \A a, b \in Object : <<a, b>> \in Rel <=> Precedes(ev[b], b, ev[a], a)
    OBVIOUS
<1>4. PICK m \in Out : \A a \in Out : <<a, m>> \in Rel
    <2>1. /\ \A a, b \in Out : <<a, b>> \in Rel \/ <<b, a>> \in Rel
          /\ \A a, b \in Out : <<a, b>> \in Rel /\ <<b, a>> \in Rel => a = b
          /\ \A a, b, d \in Out : <<a, b>> \in Rel /\ <<b, d>> \in Rel => <<a, d>> \in Rel
        <3> HIDE DEF Rel, Out
        <3> QED BY <1>1, <1>3, PrecedesOrders
    <2> HIDE DEF Rel, Out
    <2> QED BY <1>2, <2>1, LastExists
<1> DEFINE U == {x \in A : Precedes(ev[x], x, ev[m], m)}
<1>5. U \subseteq P \cup {m}
    <2> SUFFICES ASSUME NEW x \in A, Precedes(ev[x], x, ev[m], m), x \notin P PROVE x = m
        OBVIOUS
    <2>1. x \in Out /\ m \in Object /\ x \in Object
        BY <1>1
    <2>2. Precedes(ev[m], m, ev[x], x)
        BY <1>3, <1>4, <2>1
    <2> QED BY <2>1, <2>2, PrecedesOrders
<1>6. IsFiniteSet(P \cup {m}) /\ Cardinality(P \cup {m}) = Cardinality(P) + 1
    <2>1. m \notin P
        OBVIOUS
    <2> HIDE DEF P
    <2> QED BY <1>2, <2>1, FS_AddElement
<1>7. Cardinality(U) <= Cardinality(P) + 1 /\ Cardinality(U) \in Nat
    <2> HIDE DEF U, P
    <2> QED BY <1>5, <1>6, FS_Subset, FS_CardinalityType
<1>8. Cardinality(P) \in Nat /\ PageSize \in Nat /\ Cardinality(P) < PageSize
    <2>1. Cardinality(P) < PageSize
        OBVIOUS
    <2> HIDE DEF P
    <2> QED BY <1>2, <2>1, FS_CardinalityType DEF FeedAssumption
<1>9. Cardinality(U) <= PageSize
    <2> HIDE DEF U, P
    <2> QED BY <1>7, <1>8
<1>10. m \in A
    OBVIOUS
<1>11. m \in P
    BY <1>9, <1>10 DEF PageFrom
<1> QED BY <1>11

\* A page has a last event.
LEMMA LastOfPage ==
    ASSUME FeedAssumption, NEW ev \in [Object -> Events], NEW S \in SUBSET Object, S # {}
    PROVE  \E o \in S : \A p \in S : Precedes(ev[p], p, ev[o], o)
<1> DEFINE Rel == {w \in Object \X Object : Precedes(ev[w[1]], w[1], ev[w[2]], w[2])}
<1>1. \A a, b \in Object : <<a, b>> \in Rel <=> Precedes(ev[a], a, ev[b], b)
    OBVIOUS
<1>2. IsFiniteSet(S)
    BY FS_Subset DEF FeedAssumption
<1> HIDE DEF Rel
<1>3. /\ \A a, b \in S : <<a, b>> \in Rel \/ <<b, a>> \in Rel
      /\ \A a, b \in S : <<a, b>> \in Rel /\ <<b, a>> \in Rel => a = b
      /\ \A a, b, d \in S : <<a, b>> \in Rel /\ <<b, d>> \in Rel => <<a, d>> \in Rel
    BY <1>1, PrecedesOrders
<1>4. PICK m \in S : \A a \in S : <<a, m>> \in Rel
    BY <1>2, <1>3, LastExists
<1> QED BY <1>1, <1>4

\* Of some cursors one is not before any other.
LEMMA LastCursor ==
    ASSUME FeedAssumption, NEW S \in SUBSET Cursors, IsFiniteSet(S), S # {}
    PROVE  \E c \in S : \A d \in S : ~IsAfter(d, c)
<1> DEFINE Rel == {w \in Cursors \X Cursors : ~IsAfter(w[1], w[2])}
<1>1. \A a, b \in Cursors : <<a, b>> \in Rel <=> ~IsAfter(a, b)
    OBVIOUS
<1>2. \A a \in Cursors : a = [after |-> a.after, id |-> a.id] /\ a.after \in Int /\ a.id \in Int
    <2>1. \A a \in Cursors : a = [after |-> a.after, id |-> a.id]
        BY DEF Cursors, Start
    <2> QED BY <2>1, CursorsTyped
<1> HIDE DEF Rel
<1>3. /\ \A a, b \in S : <<a, b>> \in Rel \/ <<b, a>> \in Rel
      /\ \A a, b, d \in S : <<a, b>> \in Rel /\ <<b, d>> \in Rel => <<a, d>> \in Rel
    BY <1>1, <1>2 DEF IsAfter
<1>4. \A a, b \in S : <<a, b>> \in Rel /\ <<b, a>> \in Rel => a = b
    <2> SUFFICES ASSUME NEW a \in S, NEW b \in S, <<a, b>> \in Rel, <<b, a>> \in Rel PROVE a = b
        OBVIOUS
    <2>1. a.after = b.after /\ a.id = b.id
        BY <1>1, <1>2 DEF IsAfter
    <2> QED BY <1>2, <2>1
<1>5. PICK m \in S : \A a \in S : <<a, m>> \in Rel
    BY <1>3, <1>4, LastExists
<1> QED BY <1>1, <1>5

\* What a cursor at the place of an event has passed precedes that event, at the
\* indexer's precision.
LEMMA PassedPrecedes ==
    ASSUME FeedAssumption, NEW e \in Events, NEW d \in Events, NEW o \in Object, NEW p \in Object,
           ~Past(e, o, [after |-> Ms(d.at), id |-> p])
    PROVE  Precedes(e, o, d, p)
<1>1. e.at \in Int /\ d.at \in Int /\ o \in Int /\ p \in Int
    BY EventsTyped DEF FeedAssumption
<1>2. ~(e.at > Ms(d.at) * Fine) /\ ~(e.at = Ms(d.at) * Fine /\ o > p)
    BY DEF Past
<1> DEFINE x == Ms(d.at) * Fine
<1>3. x \in Int /\ x <= d.at /\ ~(e.at > x) /\ ~(e.at = x /\ o > p)
    <2>1. Ms(d.at) \in Int /\ Ms(d.at) * Fine <= d.at /\ Fine \in Int
        BY <1>1, MsBounds DEF FeedAssumption
    <2> QED BY <1>2, <2>1
<1> HIDE DEF x
<1> QED BY <1>1, <1>3 DEF Precedes

----------------------------------------------------------------------------
(***************************************************************************)
(* Types, one feed, and where a sync stalls: however runs overlap.         *)
(***************************************************************************)
LEMMA BaseInit == FeedAssumption /\ Init => BaseInv
<1> SUFFICES ASSUME FeedAssumption, Init PROVE BaseInv
    OBVIOUS
<1>1. 0 \in Instants /\ NoEvent \in Events /\ Start \in Cursors /\ -Grace \in -Grace .. MaxTime
    BY DEF FeedAssumption, Instants, Events, Cursors
<1>2. /\ [o \in Object |-> NoEvent] \in [Object -> Events]
      /\ [o \in Object |-> feed] \in [Object -> Feed]
    BY <1>1 DEF Init
<1>3. TypeOK
    <2>1. /\ now \in Instants /\ feed \in Feed /\ saved \in Cursors
          /\ event \in [Feed -> [Object -> Events]] /\ open \in [Feed -> [Object -> Events]]
          /\ copy \in [Object -> Events] /\ source \in [Object -> Feed]
        BY <1>1, <1>2 DEF Init
    <2>2. /\ phase \in [Run -> Phases] /\ runFeed \in [Run -> Feed]
          /\ settled \in [Run -> -Grace .. MaxTime]
          /\ cursor \in [Run -> Cursors] /\ held \in [Run -> Cursors]
          /\ page \in [Run -> SUBSET Object]
          /\ fetched \in [Run -> [Object -> Events]]
          /\ since \in [Run -> SUBSET Object]
        BY <1>1, <1>2 DEF Init, Phases
    <2> QED BY <2>1, <2>2 DEF TypeOK
<1>4. FromOneFeed /\ PageIsPast /\ StallNeedsAPage
    BY DEF Init, FromOneFeed, PageIsPast, StallNeedsAPage
<1> QED BY <1>3, <1>4 DEF BaseInv

\* Where an event of the page is.
LEMMA PlacesAreCursors ==
    ASSUME FeedAssumption, TypeOK, NEW r \in Run, NEW o \in page[r], fetched[r][o] # NoEvent
    PROVE  /\ Place(r, o) \in Cursors
           /\ Ms(fetched[r][o].at) \in 0 .. MaxTime
<1>1. o \in Object /\ fetched[r][o] \in Events
    BY DEF TypeOK
<1>2. fetched[r][o].at \in 0 .. MaxTime /\ MaxTime \in Nat
    BY <1>1, EventsTyped DEF FeedAssumption
<1>3. Ms(fetched[r][o].at) \in 0 .. fetched[r][o].at
    BY <1>2, MsSmall
<1>4. Ms(fetched[r][o].at) <= Ms(MaxTime) /\ Ms(MaxTime) \in Int
    BY <1>2, MsMonotone, MsBounds
<1> DEFINE m == Ms(fetched[r][o].at)
           n == Ms(MaxTime)
           at == fetched[r][o].at
<1>5. m \in 0 .. at /\ at \in 0 .. MaxTime /\ m <= n /\ n \in Int /\ MaxTime \in Nat
    BY <1>2, <1>3, <1>4
<1>6. [after |-> m, id |-> o] = Place(r, o)
    BY DEF Place
<1> HIDE DEF m, n, at
<1>7. m \in 0 .. n /\ m \in 0 .. MaxTime
    BY <1>5
<1>8. Place(r, o) \in Cursors
    BY <1>1, <1>6, <1>7 DEF Cursors, n
<1> QED BY <1>7, <1>8 DEF m

\* The cursor that is saved is the one before, or the place of a settled event.
LEMMA HeldIsSettled ==
    ASSUME FeedAssumption, TypeOK, NEW r \in Run, \A o \in page[r] : fetched[r][o] # NoEvent
    PROVE  /\ NewHeld(r) \in Cursors
           /\ \/ NewHeld(r) = held[r]
              \/ \E o \in page[r] : IsSettled(r, o) /\ NewHeld(r) = Place(r, o)
<1> DEFINE S == {p \in page[r] : IsSettled(r, p)}
           places == {held[r]} \cup {Place(r, o) : o \in S}
<1>1. page[r] \in SUBSET Object /\ held[r] \in Cursors /\ fetched[r] \in [Object -> Events]
    BY DEF TypeOK
<1>2. \A o \in page[r] : Place(r, o) \in Cursors
    BY PlacesAreCursors
<1>3. IsFiniteSet(places) /\ places \subseteq Cursors /\ places # {}
    <2>1. IsFiniteSet(S)
        BY <1>1, FS_Subset DEF FeedAssumption
    <2>2. IsFiniteSet({Place(r, o) : o \in S})
        <3> DEFINE f == [o \in S |-> Place(r, o)]
        <3>1. {Place(r, o) : o \in S} = {f[o] : o \in S}
            OBVIOUS
        <3> HIDE DEF S
        <3>2. f \in Surjection(S, {f[o] : o \in S})
            BY DEF Surjection
        <3> QED BY <2>1, <3>1, <3>2, FS_Surjection
    <2>3. IsFiniteSet({held[r]})
        BY FS_Singleton
    <2>4. IsFiniteSet(places)
        BY <2>2, <2>3, FS_Union
    <2> QED BY <1>1, <1>2, <2>4
<1>4. \E c \in places : \A d \in places : ~IsAfter(d, c)
    <2> HIDE DEF places
    <2> QED BY <1>3, LastCursor
<1>5. NewHeld(r) = CHOOSE c \in places : \A d \in places : ~IsAfter(d, c)
    BY DEF NewHeld
<1>6. NewHeld(r) \in places
    <2> HIDE DEF places
    <2> QED BY <1>4, <1>5
<1> QED BY <1>2, <1>3, <1>6

\* The last event of a page that is not empty is one of it, and the others precede it.
LEMMA LastIsOfPage ==
    ASSUME FeedAssumption, TypeOK, NEW r \in Run, page[r] # {}, \A o \in page[r] : fetched[r][o] # NoEvent
    PROVE  \E q \in page[r] : /\ LastPlace(r) = Place(r, q)
                              /\ \A p \in page[r] : Precedes(fetched[r][p], p, fetched[r][q], q)
<1> DEFINE q == CHOOSE o \in page[r] : \A p \in page[r] : Precedes(fetched[r][p], p, fetched[r][o], o)
<1>1. page[r] \in SUBSET Object /\ fetched[r] \in [Object -> Events]
    BY DEF TypeOK
<1>2. \E o \in page[r] : \A p \in page[r] : Precedes(fetched[r][p], p, fetched[r][o], o)
    BY <1>1, LastOfPage
<1>3. q \in page[r] /\ \A p \in page[r] : Precedes(fetched[r][p], p, fetched[r][q], q)
    BY <1>2
<1>4. LastPlace(r) = Place(r, q)
    BY DEF LastPlace
<1> QED BY <1>3, <1>4

LEMMA PagesArePast ==
    ASSUME FeedAssumption, TypeOK, NEW r \in Run, Fetch(r)
    PROVE  /\ page'[r] = PageFrom(event[runFeed[r]], cursor[r]) /\ page'[r] \subseteq Object
           /\ fetched'[r] \in [Object -> Events]
           /\ \A o \in page'[r] : fetched'[r][o] = event[runFeed[r]][o] /\ fetched'[r][o] # NoEvent
                                  /\ Past(fetched'[r][o], o, cursor[r])
           /\ \A s \in Run \ {r} : page'[s] = page[s] /\ fetched'[s] = fetched[s]
           /\ fetched' \in [Run -> [Object -> Events]] /\ page' \in [Run -> SUBSET Object]
<1> DEFINE ev == event[runFeed[r]]
           new == [o \in Object |-> IF o \in page'[r] THEN ev[o] ELSE NoEvent]
<1>1. ev \in [Object -> Events] /\ NoEvent \in Events
    BY DEF TypeOK, Events
<1>2. page' = [page EXCEPT ![r] = PageFrom(ev, cursor[r])] /\ fetched' = [fetched EXCEPT ![r] = new]
    BY DEF Fetch
<1>3. PageFrom(ev, cursor[r]) \subseteq Ahead(ev, cursor[r]) /\ Ahead(ev, cursor[r]) \subseteq Object
    BY DEF PageFrom, Ahead
<1>4. new \in [Object -> Events]
    BY <1>1
<1>5. page'[r] = PageFrom(ev, cursor[r]) /\ fetched'[r] = new
    BY <1>2 DEF TypeOK
<1>6. \A o \in page'[r] : ev[o] # NoEvent /\ Past(ev[o], o, cursor[r])
    BY <1>3, <1>5 DEF Ahead
<1>7. fetched' \in [Run -> [Object -> Events]] /\ page' \in [Run -> SUBSET Object]
    <2> HIDE DEF new, ev
    <2> QED BY <1>2, <1>3, <1>4 DEF TypeOK
<1>8. \A s \in Run \ {r} : page'[s] = page[s] /\ fetched'[s] = fetched[s]
    <2> HIDE DEF new, ev
    <2> QED BY <1>2 DEF TypeOK
<1> QED BY <1>3, <1>4, <1>5, <1>6, <1>7, <1>8

LEMMA RowsAreEvents ==
    ASSUME FeedAssumption, TypeOK, NEW r \in Run, NEW o \in Object, \A p \in page[r] : fetched[r][p] # NoEvent
    PROVE  NewRow(r, o) \in Events
<1>1. copy[o] \in Events /\ fetched[r][o] \in Events
    BY DEF TypeOK
<1>2. CASE o \in page[r]
    <2>1. Ms(fetched[r][o].at) \in Instants /\ fetched[r][o].deleted \in BOOLEAN
        BY <1>1, <1>2, PlacesAreCursors, EventsTyped DEF Instants
    <2> QED BY <1>1, <2>1 DEF NewRow, Events
<1>3. CASE o \notin page[r]
    BY <1>1, <1>3 DEF NewRow
<1> QED BY <1>2, <1>3

LEMMA Dropped ==
    ASSUME TypeOK, NEW r \in Run, DropPage(r)
    PROVE  fetched' \in [Run -> [Object -> Events]] /\ page' \in [Run -> SUBSET Object]
           /\ \A s \in Run \ {r} : page'[s] = page[s] /\ fetched'[s] = fetched[s]
<1>1. [o \in Object |-> NoEvent] \in [Object -> Events]
    BY DEF Events
<1> QED BY <1>1 DEF TypeOK, DropPage

LEMMA BaseLeaves ==
    ASSUME FeedAssumption, BaseInv, NEW r \in Run, Leave(r), UNCHANGED <<indexerVars, dbVars>>
    PROVE  BaseInv'
<1>1. /\ phase' = [phase EXCEPT ![r] = "idle"] /\ settled' = [settled EXCEPT ![r] = -Grace]
      /\ cursor' = [cursor EXCEPT ![r] = Start] /\ held' = [held EXCEPT ![r] = Start]
      /\ DropPage(r) /\ since' = [since EXCEPT ![r] = {}] /\ UNCHANGED runFeed
    BY DEF Leave
<1>2. UNCHANGED <<now, event, open, feed, copy, source, saved>>
    BY DEF indexerVars, dbVars
<1>3. /\ fetched' \in [Run -> [Object -> Events]] /\ page' \in [Run -> SUBSET Object]
      /\ \A s \in Run \ {r} : page'[s] = page[s] /\ fetched'[s] = fetched[s]
    BY <1>1, Dropped DEF BaseInv
<1>4. -Grace \in -Grace .. MaxTime /\ Start \in Cursors /\ "idle" \in Phases
    BY DEF FeedAssumption, Cursors, Phases
<1>5. TypeOK'
    BY <1>1, <1>2, <1>3, <1>4 DEF BaseInv, TypeOK
<1>6. phase'[r] = "idle" /\ \A s \in Run \ {r} : phase'[s] = phase[s] /\ cursor'[s] = cursor[s]
    BY <1>1 DEF BaseInv, TypeOK
<1>7. FromOneFeed'
    BY <1>2 DEF BaseInv, FromOneFeed
<1>8. PageIsPast' /\ StallNeedsAPage'
    BY <1>3, <1>6 DEF BaseInv, PageIsPast, StallNeedsAPage
<1> QED BY <1>5, <1>7, <1>8 DEF BaseInv

LEMMA BaseBegins ==
    ASSUME FeedAssumption, BaseInv, NEW r \in Run, NEW f \in Feed, Begin(r, f)
    PROVE  BaseInv'
<1>1. /\ feed' = f /\ phase' = [phase EXCEPT ![r] = "fetch"]
      /\ runFeed' = [runFeed EXCEPT ![r] = f] /\ settled' = [settled EXCEPT ![r] = Ms(now) - Grace]
      /\ cursor' = [cursor EXCEPT ![r] = saved'] /\ held' = [held EXCEPT ![r] = saved']
      /\ since' = [since EXCEPT ![r] = {}]
      /\ UNCHANGED <<now, event, open, page, fetched>>
    BY DEF Begin, indexerVars
<1>2. \/ f = feed /\ UNCHANGED <<copy, source, saved>>
      \/ /\ copy' = [o \in Object |-> NoEvent] /\ source' = [o \in Object |-> f] /\ saved' = Start
    BY DEF Begin
<1>3. Start \in Cursors /\ NoEvent \in Events
    BY DEF Cursors, Events
<1>4. copy' \in [Object -> Events] /\ source' \in [Object -> Feed] /\ saved' \in Cursors
    BY <1>2, <1>3 DEF BaseInv, TypeOK
<1>5. Ms(now) - Grace \in -Grace .. MaxTime
    <2>1. now \in 0 .. MaxTime /\ MaxTime \in Nat /\ Grace \in Nat
        BY DEF BaseInv, TypeOK, Instants, FeedAssumption
    <2>2. Ms(now) \in 0 .. now
        BY <2>1, MsSmall
    <2> DEFINE m == Ms(now)
    <2> HIDE DEF m
    <2>3. m - Grace \in -Grace .. MaxTime
        BY <2>1, <2>2 DEF m
    <2> QED BY <2>3 DEF m
<1>6. TypeOK'
    BY <1>1, <1>4, <1>5 DEF BaseInv, TypeOK, Phases
<1>7. FromOneFeed'
    BY <1>1, <1>2 DEF BaseInv, FromOneFeed
<1>8. phase'[r] = "fetch" /\ \A s \in Run \ {r} : phase'[s] = phase[s] /\ cursor'[s] = cursor[s]
    BY <1>1 DEF BaseInv, TypeOK
<1>9. PageIsPast' /\ StallNeedsAPage'
    BY <1>1, <1>8 DEF BaseInv, PageIsPast, StallNeedsAPage
<1> QED BY <1>6, <1>7, <1>9 DEF BaseInv

LEMMA BaseFetches ==
    ASSUME FeedAssumption, BaseInv, NEW r \in Run, Fetch(r)
    PROVE  BaseInv'
<1>1. phase' = [phase EXCEPT ![r] = "apply"]
      /\ UNCHANGED <<now, event, open, feed, copy, source, saved, runFeed, settled, cursor, held, since>>
    BY DEF Fetch, indexerVars, dbVars
<1>2. /\ \A o \in page'[r] : fetched'[r][o] # NoEvent /\ Past(fetched'[r][o], o, cursor[r])
      /\ \A s \in Run \ {r} : page'[s] = page[s] /\ fetched'[s] = fetched[s]
      /\ fetched' \in [Run -> [Object -> Events]] /\ page' \in [Run -> SUBSET Object]
    BY PagesArePast DEF BaseInv
<1>3. TypeOK'
    BY <1>1, <1>2 DEF BaseInv, TypeOK, Phases
<1>4. phase'[r] = "apply" /\ \A s \in Run \ {r} : phase'[s] = phase[s]
    BY <1>1 DEF BaseInv, TypeOK
<1>5. FromOneFeed' /\ PageIsPast' /\ StallNeedsAPage'
    BY <1>1, <1>2, <1>4 DEF BaseInv, FromOneFeed, PageIsPast, StallNeedsAPage
<1> QED BY <1>3, <1>5 DEF BaseInv

LEMMA BaseApplies ==
    ASSUME FeedAssumption, BaseInv, NEW r \in Run, Apply(r)
    PROVE  BaseInv'
<1>1. /\ phase[r] = "apply" /\ feed = runFeed[r]
      /\ copy' = [o \in Object |-> NewRow(r, o)]
      /\ source' = [o \in Object |-> IF o \in page[r] THEN runFeed[r] ELSE source[o]]
      /\ saved' = NewHeld(r) /\ held' = [held EXCEPT ![r] = NewHeld(r)]
      /\ UNCHANGED <<now, event, open, feed, runFeed, settled, since>>
    BY DEF Apply, SameFeed, indexerVars
<1>2. \A o \in page[r] : fetched[r][o] # NoEvent /\ Past(fetched[r][o], o, cursor[r])
    BY <1>1 DEF BaseInv, PageIsPast
<1>3. NewHeld(r) \in Cursors
    BY <1>2, HeldIsSettled DEF BaseInv
<1>4. copy' \in [Object -> Events] /\ source' \in [Object -> Feed]
    BY <1>1, <1>2, RowsAreEvents DEF BaseInv, TypeOK
<1>5. FromOneFeed'
    BY <1>1 DEF BaseInv, FromOneFeed, NewRow
<1>6. ASSUME phase' = [phase EXCEPT ![r] = "prune"], DropPage(r), UNCHANGED cursor
      PROVE  BaseInv'
    <2>1. /\ fetched' \in [Run -> [Object -> Events]] /\ page' \in [Run -> SUBSET Object]
          /\ \A s \in Run \ {r} : page'[s] = page[s] /\ fetched'[s] = fetched[s]
        BY <1>6, Dropped DEF BaseInv
    <2>2. TypeOK'
        BY <1>1, <1>3, <1>4, <1>6, <2>1 DEF BaseInv, TypeOK, Phases
    <2>3. phase'[r] = "prune" /\ \A s \in Run \ {r} : phase'[s] = phase[s]
        BY <1>6 DEF BaseInv, TypeOK
    <2>4. PageIsPast' /\ StallNeedsAPage'
        BY <1>6, <2>1, <2>3 DEF BaseInv, PageIsPast, StallNeedsAPage
    <2> QED BY <1>5, <2>2, <2>4 DEF BaseInv
<1>7. Cardinality(page[r]) = PageSize => page[r] # {}
    BY FS_EmptySet DEF FeedAssumption
<1>8. ASSUME Cardinality(page[r]) = PageSize, phase' = [phase EXCEPT ![r] = "fetch"], DropPage(r),
             cursor' = [cursor EXCEPT ![r] = LastPlace(r)]
      PROVE  BaseInv'
    <2>1. /\ fetched' \in [Run -> [Object -> Events]] /\ page' \in [Run -> SUBSET Object]
          /\ \A s \in Run \ {r} : page'[s] = page[s] /\ fetched'[s] = fetched[s]
        BY <1>8, Dropped DEF BaseInv
    <2>2. LastPlace(r) \in Cursors
        BY <1>2, <1>7, <1>8, LastIsOfPage, PlacesAreCursors DEF BaseInv
    <2>3. TypeOK'
        BY <1>1, <1>3, <1>4, <1>8, <2>1, <2>2 DEF BaseInv, TypeOK, Phases
    <2>4. phase'[r] = "fetch" /\ \A s \in Run \ {r} : phase'[s] = phase[s] /\ cursor'[s] = cursor[s]
        BY <1>8 DEF BaseInv, TypeOK
    <2>5. PageIsPast' /\ StallNeedsAPage'
        BY <2>1, <2>4 DEF BaseInv, PageIsPast, StallNeedsAPage
    <2> QED BY <1>5, <2>3, <2>5 DEF BaseInv
<1>9. ASSUME Cardinality(page[r]) = PageSize, ~IsAfter(LastPlace(r), cursor[r]),
             phase' = [phase EXCEPT ![r] = "stalled"], UNCHANGED <<cursor, page, fetched>>
      PROVE  BaseInv'
    <2>1. TypeOK'
        BY <1>1, <1>3, <1>4, <1>9 DEF BaseInv, TypeOK, Phases
    <2>2. phase'[r] = "stalled" /\ \A s \in Run \ {r} : phase'[s] = phase[s]
        BY <1>9 DEF BaseInv, TypeOK
    <2>3. PageIsPast'
        BY <1>1, <1>2, <1>9, <2>2 DEF BaseInv, PageIsPast
    <2>4. PICK q \in page[r] : /\ LastPlace(r) = Place(r, q)
                               /\ \A p \in page[r] : Precedes(fetched[r][p], p, fetched[r][q], q)
        BY <1>2, <1>7, <1>9, LastIsOfPage DEF BaseInv
    <2>5. ASSUME NEW p \in page[r] PROVE Ms(fetched[r][p].at) = cursor[r].after
        <3>1. p \in Object /\ q \in Object /\ fetched[r][p] \in Events /\ fetched[r][q] \in Events
              /\ cursor[r] \in Cursors
            BY DEF BaseInv, TypeOK
        <3>2. fetched[r][p].at \in Int /\ fetched[r][q].at \in Int /\ cursor[r].after \in Int
            BY <3>1, EventsTyped, CursorsTyped
        <3>3. fetched[r][p].at <= fetched[r][q].at
            BY <2>4, <3>2 DEF Precedes
        <3>4. Ms(fetched[r][p].at) <= Ms(fetched[r][q].at)
            BY <3>2, <3>3, MsMonotone
        <3>5. Ms(fetched[r][p].at) >= cursor[r].after
            <4>1. Ms(fetched[r][p].at) \in Int
                BY <3>2, MsBounds
            <4>2. CASE fetched[r][p].at > cursor[r].after * Fine
                BY <3>2, <4>2, Places
            <4>3. CASE fetched[r][p].at = cursor[r].after * Fine
                <5>1. Ms(fetched[r][p].at) = cursor[r].after
                    BY <3>2, <4>3, Places
                <5> QED BY <3>2, <5>1
            <4> QED BY <1>2, <4>2, <4>3 DEF Past
        <3>6. ~(Ms(fetched[r][q].at) > cursor[r].after)
            BY <1>9, <2>4 DEF IsAfter, Place
        <3>7. Ms(fetched[r][p].at) \in Int /\ Ms(fetched[r][q].at) \in Int
            BY <3>2, MsBounds
        <3> QED BY <3>2, <3>4, <3>5, <3>6, <3>7
    <2>6. {o \in page'[r] : Ms(fetched'[r][o].at) = cursor'[r].after} = page[r]
        BY <1>9, <2>5
    <2>7. Cardinality({o \in page'[r] : Ms(fetched'[r][o].at) = cursor'[r].after}) >= PageSize
        <3>1. PageSize >= PageSize
            BY DEF FeedAssumption
        <3> QED BY <1>9, <2>6, <3>1
    <2>8. StallNeedsAPage'
        BY <1>9, <2>2, <2>7 DEF BaseInv, StallNeedsAPage
    <2> QED BY <1>5, <2>1, <2>3, <2>8 DEF BaseInv
<1> QED BY <1>6, <1>8, <1>9 DEF Apply

LEMMA BasePrunes ==
    ASSUME FeedAssumption, BaseInv, NEW r \in Run, Prune(r)
    PROVE  BaseInv'
<1>1. /\ copy' = [o \in Object |-> IF Forgotten(r, o) THEN NoEvent ELSE copy[o]]
      /\ phase' = [phase EXCEPT ![r] = "synced"]
      /\ UNCHANGED <<now, event, open, feed, source, saved, runFeed, settled, cursor, held, page,
                     fetched, since>>
    BY DEF Prune, indexerVars
<1>2. NoEvent \in Events
    BY DEF Events
<1>3. TypeOK'
    BY <1>1, <1>2 DEF BaseInv, TypeOK, Phases
<1>4. phase'[r] = "synced" /\ \A s \in Run \ {r} : phase'[s] = phase[s]
    BY <1>1 DEF BaseInv, TypeOK
<1>5. FromOneFeed' /\ PageIsPast' /\ StallNeedsAPage'
    BY <1>1, <1>4 DEF BaseInv, FromOneFeed, PageIsPast, StallNeedsAPage
<1> QED BY <1>3, <1>5 DEF BaseInv

LEMMA BaseIndexer ==
    ASSUME FeedAssumption, BaseInv,
           Tick \/ \E f \in Feed, o \in Object : StartChange(f, o) \/ CommitChange(f, o)
    PROVE  BaseInv'
<1>1. /\ UNCHANGED <<feed, copy, source, saved, phase, runFeed, settled, cursor, held, page, fetched>>
      /\ now' \in Instants /\ event' \in [Feed -> [Object -> Events]]
      /\ open' \in [Feed -> [Object -> Events]] /\ since' \in [Run -> SUBSET Object]
    <2>1. CASE Tick
        <3>1. now' \in Instants
            BY <2>1 DEF Tick, BaseInv, TypeOK, Instants, FeedAssumption
        <3> QED BY <2>1, <3>1 DEF Tick, BaseInv, TypeOK, dbVars, runVars
    <2>2. CASE \E f \in Feed, o \in Object : StartChange(f, o)
        <3>1. PICK f \in Feed, o \in Object : StartChange(f, o)
            BY <2>2
        <3> DEFINE e == [at |-> now, deleted |-> ~event[f][o].deleted]
        <3>2. e \in Events
            BY DEF BaseInv, TypeOK, Events
        <3> HIDE DEF e
        <3>3. open' = [open EXCEPT ![f][o] = e]
            BY <3>1 DEF StartChange, e
        <3>4. open' \in [Feed -> [Object -> Events]]
            BY <3>2, <3>3 DEF BaseInv, TypeOK
        <3> QED BY <3>1, <3>4 DEF StartChange, BaseInv, TypeOK, dbVars, runVars
    <2>3. CASE \E f \in Feed, o \in Object : CommitChange(f, o)
        <3>1. PICK f \in Feed, o \in Object : CommitChange(f, o)
            BY <2>3
        <3>2. /\ event' = [event EXCEPT ![f][o] = open[f][o]]
              /\ open' = [open EXCEPT ![f][o] = NoEvent]
              /\ since' = [r \in Run |-> IF phase[r] # "idle" /\ runFeed[r] = f
                                         THEN since[r] \cup {o} ELSE since[r]]
              /\ UNCHANGED <<now, dbVars, phase, runFeed, settled, cursor, held, page, fetched>>
            BY <3>1 DEF CommitChange
        <3>3. event' \in [Feed -> [Object -> Events]] /\ open' \in [Feed -> [Object -> Events]]
            BY <3>2 DEF BaseInv, TypeOK, Events
        <3>4. since' \in [Run -> SUBSET Object]
            BY <3>2 DEF BaseInv, TypeOK
        <3> QED BY <3>2, <3>3, <3>4 DEF BaseInv, TypeOK, dbVars
    <2> QED BY <2>1, <2>2, <2>3
<1> QED BY <1>1 DEF BaseInv, TypeOK, FromOneFeed, PageIsPast, StallNeedsAPage

LEMMA BaseStep == ASSUME FeedAssumption PROVE BaseInv /\ [Next]_vars => BaseInv'
<1> SUFFICES ASSUME BaseInv, [Next]_vars PROVE BaseInv'
    OBVIOUS
<1>1. CASE Tick \/ \E f \in Feed, o \in Object : StartChange(f, o) \/ CommitChange(f, o)
    BY <1>1, BaseIndexer
<1>2. ASSUME NEW r \in Run, RunStep(r) PROVE BaseInv'
    <2>1. CASE \E f \in Feed : Begin(r, f)
        BY <2>1, BaseBegins
    <2>2. CASE Fetch(r)
        BY <2>2, BaseFetches
    <2>3. CASE Apply(r)
        BY <2>3, BaseApplies
    <2>4. CASE ApplyRefused(r) \/ EndRun(r)
        BY <2>4, BaseLeaves DEF ApplyRefused, EndRun
    <2>5. CASE Prune(r)
        BY <2>5, BasePrunes
    <2> QED BY <1>2, <2>1, <2>2, <2>3, <2>4, <2>5 DEF RunStep
<1>3. CASE UNCHANGED vars
    BY <1>3 DEF vars, indexerVars, dbVars, runVars, BaseInv, TypeOK, FromOneFeed, PageIsPast,
                StallNeedsAPage
<1> QED BY <1>1, <1>2, <1>3 DEF Next

\* The rows of the copy are all of one indexer, and a sync stalls only where one
\* millisecond fills a page, however runs overlap (applyPage, syncObjectFeed).
THEOREM CopyIsOfOneFeed == ASSUME FeedAssumption PROVE Spec => [](FromOneFeed /\ StallNeedsAPage)
<1>1. Init => BaseInv
    BY BaseInit
<1>2. BaseInv /\ [Next]_vars => BaseInv'
    BY BaseStep
<1>3. BaseInv => FromOneFeed /\ StallNeedsAPage
    BY DEF BaseInv
<1> QED BY <1>1, <1>2, <1>3, PTL DEF Spec

----------------------------------------------------------------------------
(***************************************************************************)
(* What a sync has read, if runs do not overlap.                           *)
(***************************************************************************)
LEMMA FeedTyped ==
    ASSUME FeedAssumption, TypeOK
    PROVE  /\ now \in Nat /\ Ms(now) \in Nat /\ Grace \in Nat /\ CommitDelay \in Nat /\ CommitDelay < Grace
           /\ feed \in Feed /\ saved \in Cursors
           /\ \A f \in Feed : event[f] \in [Object -> Events] /\ open[f] \in [Object -> Events]
           /\ \A o \in Object : copy[o] \in Events
           /\ \A r \in Run : /\ runFeed[r] \in Feed /\ cursor[r] \in Cursors /\ settled[r] \in Int
                             /\ page[r] \subseteq Object /\ since[r] \subseteq Object
                             /\ fetched[r] \in [Object -> Events]
<1>1. now \in Nat
    BY DEF TypeOK, Instants, FeedAssumption
<1>2. Ms(now) \in 0 .. now
    BY <1>1, MsSmall
<1>3. Ms(now) \in Nat
    <2> DEFINE m == Ms(now)
    <2> HIDE DEF m
    <2>1. m \in Nat
        BY <1>1, <1>2 DEF m
    <2> QED BY <2>1 DEF m
<1>4. \A r \in Run : settled[r] \in -Grace .. MaxTime
    BY DEF TypeOK
<1> QED BY <1>1, <1>3, <1>4 DEF TypeOK, FeedAssumption

\* What is later than the settled time lies past every settled cursor.
LEMMA LateIsPast ==
    ASSUME FeedAssumption, NEW e \in Events, e # NoEvent, NEW o, NEW c \in Cursors, NEW end \in Int,
           SettledBy(c, end), end < Ms(e.at)
    PROVE  Past(e, o, c)
<1>1. e.at \in 0 .. MaxTime /\ e.at \in Int /\ c.after \in Int
    BY EventsTyped, CursorsTyped
<1>2. Ms(e.at) \in 0 .. e.at /\ Ms(e.at) \in Int
    BY <1>1, MsSmall, MsBounds
<1>3. Ms(e.at) > c.after
    <2> DEFINE m == Ms(e.at)
    <2> HIDE DEF m
    <2>1. m \in Int /\ m >= 0 /\ end < m
        BY <1>1, <1>2 DEF m
    <2>2. CASE c = Start
        <3>1. c.after = -1
            BY <2>2 DEF Start
        <3>2. m > c.after
            BY <2>1, <3>1
        <3> QED BY <3>2 DEF m
    <2>3. CASE c.after <= end
        <3>1. m > c.after
            BY <1>1, <2>1, <2>3
        <3> QED BY <3>1 DEF m
    <2> QED BY <2>2, <2>3 DEF SettledBy
<1>4. e.at > c.after * Fine
    BY <1>1, <1>3, Places
<1> QED BY <1>4 DEF Past

LEMMA NothingPassed ==
    ASSUME FeedAssumption, NEW e \in Events, e # NoEvent, NEW o
    PROVE  Past(e, o, Start)
<1>1. e.at \in Int /\ e.at \in Nat
    BY EventsTyped DEF FeedAssumption
<1>2. Start \in Cursors /\ SettledBy(Start, -1)
    BY DEF Cursors, SettledBy
<1>3. -1 < Ms(e.at)
    <2> DEFINE m == Ms(e.at)
    <2>1. m \in 0 .. e.at
        BY <1>1, MsSmall
    <2> HIDE DEF m
    <2>2. -1 < m
        BY <1>1, <2>1
    <2> QED BY <2>2 DEF m
<1> QED BY <1>2, <1>3, LateIsPast

LEMMA OpenIsLate ==
    ASSUME FeedAssumption, TypeOK, OpenIsYoung, NEW f \in Feed, NEW o \in Object, open[f][o] # NoEvent
    PROVE  Ms(now) - Grace < Ms(open[f][o].at) /\ Ms(open[f][o].at) \in Int
<1>1. open[f][o].at \in Int
    BY EventsTyped, FeedTyped
<1>2. Ms(open[f][o].at) \in Int /\ Ms(now) <= Ms(open[f][o].at) + CommitDelay
    BY <1>1, MsBounds DEF OpenIsYoung
<1> QED BY <1>2, FeedTyped

LEMMA FeedInit == FeedAssumption /\ Init => FeedInv
<1> SUFFICES ASSUME FeedAssumption, Init PROVE FeedInv
    OBVIOUS
<1>1. BaseInv
    BY BaseInit
<1>2. /\ \A f \in Feed, o \in Object : event[f][o] = NoEvent /\ open[f][o] = NoEvent
      /\ \A o \in Object : copy[o] = NoEvent
      /\ \A r \in Run : phase[r] = "idle"
      /\ now = 0 /\ saved = Start /\ feed \in Feed
    BY DEF Init
<1>3. OpenIsYoung /\ SavedIsSettled
    BY <1>2 DEF OpenIsYoung, NoEvent, SavedIsSettled, SettledBy
<1>4. CopyIsOlder
    BY <1>2, MsSmall DEF CopyIsOlder, NoEvent
<1>5. Alone /\ RunIsOn /\ ReadOn /\ PageIsNext /\ Through
    BY <1>2 DEF Alone, RunIsOn, ReadOn, PageIsNext, Through
<1>6. SavedIsRead
    BY <1>2 DEF SavedIsRead
<1> QED BY <1>1, <1>3, <1>4, <1>5, <1>6 DEF FeedInv

LEMMA FeedTicks ==
    ASSUME FeedAssumption, FeedInv, Tick PROVE FeedInv'
<1>1. BaseInv'
    BY BaseIndexer DEF FeedInv
<1>2. now' = now + 1 /\ UNCHANGED <<event, open, feed, copy, source, saved, phase, runFeed, settled,
                                     cursor, held, page, fetched, since>>
    BY DEF Tick, dbVars, runVars
<1>3. TypeOK
    BY DEF FeedInv, BaseInv
<1>4. now \in Nat /\ Ms(now) \in Int /\ Grace \in Nat
    BY <1>3, FeedTyped
<1>5. Ms(now) <= Ms(now') /\ Ms(now') \in Int
    BY <1>2, <1>4, MsMonotone, MsBounds
<1>6. OpenIsYoung'
    <2> SUFFICES ASSUME NEW f \in Feed, NEW o \in Object
                 PROVE  /\ event[f][o].at <= now'
                        /\ open[f][o] # NoEvent =>
                              /\ Ms(now') <= Ms(open[f][o].at) + CommitDelay
                              /\ event[f][o].at < open[f][o].at /\ open[f][o].at <= now'
        BY <1>2 DEF OpenIsYoung
    <2>1. event[f][o].at \in Int /\ open[f][o].at \in Int
        BY <1>3, FeedTyped, EventsTyped
    <2>2. Ms(open[f][o].at) \in Int /\ CommitDelay \in Nat
        BY <2>1, MsBounds DEF FeedAssumption
    <2>3. open[f][o] # NoEvent => Ms(now') - Ms(open[f][o].at) <= CommitDelay
        BY <1>2 DEF Tick
    <2>4. /\ event[f][o].at <= now
          /\ open[f][o] # NoEvent => event[f][o].at < open[f][o].at /\ open[f][o].at <= now
        BY DEF FeedInv, OpenIsYoung
    <2>5. now' \in Int /\ now <= now'
        BY <1>2, <1>4
    <2>6. event[f][o].at <= now'
        BY <1>4, <2>1, <2>4, <2>5
    <2>7. open[f][o] # NoEvent => open[f][o].at <= now'
        BY <1>4, <2>1, <2>4, <2>5
    <2>8. open[f][o] # NoEvent => Ms(now') <= Ms(open[f][o].at) + CommitDelay
        BY <1>5, <2>2, <2>3
    <2> QED BY <2>4, <2>6, <2>7, <2>8
<1>7. SavedIsSettled'
    <2>1. saved.after \in Int
        BY <1>3, FeedTyped, CursorsTyped
    <2> QED BY <1>2, <1>4, <1>5, <2>1 DEF FeedInv, SavedIsSettled, SettledBy
<1>8. RunIsOn'
    <2> SUFFICES ASSUME NEW r \in Run, phase[r] # "idle" PROVE settled[r] + Grace <= Ms(now')
        BY <1>2 DEF FeedInv, RunIsOn, Ms, SettledBy
    <2>1. settled[r] + Grace <= Ms(now) /\ settled[r] \in Int
        BY <1>3, FeedTyped DEF FeedInv, RunIsOn
    <2> QED BY <1>4, <1>5, <2>1
<1>9. /\ CopyIsOlder' /\ Alone' /\ ReadOn' /\ PageIsNext' /\ Through' /\ SavedIsRead'
    BY <1>2 DEF FeedInv, CopyIsOlder, Alone, ReadOn, PageIsNext, Through, SavedIsRead, Shows, Ms
<1> QED BY <1>1, <1>6, <1>7, <1>8, <1>9 DEF FeedInv

LEMMA FeedStarts ==
    ASSUME FeedAssumption, FeedInv, NEW f \in Feed, NEW o \in Object, StartChange(f, o)
    PROVE  FeedInv'
<1>1. BaseInv'
    BY BaseIndexer DEF FeedInv
<1> DEFINE e == [at |-> now, deleted |-> ~event[f][o].deleted]
<1>2. /\ event[f][o].at < now /\ open' = [open EXCEPT ![f][o] = e]
      /\ UNCHANGED <<now, event, feed, copy, source, saved, phase, runFeed, settled, cursor, held,
                     page, fetched, since>>
    BY DEF StartChange, dbVars, runVars
<1>3. TypeOK
    BY DEF FeedInv, BaseInv
<1>4. now \in Nat /\ Ms(now) \in Int /\ Grace \in Nat /\ CommitDelay \in Nat /\ CommitDelay < Grace
    BY <1>3, FeedTyped
<1>5. e.at = now /\ e \in Events /\ e # NoEvent
    BY <1>3, <1>4 DEF NoEvent, TypeOK, Events
<1> HIDE DEF e
<1>6. open'[f][o] = e
    BY <1>2, <1>3 DEF TypeOK
<1>7. \A g \in Feed, p \in Object : ~(g = f /\ p = o) => open'[g][p] = open[g][p]
    BY <1>2, <1>3 DEF TypeOK
<1>8. OpenIsYoung'
    <2> SUFFICES ASSUME NEW g \in Feed, NEW p \in Object
                 PROVE  /\ event[g][p].at <= now
                        /\ open'[g][p] # NoEvent =>
                              /\ Ms(now) <= Ms(open'[g][p].at) + CommitDelay
                              /\ event[g][p].at < open'[g][p].at /\ open'[g][p].at <= now
        BY <1>2 DEF OpenIsYoung, Ms
    <2>1. CASE g = f /\ p = o
        BY <1>2, <1>4, <1>5, <1>6, <2>1 DEF FeedInv, OpenIsYoung
    <2>2. CASE ~(g = f /\ p = o)
        BY <1>7, <2>2 DEF FeedInv, OpenIsYoung
    <2> QED BY <2>1, <2>2
<1>9. SavedIsRead'
    <2>1. ASSUME NEW p \in Object, open'[feed][p] # NoEvent PROVE Past(open'[feed][p], p, saved)
        <3>1. CASE feed = f /\ p = o
            <4>1. Ms(now) - Grace < Ms(e.at) /\ Ms(now) - Grace \in Int
                <5>1. Grace > 0
                    BY <1>4
                <5> QED BY <1>4, <1>5, <5>1
            <4> QED BY <1>3, <1>5, <1>6, <3>1, <4>1, FeedTyped, LateIsPast DEF FeedInv, SavedIsSettled
        <3>2. CASE ~(feed = f /\ p = o)
            BY <1>3, <1>7, <2>1, <3>2 DEF FeedInv, SavedIsRead, TypeOK
        <3> QED BY <3>1, <3>2
    <2> QED BY <1>2, <2>1 DEF FeedInv, SavedIsRead, Shows, Ms
<1>10. SavedIsSettled' /\ CopyIsOlder' /\ Alone' /\ RunIsOn' /\ ReadOn' /\ PageIsNext' /\ Through'
    BY <1>2 DEF FeedInv, SavedIsSettled, CopyIsOlder, Alone, RunIsOn, ReadOn, PageIsNext, Through, Shows, Ms
<1> QED BY <1>1, <1>8, <1>9, <1>10 DEF FeedInv

LEMMA FeedCommits ==
    ASSUME FeedAssumption, FeedInv, NEW f \in Feed, NEW o \in Object, CommitChange(f, o)
    PROVE  FeedInv'
<1>1. BaseInv'
    BY BaseIndexer DEF FeedInv
<1> DEFINE e == open[f][o]
<1>2. /\ e # NoEvent
      /\ event' = [event EXCEPT ![f][o] = e] /\ open' = [open EXCEPT ![f][o] = NoEvent]
      /\ since' = [r \in Run |->
             IF phase[r] # "idle" /\ runFeed[r] = f THEN since[r] \cup {o} ELSE since[r]]
      /\ UNCHANGED <<now, feed, copy, source, saved, phase, runFeed, settled, cursor, held, page,
                     fetched>>
    BY DEF CommitChange, dbVars
<1>3. TypeOK
    BY DEF FeedInv, BaseInv
<1>4. e \in Events /\ e.at \in Int /\ event[f][o].at \in Int
    BY <1>3, FeedTyped, EventsTyped
<1>5. /\ event'[f][o] = e /\ open'[f][o] = NoEvent
      /\ \A g \in Feed, p \in Object :
            ~(g = f /\ p = o) => event'[g][p] = event[g][p] /\ open'[g][p] = open[g][p]
    BY <1>2, <1>3 DEF TypeOK
<1>6. event[f][o].at < e.at /\ e.at <= now
    BY <1>2 DEF FeedInv, OpenIsYoung
<1>7. Ms(now) - Grace < Ms(e.at) /\ Ms(e.at) \in Int
    BY <1>2, <1>3, OpenIsLate DEF FeedInv
<1> HIDE DEF e
<1>8. feed \in Feed /\ now \in Nat /\ Ms(now) \in Int /\ Grace \in Nat
    BY <1>3, FeedTyped
<1>9. OpenIsYoung'
    <2> SUFFICES ASSUME NEW g \in Feed, NEW p \in Object
                 PROVE  /\ event'[g][p].at <= now
                        /\ open'[g][p] # NoEvent =>
                              /\ Ms(now) <= Ms(open'[g][p].at) + CommitDelay
                              /\ event'[g][p].at < open'[g][p].at /\ open'[g][p].at <= now
        BY <1>2 DEF OpenIsYoung, Ms
    <2>1. CASE g = f /\ p = o
        BY <1>5, <1>6, <2>1
    <2>2. CASE ~(g = f /\ p = o)
        BY <1>5, <2>2 DEF FeedInv, OpenIsYoung
    <2> QED BY <2>1, <2>2
<1>10. SavedIsSettled' /\ Alone'
    BY <1>2 DEF FeedInv, SavedIsSettled, Alone, Ms
<1>11. CopyIsOlder'
    <2> SUFFICES ASSUME NEW p \in Object PROVE copy[p].at <= Ms(event'[feed][p].at)
        BY <1>2 DEF CopyIsOlder, Ms
    <2>1. CASE feed = f /\ p = o
        <3>1. copy[p].at \in Int /\ Ms(event[f][o].at) \in Int
            BY <1>3, <1>4, FeedTyped, EventsTyped, MsBounds
        <3>2. copy[p].at <= Ms(event[f][o].at)
            BY <2>1 DEF FeedInv, CopyIsOlder
        <3>3. Ms(event[f][o].at) <= Ms(e.at)
            BY <1>4, <1>6, MsMonotone
        <3> QED BY <1>5, <1>7, <2>1, <3>1, <3>2, <3>3
    <2>2. CASE ~(feed = f /\ p = o)
        BY <1>5, <1>8, <2>2 DEF FeedInv, CopyIsOlder
    <2> QED BY <2>1, <2>2
\* What changed for a run is what it has noted.
<1>12. ASSUME NEW r \in Run, phase[r] # "idle"
       PROVE  /\ since[r] \subseteq since'[r] /\ runFeed[r] = feed
              /\ feed = f => since'[r] = since[r] \cup {o}
              /\ feed # f => since'[r] = since[r]
              /\ \A p \in Object : event'[feed][p] = event[feed][p] \/ (p = o /\ feed = f /\ p \in since'[r])
    <2>1. runFeed[r] = feed
        BY <1>12 DEF FeedInv, RunIsOn
    <2> QED BY <1>2, <1>5, <1>8, <1>12, <2>1
<1>13. RunIsOn'
    <2> SUFFICES ASSUME NEW r \in Run, phase[r] # "idle"
                 PROVE  \A p \in since'[r] : settled[r] < Ms(event'[feed][p].at)
        BY <1>2 DEF FeedInv, RunIsOn, SettledBy, Ms
    <2> TAKE p \in since'[r]
    <2>1. settled[r] + Grace <= Ms(now) /\ settled[r] \in Int
        BY <1>3, FeedTyped DEF FeedInv, RunIsOn
    <2>2. CASE feed = f /\ p = o
        BY <1>5, <1>7, <1>8, <2>1, <2>2
    <2>3. CASE ~(feed = f /\ p = o)
        <3>1. p \in since[r] /\ p \in Object
            BY <1>3, <1>12, <2>3, FeedTyped
        <3> QED BY <1>5, <1>8, <2>3, <3>1 DEF FeedInv, RunIsOn
    <2> QED BY <2>2, <2>3
<1>14. ReadOn'
    <2> SUFFICES ASSUME NEW r \in Run, phase[r] \in {"fetch", "apply"}, NEW p \in Object \ since'[r],
                        event'[feed][p] # NoEvent, ~Past(event'[feed][p], p, cursor[r])
                 PROVE  Shows(feed, p)'
        BY <1>2 DEF ReadOn, Past
    <2>1. event'[feed][p] = event[feed][p] /\ p \in Object \ since[r]
        BY <1>12
    <2>2. Shows(feed, p)
        BY <2>1 DEF FeedInv, ReadOn
    <2> QED BY <1>2, <2>1, <2>2 DEF Shows, Ms
<1>15. Through'
    <2> SUFFICES ASSUME NEW r \in Run, phase[r] \in {"prune", "synced"}, NEW p \in Object \ since'[r]
                 PROVE  Shows(feed, p)'
        BY <1>2 DEF Through
    <2>1. event'[feed][p] = event[feed][p] /\ p \in Object \ since[r]
        BY <1>12
    <2>2. Shows(feed, p)
        BY <2>1 DEF FeedInv, Through
    <2> QED BY <1>2, <2>1, <2>2 DEF Shows, Ms
<1>16. PageIsNext'
    <2> SUFFICES ASSUME NEW r \in Run, phase[r] = "apply"
                 PROVE  /\ \A p \in page[r] : /\ copy[p].at <= Ms(fetched[r][p].at)
                                              /\ fetched[r][p].at <= event'[feed][p].at
                                              /\ p \notin since'[r] => fetched[r][p] = event'[feed][p]
                        /\ \A p \in Object \ (page[r] \cup since'[r]) :
                              event'[feed][p] # NoEvent /\ Past(event'[feed][p], p, cursor[r]) =>
                                  /\ ~(Cardinality(page[r]) < PageSize)
                                  /\ \A q \in page[r] : ~Precedes(event'[feed][p], p, fetched[r][q], q)
        BY <1>2 DEF PageIsNext, Past, Precedes, Ms
    <2>1. ASSUME NEW p \in page[r]
          PROVE  /\ copy[p].at <= Ms(fetched[r][p].at)
                 /\ fetched[r][p].at <= event'[feed][p].at
                 /\ p \notin since'[r] => fetched[r][p] = event'[feed][p]
        <3>1. /\ copy[p].at <= Ms(fetched[r][p].at)
              /\ fetched[r][p].at <= event[feed][p].at
              /\ p \notin since[r] => fetched[r][p] = event[feed][p]
            BY DEF FeedInv, PageIsNext
        <3>2. p \in Object /\ fetched[r][p].at \in Int /\ event[feed][p].at \in Int
            BY <1>3, FeedTyped, EventsTyped
        <3>3. CASE event'[feed][p] = event[feed][p]
            BY <1>12, <3>1, <3>3
        <3>4. CASE p = o /\ feed = f /\ p \in since'[r]
            BY <1>4, <1>5, <1>6, <3>1, <3>2, <3>4
        <3> QED BY <1>12, <3>2, <3>3, <3>4
    <2>2. ASSUME NEW p \in Object \ (page[r] \cup since'[r]), event'[feed][p] # NoEvent,
                 Past(event'[feed][p], p, cursor[r])
          PROVE  /\ ~(Cardinality(page[r]) < PageSize)
                 /\ \A q \in page[r] : ~Precedes(event'[feed][p], p, fetched[r][q], q)
        <3>1. event'[feed][p] = event[feed][p] /\ p \in Object \ (page[r] \cup since[r])
            BY <1>12
        <3> QED BY <2>2, <3>1 DEF FeedInv, PageIsNext
    <2> QED BY <2>1, <2>2
<1>17. SavedIsRead'
    <2> SUFFICES ASSUME NEW p \in Object
                 PROVE  /\ event'[feed][p] # NoEvent /\ ~Past(event'[feed][p], p, saved) => Shows(feed, p)'
                        /\ open'[feed][p] # NoEvent => Past(open'[feed][p], p, saved)
        BY <1>2 DEF SavedIsRead, Past
    <2>1. CASE feed = f /\ p = o
        BY <1>2, <1>5, <2>1 DEF FeedInv, SavedIsRead, e
    <2>2. CASE ~(feed = f /\ p = o)
        <3>1. event'[feed][p] = event[feed][p] /\ open'[feed][p] = open[feed][p]
            BY <1>5, <1>8, <2>2
        <3> QED BY <1>2, <3>1 DEF FeedInv, SavedIsRead, Shows, Ms
    <2> QED BY <2>1, <2>2
<1> QED BY <1>1, <1>9, <1>10, <1>11, <1>13, <1>14, <1>15, <1>16, <1>17 DEF FeedInv

LEMMA FeedBegins ==
    ASSUME FeedAssumption, ~Overlap, FeedInv, NEW r \in Run, NEW f \in Feed, Begin(r, f)
    PROVE  FeedInv'
<1>1. BaseInv'
    BY BaseBegins DEF FeedInv
<1>2. /\ \A s \in Run : phase[s] = "idle"
      /\ feed' = f /\ phase' = [phase EXCEPT ![r] = "fetch"]
      /\ runFeed' = [runFeed EXCEPT ![r] = f] /\ settled' = [settled EXCEPT ![r] = Ms(now) - Grace]
      /\ cursor' = [cursor EXCEPT ![r] = saved'] /\ held' = [held EXCEPT ![r] = saved']
      /\ since' = [since EXCEPT ![r] = {}]
      /\ UNCHANGED <<now, event, open, page, fetched>>
    BY DEF Begin, indexerVars
<1>3. \/ f = feed /\ UNCHANGED <<copy, source, saved>>
      \/ copy' = [o \in Object |-> NoEvent] /\ saved' = Start
    BY DEF Begin
<1>4. TypeOK
    BY DEF FeedInv, BaseInv
<1>5. /\ phase'[r] = "fetch" /\ runFeed'[r] = f /\ settled'[r] = Ms(now) - Grace
      /\ cursor'[r] = saved' /\ held'[r] = saved' /\ since'[r] = {}
      /\ \A s \in Run \ {r} : phase'[s] = "idle"
    BY <1>2, <1>4 DEF TypeOK
<1>6. now \in Nat /\ Ms(now) \in Int /\ Grace \in Nat
    BY <1>4, FeedTyped
<1>7. OpenIsYoung'
    BY <1>2 DEF FeedInv, OpenIsYoung, Ms
<1>8. SavedIsSettled' /\ SettledBy(saved', Ms(now) - Grace)
    BY <1>2, <1>3 DEF FeedInv, SavedIsSettled, SettledBy, Ms
<1>9. CopyIsOlder'
    <2>1. CASE f = feed /\ UNCHANGED <<copy, source, saved>>
        BY <1>2, <2>1 DEF FeedInv, CopyIsOlder, Ms
    <2>2. CASE copy' = [o \in Object |-> NoEvent]
        <3> SUFFICES ASSUME NEW o \in Object PROVE copy'[o].at <= Ms(event[f][o].at)
            BY <1>2 DEF CopyIsOlder, Ms
        <3>1. event[f][o].at \in Int /\ -1 <= event[f][o].at
            BY <1>4, FeedTyped, EventsTyped
        <3>2. Ms(-1) <= Ms(event[f][o].at) /\ Ms(-1) = -1
            BY <3>1, MsMonotone, MsSmall
        <3>3. copy'[o].at = -1
            BY <2>2 DEF NoEvent
        <3> QED BY <3>2, <3>3
    <2> QED BY <1>3, <2>1, <2>2
<1>10. Alone'
    BY <1>5 DEF Alone
<1>11. RunIsOn'
    <2> SUFFICES ASSUME NEW s \in Run, phase'[s] # "idle"
                 PROVE  /\ runFeed'[s] = f /\ held'[s] = saved'
                        /\ settled'[s] + Grace <= Ms(now)
                        /\ SettledBy(saved', settled'[s])
                        /\ since'[s] = {}
        BY <1>2 DEF RunIsOn, SettledBy, Ms
    <2>1. s = r
        BY <1>5
    <2>2. Ms(now) - Grace + Grace <= Ms(now)
        BY <1>6
    <2> QED BY <1>5, <1>8, <2>1, <2>2
<1>12. SavedIsRead'
    <2>1. CASE f = feed /\ UNCHANGED <<copy, source, saved>>
        BY <1>2, <2>1 DEF FeedInv, SavedIsRead, Shows, Ms, Past
    <2>2. CASE saved' = Start
        <3> SUFFICES ASSUME NEW o \in Object
                     PROVE  /\ event[f][o] # NoEvent => Past(event[f][o], o, Start)
                            /\ open[f][o] # NoEvent => Past(open[f][o], o, Start)
            BY <1>2, <2>2 DEF SavedIsRead, Past
        <3> QED BY <1>4, FeedTyped, NothingPassed
    <2> QED BY <1>3, <2>1, <2>2
<1>13. ReadOn'
    BY <1>2, <1>5, <1>12 DEF ReadOn, SavedIsRead, Past, Shows, Ms
<1>14. PageIsNext' /\ Through'
    BY <1>5 DEF PageIsNext, Through
<1> QED BY <1>1, <1>7, <1>8, <1>9, <1>10, <1>11, <1>12, <1>13, <1>14 DEF FeedInv

LEMMA FeedLeaves ==
    ASSUME FeedAssumption, FeedInv, NEW r \in Run, Leave(r), UNCHANGED <<indexerVars, dbVars>>
    PROVE  FeedInv'
<1>1. BaseInv'
    BY BaseLeaves DEF FeedInv
<1>2. TypeOK
    BY DEF FeedInv, BaseInv
<1>3. UNCHANGED <<now, event, open, feed, copy, source, saved, runFeed>>
    BY DEF indexerVars, dbVars, Leave
<1>4. /\ phase'[r] = "idle"
      /\ \A s \in Run \ {r} : /\ phase'[s] = phase[s] /\ settled'[s] = settled[s] /\ cursor'[s] = cursor[s]
                              /\ held'[s] = held[s] /\ since'[s] = since[s]
                              /\ page'[s] = page[s] /\ fetched'[s] = fetched[s]
    BY <1>2 DEF Leave, DropPage, TypeOK
<1>5. \A s \in Run : phase'[s] # "idle" =>
          /\ s # r /\ phase'[s] = phase[s] /\ settled'[s] = settled[s] /\ cursor'[s] = cursor[s]
          /\ held'[s] = held[s] /\ since'[s] = since[s] /\ page'[s] = page[s] /\ fetched'[s] = fetched[s]
    BY <1>4
<1>6. OpenIsYoung' /\ SavedIsSettled' /\ CopyIsOlder' /\ SavedIsRead'
    BY <1>3 DEF FeedInv, OpenIsYoung, SavedIsSettled, CopyIsOlder, SavedIsRead, Shows, Ms, SettledBy, Past
<1>7. Alone'
    BY <1>5 DEF FeedInv, Alone
<1>8. RunIsOn'
    BY <1>3, <1>5 DEF FeedInv, RunIsOn, SettledBy, Ms
<1>9. ReadOn'
    BY <1>3, <1>5 DEF FeedInv, ReadOn, Past, Shows, Ms
<1>10. Through'
    BY <1>3, <1>5 DEF FeedInv, Through, Shows, Ms
<1>11. PageIsNext'
    <2> SUFFICES ASSUME NEW s \in Run, phase'[s] = "apply"
                 PROVE  /\ \A p \in page'[s] : /\ copy[p].at <= Ms(fetched'[s][p].at)
                                               /\ fetched'[s][p].at <= event[feed][p].at
                                               /\ p \notin since'[s] => fetched'[s][p] = event[feed][p]
                        /\ \A p \in Object \ (page'[s] \cup since'[s]) :
                              event[feed][p] # NoEvent /\ Past(event[feed][p], p, cursor'[s]) =>
                                  /\ ~(Cardinality(page'[s]) < PageSize)
                                  /\ \A q \in page'[s] : ~Precedes(event[feed][p], p, fetched'[s][q], q)
        BY <1>3 DEF PageIsNext, Past, Precedes, Ms
    <2>1. /\ phase[s] = "apply" /\ cursor'[s] = cursor[s] /\ since'[s] = since[s]
          /\ page'[s] = page[s] /\ fetched'[s] = fetched[s]
        BY <1>5
    <2> QED BY <2>1 DEF FeedInv, PageIsNext
<1> QED BY <1>1, <1>6, <1>7, <1>8, <1>9, <1>10, <1>11 DEF FeedInv

LEMMA FeedFetches ==
    ASSUME FeedAssumption, FeedInv, NEW r \in Run, Fetch(r)
    PROVE  FeedInv'
<1>1. BaseInv'
    BY BaseFetches DEF FeedInv
<1>2. TypeOK
    BY DEF FeedInv, BaseInv
<1>3. /\ phase[r] = "fetch" /\ phase' = [phase EXCEPT ![r] = "apply"]
      /\ UNCHANGED <<now, event, open, feed, copy, source, saved, runFeed, settled, cursor, held, since>>
    BY DEF Fetch, indexerVars, dbVars
<1>4. runFeed[r] = feed /\ feed \in Feed /\ event[feed] \in [Object -> Events] /\ cursor[r] \in Cursors
    BY <1>2, <1>3, FeedTyped DEF FeedInv, RunIsOn
<1>5. /\ page'[r] = PageFrom(event[feed], cursor[r]) /\ page'[r] \subseteq Object
      /\ \A o \in page'[r] : fetched'[r][o] = event[feed][o]
    BY <1>2, <1>4, PagesArePast
<1>6. phase'[r] = "apply" /\ \A s \in Run \ {r} : phase'[s] = "idle"
    BY <1>2, <1>3 DEF FeedInv, Alone, TypeOK
<1>7. OpenIsYoung' /\ SavedIsSettled' /\ CopyIsOlder' /\ SavedIsRead'
    BY <1>3 DEF FeedInv, OpenIsYoung, SavedIsSettled, CopyIsOlder, SavedIsRead, Shows, Ms, SettledBy, Past
<1>8. Alone'
    BY <1>6 DEF Alone
<1>9. RunIsOn'
    BY <1>3, <1>6 DEF FeedInv, RunIsOn, SettledBy, Ms
<1>10. ReadOn' /\ Through'
    BY <1>3, <1>6 DEF FeedInv, ReadOn, Through, Past, Shows, Ms
<1>11. PageIsNext'
    <2> SUFFICES /\ \A p \in page'[r] : /\ copy[p].at <= Ms(fetched'[r][p].at)
                                        /\ fetched'[r][p].at <= event[feed][p].at
                                        /\ p \notin since[r] => fetched'[r][p] = event[feed][p]
                 /\ \A p \in Object \ (page'[r] \cup since[r]) :
                       event[feed][p] # NoEvent /\ Past(event[feed][p], p, cursor[r]) =>
                           /\ ~(Cardinality(page'[r]) < PageSize)
                           /\ \A q \in page'[r] : ~Precedes(event[feed][p], p, fetched'[r][q], q)
        BY <1>3, <1>6 DEF PageIsNext, Past, Precedes, Ms
    <2>1. ASSUME NEW p \in page'[r]
          PROVE  /\ copy[p].at <= Ms(fetched'[r][p].at)
                 /\ fetched'[r][p].at <= event[feed][p].at
                 /\ p \notin since[r] => fetched'[r][p] = event[feed][p]
        <3>1. event[feed][p].at \in Int
            BY <1>4, <1>5, EventsTyped
        <3>2. copy[p].at <= Ms(event[feed][p].at)
            BY <1>5 DEF FeedInv, CopyIsOlder
        <3>3. fetched'[r][p] = event[feed][p]
            BY <1>5
        <3> QED BY <3>1, <3>2, <3>3
    <2>2. ASSUME NEW p \in Object \ page'[r], event[feed][p] # NoEvent, Past(event[feed][p], p, cursor[r])
          PROVE  /\ ~(Cardinality(page'[r]) < PageSize)
                 /\ \A q \in page'[r] : ~Precedes(event[feed][p], p, fetched'[r][q], q)
        <3>1. p \in Ahead(event[feed], cursor[r]) /\ p \notin PageFrom(event[feed], cursor[r])
            BY <1>5, <2>2 DEF Ahead
        <3>2. ~(Cardinality(page'[r]) < PageSize)
            BY <1>4, <1>5, <3>1, ShortPageIsAll
        <3>3. ASSUME NEW q \in page'[r], Precedes(event[feed][p], p, fetched'[r][q], q) PROVE FALSE
            <4>1. Precedes(event[feed][p], p, event[feed][q], q) /\ q \in PageFrom(event[feed], cursor[r])
                BY <1>5, <3>3
            <4> QED BY <1>4, <3>1, <4>1, PageIsFirst
        <3> QED BY <3>2, <3>3
    <2> QED BY <2>1, <2>2
<1> QED BY <1>1, <1>7, <1>8, <1>9, <1>10, <1>11 DEF FeedInv

LEMMA FeedPrunes ==
    ASSUME FeedAssumption, FeedInv, NEW r \in Run, Prune(r)
    PROVE  FeedInv'
<1>1. BaseInv'
    BY BasePrunes DEF FeedInv
<1>2. TypeOK
    BY DEF FeedInv, BaseInv
<1>3. /\ phase[r] = "prune" /\ phase' = [phase EXCEPT ![r] = "synced"]
      /\ copy' = [o \in Object |-> IF Forgotten(r, o) THEN NoEvent ELSE copy[o]]
      /\ UNCHANGED <<now, event, open, feed, source, saved, runFeed, settled, cursor, held, page,
                     fetched, since>>
    BY DEF Prune, indexerVars
<1>4. phase'[r] = "synced" /\ \A s \in Run \ {r} : phase'[s] = "idle"
    BY <1>2, <1>3 DEF FeedInv, Alone, TypeOK
<1>5. \A o \in Object : copy'[o] = copy[o] \/ (copy[o].deleted /\ copy'[o] = NoEvent)
    BY <1>3 DEF Forgotten
<1>6. ASSUME NEW o \in Object, Shows(feed, o) PROVE Shows(feed, o)'
    <2>1. ~event[feed][o].deleted => ~copy[o].deleted
        BY <1>6 DEF Shows
    <2> QED BY <1>3, <1>5, <1>6, <2>1 DEF Shows, NoEvent, Ms
<1>7. OpenIsYoung' /\ SavedIsSettled'
    BY <1>3 DEF FeedInv, OpenIsYoung, SavedIsSettled, Ms, SettledBy
<1>8. CopyIsOlder'
    <2> SUFFICES ASSUME NEW o \in Object PROVE copy'[o].at <= Ms(event[feed][o].at)
        BY <1>3 DEF CopyIsOlder, Ms
    <2>1. copy[o].at <= Ms(event[feed][o].at)
        BY DEF FeedInv, CopyIsOlder
    <2>2. event[feed][o].at \in Int /\ -1 <= event[feed][o].at
        BY <1>2, FeedTyped, EventsTyped
    <2>3. Ms(-1) <= Ms(event[feed][o].at) /\ Ms(-1) = -1
        BY <2>2, MsMonotone, MsSmall
    <2>4. NoEvent.at = -1
        BY DEF NoEvent
    <2> QED BY <1>5, <2>1, <2>3, <2>4
<1>9. Alone'
    BY <1>4 DEF Alone
<1>10. RunIsOn'
    BY <1>3, <1>4 DEF FeedInv, RunIsOn, SettledBy, Ms
<1>11. SavedIsRead'
    BY <1>3, <1>6 DEF FeedInv, SavedIsRead, Past
<1>12. Through'
    BY <1>3, <1>4, <1>6 DEF FeedInv, Through
<1>13. ReadOn' /\ PageIsNext'
    BY <1>4 DEF ReadOn, PageIsNext
<1> QED BY <1>1, <1>7, <1>8, <1>9, <1>10, <1>11, <1>12, <1>13 DEF FeedInv

LEMMA FeedApplies ==
    ASSUME FeedAssumption, FeedInv, NEW r \in Run, Apply(r)
    PROVE  FeedInv'
<1>1. BaseInv'
    BY BaseApplies DEF FeedInv
<1>2. TypeOK
    BY DEF FeedInv, BaseInv
<1>3. /\ phase[r] = "apply" /\ feed = runFeed[r]
      /\ copy' = [o \in Object |-> NewRow(r, o)]
      /\ saved' = NewHeld(r) /\ held' = [held EXCEPT ![r] = NewHeld(r)]
      /\ UNCHANGED <<now, event, open, feed, runFeed, settled, since>>
    BY DEF Apply, SameFeed, indexerVars
<1>4. /\ \A o \in page[r] : fetched[r][o] # NoEvent /\ Past(fetched[r][o], o, cursor[r])
      /\ page[r] \subseteq Object /\ since[r] \subseteq Object /\ fetched[r] \in [Object -> Events]
      /\ feed \in Feed /\ event[feed] \in [Object -> Events] /\ open[feed] \in [Object -> Events]
      /\ settled[r] \in Int /\ Ms(now) \in Int /\ Grace \in Nat /\ now \in Nat
    BY <1>2, <1>3, FeedTyped DEF FeedInv, BaseInv, PageIsPast
<1>5. /\ held[r] = saved /\ settled[r] + Grace <= Ms(now) /\ SettledBy(saved, settled[r])
      /\ \A o \in since[r] : settled[r] < Ms(event[feed][o].at)
    BY <1>3 DEF FeedInv, RunIsOn
<1>6. /\ \A o \in page[r] : /\ copy[o].at <= Ms(fetched[r][o].at)
                            /\ fetched[r][o].at <= event[feed][o].at
                            /\ o \notin since[r] => fetched[r][o] = event[feed][o]
      /\ \A o \in Object \ (page[r] \cup since[r]) :
            event[feed][o] # NoEvent /\ Past(event[feed][o], o, cursor[r]) =>
                /\ ~(Cardinality(page[r]) < PageSize)
                /\ \A p \in page[r] : ~Precedes(event[feed][o], o, fetched[r][p], p)
    BY <1>3 DEF FeedInv, PageIsNext
\* The copy takes every row of the page.
<1>7. /\ \A o \in page[r] : copy'[o] = [at |-> Ms(fetched[r][o].at), deleted |-> fetched[r][o].deleted]
      /\ \A o \in Object \ page[r] : copy'[o] = copy[o]
    BY <1>3, <1>4, <1>6 DEF NewRow
<1>8. ASSUME NEW o \in Object \ since[r], o \in page[r] \/ Shows(feed, o)
      PROVE  Shows(feed, o)'
    <2>1. CASE o \in page[r]
        <3>1. copy'[o] = [at |-> Ms(event[feed][o].at), deleted |-> event[feed][o].deleted]
            BY <1>6, <1>7, <2>1
        <3>2. event[feed][o].deleted \in BOOLEAN
            BY <1>4, EventsTyped
        <3> QED BY <1>3, <3>1, <3>2 DEF Shows, Ms
    <2>2. CASE o \notin page[r]
        BY <1>3, <1>7, <1>8, <2>2 DEF Shows, Ms
    <2> QED BY <2>1, <2>2
\* What the place of an event of the page has passed is in the copy.
<1>9. ASSUME NEW q \in page[r], NEW o \in Object \ since[r], event[feed][o] # NoEvent,
             ~Past(event[feed][o], o, Place(r, q))
      PROVE  Shows(feed, o)'
    <2>1. Precedes(event[feed][o], o, fetched[r][q], q)
        BY <1>4, <1>9, PassedPrecedes DEF Place
    <2>2. o \in page[r] \/ ~Past(event[feed][o], o, cursor[r])
        BY <1>6, <1>9, <2>1
    <2>3. o \in page[r] \/ Shows(feed, o)
        BY <1>3, <1>9, <2>2 DEF FeedInv, ReadOn
    <2> QED BY <1>8, <2>3
<1>10. /\ NewHeld(r) \in Cursors
       /\ \/ NewHeld(r) = saved
          \/ \E q \in page[r] : IsSettled(r, q) /\ NewHeld(r) = Place(r, q)
    BY <1>2, <1>4, <1>5, HeldIsSettled
<1>11. SettledBy(NewHeld(r), settled[r])
    BY <1>5, <1>10 DEF SettledBy, IsSettled, Place
<1>12. SettledBy(NewHeld(r), Ms(now) - Grace)
    <2>1. NewHeld(r).after \in Int
        BY <1>10, CursorsTyped
    <2> QED BY <1>4, <1>5, <1>11, <2>1 DEF SettledBy
<1>13. OpenIsYoung' /\ SavedIsSettled'
    BY <1>3, <1>12 DEF FeedInv, OpenIsYoung, SavedIsSettled, Ms, SettledBy
<1>14. CopyIsOlder'
    <2> SUFFICES ASSUME NEW o \in Object PROVE copy'[o].at <= Ms(event[feed][o].at)
        BY <1>3 DEF CopyIsOlder, Ms
    <2>1. CASE o \in page[r]
        <3>1. fetched[r][o].at \in Int /\ event[feed][o].at \in Int
            BY <1>4, EventsTyped
        <3>2. Ms(fetched[r][o].at) <= Ms(event[feed][o].at)
            BY <1>6, <2>1, <3>1, MsMonotone
        <3>3. copy'[o].at = Ms(fetched[r][o].at)
            <4>1. copy'[o] = [at |-> Ms(fetched[r][o].at), deleted |-> fetched[r][o].deleted]
                BY <1>7, <2>1
            <4> QED BY <4>1
        <3> QED BY <3>2, <3>3
    <2>2. CASE o \notin page[r]
        BY <1>7, <2>2 DEF FeedInv, CopyIsOlder
    <2> QED BY <2>1, <2>2
<1>15. SavedIsRead'
    <2> SUFFICES ASSUME NEW o \in Object
                 PROVE  /\ event[feed][o] # NoEvent /\ ~Past(event[feed][o], o, NewHeld(r)) => Shows(feed, o)'
                        /\ open[feed][o] # NoEvent => Past(open[feed][o], o, NewHeld(r))
        BY <1>3 DEF SavedIsRead, Past
    <2>1. ASSUME open[feed][o] # NoEvent PROVE Past(open[feed][o], o, NewHeld(r))
        <3>1. Ms(now) - Grace < Ms(open[feed][o].at)
            BY <1>2, <1>4, <2>1, OpenIsLate DEF FeedInv
        <3> QED BY <1>4, <1>10, <1>12, <2>1, <3>1, LateIsPast
    <2>2. ASSUME event[feed][o] # NoEvent, ~Past(event[feed][o], o, NewHeld(r)) PROVE Shows(feed, o)'
        <3>1. o \notin since[r]
            <4> SUFFICES ASSUME o \in since[r] PROVE FALSE
                OBVIOUS
            <4>1. settled[r] < Ms(event[feed][o].at)
                BY <1>5
            <4> QED BY <1>4, <1>10, <1>11, <2>2, <4>1, LateIsPast
        <3>2. CASE NewHeld(r) = saved
            <4>1. Shows(feed, o)
                BY <2>2, <3>2 DEF FeedInv, SavedIsRead
            <4> QED BY <1>8, <3>1, <4>1
        <3>3. CASE \E q \in page[r] : NewHeld(r) = Place(r, q)
            BY <1>9, <2>2, <3>1, <3>3
        <3> QED BY <1>10, <3>2, <3>3
    <2> QED BY <2>1, <2>2
<1>16. \A s \in Run \ {r} : phase'[s] = "idle"
    <2>1. \A s \in Run \ {r} : phase[s] = "idle" /\ phase'[s] = phase[s]
        BY <1>2, <1>3 DEF FeedInv, Alone, Apply, TypeOK
    <2> QED BY <2>1
<1>17. Alone'
    BY <1>16 DEF Alone
<1>18. RunIsOn'
    <2>1. held'[r] = NewHeld(r)
        BY <1>2, <1>3 DEF TypeOK
    <2> SUFFICES ASSUME NEW s \in Run, phase'[s] # "idle"
                 PROVE  /\ runFeed[s] = feed /\ held'[s] = NewHeld(r)
                        /\ settled[s] + Grace <= Ms(now)
                        /\ SettledBy(NewHeld(r), settled[s])
                        /\ \A o \in since[s] : settled[s] < Ms(event[feed][o].at)
        BY <1>3 DEF RunIsOn, SettledBy, Ms
    <2>2. s = r
        BY <1>16
    <2> QED BY <1>3, <1>5, <1>11, <2>1, <2>2
<1>19. ASSUME phase' = [phase EXCEPT ![r] = "prune"], Cardinality(page[r]) < PageSize
       PROVE  ReadOn' /\ PageIsNext' /\ Through'
    <2>1. phase'[r] = "prune"
        BY <1>2, <1>19 DEF TypeOK
    <2>2. ASSUME NEW o \in Object \ since[r] PROVE Shows(feed, o)'
        <3>1. CASE o \in page[r]
            BY <1>8, <3>1
        <3>2. CASE o \notin page[r] /\ event[feed][o] # NoEvent
            <4>1. ~Past(event[feed][o], o, cursor[r])
                BY <1>6, <1>19, <3>2
            <4>2. Shows(feed, o)
                BY <1>3, <3>2, <4>1 DEF FeedInv, ReadOn
            <4> QED BY <1>8, <4>2
        <3>3. CASE o \notin page[r] /\ event[feed][o] = NoEvent
            <4>1. copy[o].at <= -1
                BY <3>3, MsSmall DEF FeedInv, CopyIsOlder, NoEvent
            <4>2. copy[o] = NoEvent
                BY <1>2, <4>1, FeedTyped, EventsTyped
            <4>3. Shows(feed, o)
                BY <3>3, <4>2 DEF Shows, NoEvent
            <4> QED BY <1>8, <4>3
        <3> QED BY <3>1, <3>2, <3>3
    <2>3. Through'
        BY <1>3, <1>16, <2>2 DEF Through
    <2> QED BY <1>16, <2>1, <2>3 DEF ReadOn, PageIsNext
<1>20. ASSUME phase' = [phase EXCEPT ![r] = "fetch"], Cardinality(page[r]) = PageSize,
              cursor' = [cursor EXCEPT ![r] = LastPlace(r)]
       PROVE  ReadOn' /\ PageIsNext' /\ Through'
    <2>1. phase'[r] = "fetch" /\ cursor'[r] = LastPlace(r)
        BY <1>2, <1>20 DEF TypeOK
    <2>2. page[r] # {}
        BY <1>20, FS_EmptySet DEF FeedAssumption
    <2>3. PICK q \in page[r] : LastPlace(r) = Place(r, q)
        BY <1>2, <1>4, <2>2, LastIsOfPage
    <2>4. ASSUME NEW o \in Object \ since[r], event[feed][o] # NoEvent, ~Past(event[feed][o], o, LastPlace(r))
          PROVE  Shows(feed, o)'
        BY <1>9, <2>3, <2>4
    <2>5. ReadOn'
        BY <1>3, <1>16, <2>1, <2>4 DEF ReadOn, Past
    <2> QED BY <1>16, <2>1, <2>5 DEF PageIsNext, Through
<1>21. ASSUME phase' = [phase EXCEPT ![r] = "stalled"]
       PROVE  ReadOn' /\ PageIsNext' /\ Through'
    <2>1. phase'[r] = "stalled"
        BY <1>2, <1>21 DEF TypeOK
    <2> QED BY <1>16, <2>1 DEF ReadOn, PageIsNext, Through
<1>22. ReadOn' /\ PageIsNext' /\ Through'
    BY <1>19, <1>20, <1>21 DEF Apply
<1> QED BY <1>1, <1>13, <1>14, <1>15, <1>17, <1>18, <1>22 DEF FeedInv

LEMMA FeedStep == ASSUME FeedAssumption, ~Overlap PROVE FeedInv /\ [Next]_vars => FeedInv'
<1> SUFFICES ASSUME FeedInv, [Next]_vars PROVE FeedInv'
    OBVIOUS
<1>1. CASE Tick
    BY <1>1, FeedTicks
<1>2. CASE \E f \in Feed, o \in Object : StartChange(f, o) \/ CommitChange(f, o)
    BY <1>2, FeedStarts, FeedCommits
<1>3. ASSUME NEW r \in Run, RunStep(r) PROVE FeedInv'
    <2>1. CASE \E f \in Feed : Begin(r, f)
        BY <2>1, FeedBegins
    <2>2. CASE Fetch(r)
        BY <2>2, FeedFetches
    <2>3. CASE Apply(r)
        BY <2>3, FeedApplies
    <2>4. CASE ApplyRefused(r) \/ EndRun(r)
        BY <2>4, FeedLeaves DEF ApplyRefused, EndRun
    <2>5. CASE Prune(r)
        BY <2>5, FeedPrunes
    <2> QED BY <1>3, <2>1, <2>2, <2>3, <2>4, <2>5 DEF RunStep
<1>4. CASE UNCHANGED vars
    <2>1. UNCHANGED <<now, event, open, feed, copy, source, saved, phase, runFeed, settled, cursor, held,
                      page, fetched, since>>
        BY <1>4 DEF vars, indexerVars, dbVars, runVars
    <2>2. BaseInv'
        BY <1>4, BaseStep DEF FeedInv
    <2>3. OpenIsYoung' /\ SavedIsSettled' /\ CopyIsOlder' /\ Alone' /\ RunIsOn'
        BY <2>1 DEF FeedInv, OpenIsYoung, SavedIsSettled, CopyIsOlder, Alone, RunIsOn, SettledBy, Ms
    <2>4. ReadOn' /\ PageIsNext' /\ Through' /\ SavedIsRead'
        BY <2>1 DEF FeedInv, ReadOn, PageIsNext, Through, SavedIsRead, Shows, Past, Precedes, Ms
    <2> QED BY <2>2, <2>3, <2>4 DEF FeedInv
<1> QED BY <1>1, <1>2, <1>3, <1>4 DEF Next

LEMMA FeedIsRight == ASSUME FeedAssumption, FeedInv PROVE SyncIsComplete /\ SavedIsRead
<1>1. SyncIsComplete
    BY DEF FeedInv, RunIsOn, Through, SyncIsComplete
<1> QED BY <1>1 DEF FeedInv

\* If runs do not overlap, one that went through has read every change from before it
\* began, and the saved cursor has passed nothing that is not in the copy: for any size
\* of a page, precision of the times and delay of a commit (syncObjectFeed).
THEOREM SyncsAreComplete ==
    ASSUME FeedAssumption, ~Overlap PROVE Spec => [](SyncIsComplete /\ SavedIsRead)
<1>1. Init => FeedInv
    BY FeedInit
<1>2. FeedInv /\ [Next]_vars => FeedInv'
    BY FeedStep
<1>3. FeedInv => SyncIsComplete /\ SavedIsRead
    BY FeedIsRight
<1> QED BY <1>1, <1>2, <1>3, PTL DEF Spec
=============================================================================
