---------------------------- MODULE BrowserProofs ----------------------------
(***************************************************************************)
(* Proofs about what runs in a browser, each for any values of its own     *)
(* constants: the viewer session (SiaSession), the player's loader         *)
(* (HybridLoader) and the uploads of a studio tab (StudioUploads).         *)
(*                                                                         *)
(* Each part is an instance here, over variables of its own. They do not   *)
(* interact; ServicesProofs puts their invariants together.                *)
(***************************************************************************)
EXTENDS Removal, Integers, FiniteSets, FiniteSetTheorems, SequenceTheorems, TLAPS

CONSTANTS
    None,
    \* SiaSession
    Attempt, Resolve, Object, Fetch, MaxCached, MaxDisposed,
    \* HybridLoader
    Loader, Segment, MaxFailures,
    \* StudioUploads
    Upload, SameFile, TooLarge

VARIABLES
    \* SiaSession
    generation, promise, sdk, conn, born, map, fetch, asked, cached, at, object, on, using,
    forced, handle, dropped,
    \* HybridLoader
    session, warm, siaBusy, failures, paused, load, segment, read, answers,
    \* StudioUploads
    card, task, waiting, held, online, overLimit, elsewhere

N == INSTANCE SiaSession
H == INSTANCE HybridLoader WITH object <- segment
U == INSTANCE StudioUploads

----------------------------------------------------------------------------
(***************************************************************************)
(* Induction over the natural numbers, on a set of them: were k not in A,  *)
(* the successor would map the numbers of A up to k into themselves without*)
(* reaching 0, one to one.                                                 *)
(***************************************************************************)
LEMMA NatSetInduction ==
  ASSUME NEW A, 0 \in A, \A n \in Nat : n \in A => n + 1 \in A
  PROVE  Nat \subseteq A
<1> SUFFICES ASSUME NEW k \in Nat, k \notin A PROVE FALSE
  OBVIOUS
<1> DEFINE C == A \cap (0 .. k)
           D == C \ {0}
           f == [x \in C |-> x + 1]
<1>1. IsFiniteSet(C) 
  <2>1. IsFiniteSet(0 .. k)
    BY FS_Interval
  <2> QED BY <2>1, FS_Subset
<1>2. IsFiniteSet(D) /\ Cardinality(D) = Cardinality(C) - 1 /\ Cardinality(C) \in Nat
  <2>1. 0 \in C
    OBVIOUS
  <2> HIDE DEF C
  <2> QED BY <1>1, <2>1, FS_RemoveElement, FS_CardinalityType
<1>3. f \in [C -> D]
  <2> SUFFICES ASSUME NEW x \in C PROVE x + 1 \in D
    OBVIOUS
  <2>1. x \in Nat /\ x \in A /\ x <= k /\ x # k
    OBVIOUS
  <2>2. x + 1 \in A /\ x + 1 \in 0 .. k /\ x + 1 # 0
    BY <2>1
  <2> QED BY <2>2
<1>4. PICK x, y \in C : x # y /\ f[x] = f[y]
  <2>1. Cardinality(D) < Cardinality(C)
    BY <1>2
  <2> HIDE DEF C, D, f
  <2> QED BY <1>1, <1>2, <1>3, <2>1, FS_PigeonHole
<1> QED BY <1>4

\* Without(s, gone) has the elements of s that are not gone, and each as often as once
\* if s has; it is no longer than s. By induction over the prefixes of s.
LEMMA WithoutIsRight ==
  ASSUME NEW S, NEW s \in Seq(S), NEW gone
  PROVE  /\ Without(s, gone) \in Seq(S)
         /\ \A i \in DOMAIN Without(s, gone) :
               Without(s, gone)[i] \notin gone /\ \E j \in DOMAIN s : s[j] = Without(s, gone)[i]
         /\ \A j \in DOMAIN s : s[j] \notin gone =>
               \E i \in DOMAIN Without(s, gone) : s[j] = Without(s, gone)[i]
         /\ (\A i, j \in DOMAIN s : s[i] = s[j] => i = j) =>
               \A i, j \in DOMAIN Without(s, gone) :
                  Without(s, gone)[i] = Without(s, gone)[j] => i = j
         /\ Len(Without(s, gone)) <= Len(s)
<1> DEFINE L == Len(s)
           Body(f, n) == IF n = 0 THEN <<>>
                ELSE IF s[n] \in gone THEN f[n - 1] ELSE Append(f[n - 1], s[n])
           Is(f, m) == f = [n \in 0 .. m |-> Body(f, n)]
           K == CHOOSE f : Is(f, L)
<1>1. L \in Nat /\ \A i \in 1 .. L : s[i] \in S
  OBVIOUS
<1>2. \E f : Is(f, L)
  <2> DEFINE A == {m \in Nat : \E f : Is(f, m)}
  <2>1. 0 \in A
    <3>1. Is([n \in 0 .. 0 |-> <<>>], 0)
      OBVIOUS
    <3> QED BY <3>1
  <2>2. ASSUME NEW m \in Nat, m \in A PROVE m + 1 \in A
    <3>1. PICK f : Is(f, m)
      BY <2>2
    <3> DEFINE g == [n \in 0 .. (m + 1) |-> IF n <= m THEN f[n] ELSE Body(f, n)]
    <3>4. \A n \in 0 .. m : f[n] = Body(f, n)
      BY <3>1
    <3>2. \A n \in 0 .. (m + 1) : g[n] = Body(g, n)
      <4> TAKE n \in 0 .. (m + 1)
      <4>1. CASE n = 0
        <5>1. n \in 0 .. m /\ g[n] = f[n]
          BY <4>1
        <5>2. Body(f, n) = <<>> /\ Body(g, n) = <<>>
          BY <4>1
        <5> HIDE DEF g, Body
        <5> QED BY <3>4, <5>1, <5>2
      <4>2. CASE n # 0
        <5>1. n - 1 \in 0 .. m /\ g[n - 1] = f[n - 1]
          BY <4>2
        <5>2. Body(g, n) = Body(f, n)
          BY <5>1
        <5>3. g[n] = Body(f, n)
          <6> HIDE DEF Body
          <6> QED BY <3>4
        <5> QED BY <5>2, <5>3
      <4> QED BY <4>1, <4>2
    <3>3. Is(g, m + 1)
      <4>1. g = [n \in 0 .. (m + 1) |-> g[n]]
        OBVIOUS
      <4> HIDE DEF g
      <4> QED BY <3>2, <4>1
    <3> HIDE DEF g, Is
    <3> QED BY <3>3
  <2> HIDE DEF A
  <2>3. Nat \subseteq A
    BY <2>1, <2>2, NatSetInduction
  <2> QED BY <1>1, <2>3 DEF A
<1>3. Is(K, L)
  BY <1>2
<1>4. Without(s, gone) = K[L]
  BY DEF Without
<1> HIDE DEF K, L
<1>12. \A n \in 0 .. L : K[n] = Body(K, n)
  BY <1>3
<1>5. K[0] = <<>> /\ \A n \in 1 .. L : K[n] = IF s[n] \in gone THEN K[n - 1] ELSE Append(K[n - 1], s[n])
  BY <1>1, <1>12
<1> DEFINE P(n) == 
         /\ K[n] \in Seq(S)
         /\ Len(K[n]) <= n
         /\ \A i \in 1 .. Len(K[n]) : K[n][i] \notin gone /\ \E j \in 1 .. n : s[j] = K[n][i]
         /\ \A j \in 1 .. n : s[j] \notin gone => \E i \in 1 .. Len(K[n]) : s[j] = K[n][i]
         /\ (\A i, j \in 1 .. L : s[i] = s[j] => i = j) =>
               \A i, j \in 1 .. Len(K[n]) : K[n][i] = K[n][j] => i = j
<1>6. P(0)
  BY <1>5
<1>7. ASSUME NEW n \in Nat, n < L, P(n) PROVE P(n + 1)
  <2>1. n + 1 \in 1 .. L /\ (n + 1) - 1 = n /\ s[n + 1] \in S
    <3> HIDE DEF L, P
    <3> QED BY <1>1, <1>7
  <2>4. K[n + 1] = IF s[n + 1] \in gone THEN K[n] ELSE Append(K[n], s[n + 1])
    <3> HIDE DEF L, P
    <3>1. K[n + 1] = IF s[n + 1] \in gone THEN K[(n + 1) - 1]
                     ELSE Append(K[(n + 1) - 1], s[n + 1])
      BY <2>1, <1>5
    <3> QED BY <2>1, <3>1
  <2>2. CASE s[n + 1] \in gone
    <3>1. K[n + 1] = K[n]
      BY <2>2, <2>4
    <3>2. Len(K[n]) \in Nat
      BY <1>7
    <3>3. K[n + 1] \in Seq(S) /\ Len(K[n + 1]) <= n + 1
      BY <3>1, <3>2, <1>7
    <3>4. \A i \in 1 .. Len(K[n + 1]) :
             K[n + 1][i] \notin gone /\ \E j \in 1 .. (n + 1) : s[j] = K[n + 1][i]
      BY <3>1, <1>7
    <3>5. \A j \in 1 .. (n + 1) :
             s[j] \notin gone => \E i \in 1 .. Len(K[n + 1]) : s[j] = K[n + 1][i]
      BY <3>1, <2>2, <1>7
    <3>6. (\A i, j \in 1 .. L : s[i] = s[j] => i = j) =>
               \A i, j \in 1 .. Len(K[n + 1]) : K[n + 1][i] = K[n + 1][j] => i = j
      BY <3>1, <1>7
    <3> QED BY <3>3, <3>4, <3>5, <3>6
  <2>3. CASE s[n + 1] \notin gone
    <3>1. K[n + 1] = Append(K[n], s[n + 1])
      BY <2>3, <2>4
    <3>2. /\ K[n + 1] \in Seq(S) /\ Len(K[n + 1]) = Len(K[n]) + 1
          /\ \A i \in 1 .. Len(K[n]) : K[n + 1][i] = K[n][i]
          /\ K[n + 1][Len(K[n]) + 1] = s[n + 1]
      BY <3>1, <2>1, <1>7
    <3>3. Len(K[n]) \in Nat
      BY <1>7
    <3>4. \A i \in 1 .. Len(K[n + 1]) : K[n + 1][i] \notin gone /\ \E j \in 1 .. (n + 1) : s[j] = K[n + 1][i]
      <4> TAKE i \in 1 .. Len(K[n + 1])
      <4>1. CASE i = Len(K[n]) + 1
        BY <3>2, <2>3, <4>1
      <4>2. CASE i # Len(K[n]) + 1
        <5>1. i \in 1 .. Len(K[n]) /\ K[n + 1][i] = K[n][i]
          BY <3>2, <3>3, <4>2
        <5>2. K[n][i] \notin gone /\ \E j \in 1 .. n : s[j] = K[n][i]
          BY <5>1, <1>7
        <5> QED BY <5>1, <5>2
      <4> QED BY <4>1, <4>2
    <3>5. \A j \in 1 .. (n + 1) : s[j] \notin gone => \E i \in 1 .. Len(K[n + 1]) : s[j] = K[n + 1][i]
      <4> TAKE j \in 1 .. (n + 1)
      <4>1. CASE j = n + 1
        BY <3>2, <3>3, <4>1
      <4>2. CASE j # n + 1
        BY <3>2, <3>3, <4>2, <1>7
      <4> QED BY <4>1, <4>2
    <3>6. ASSUME \A i, j \in 1 .. L : s[i] = s[j] => i = j,
                 NEW i \in 1 .. Len(K[n + 1]), NEW j \in 1 .. Len(K[n + 1]), K[n + 1][i] = K[n + 1][j]
          PROVE i = j
      <4>1. \A k \in 1 .. Len(K[n]) : K[n][k] # s[n + 1]
        <5> TAKE k \in 1 .. Len(K[n])
        <5>1. PICK l \in 1 .. n : s[l] = K[n][k]
          BY <1>7
        <5>2. l \in 1 .. L /\ l # n + 1
          BY <1>1, <1>7
        <5> QED BY <5>1, <5>2, <3>6, <2>1
      <4>2. \A k \in 1 .. Len(K[n + 1]) :
                k = Len(K[n]) + 1 \/ (k \in 1 .. Len(K[n]) /\ K[n + 1][k] = K[n][k])
        BY <3>2, <3>3
      <4>3. \A k, l \in 1 .. Len(K[n]) : K[n][k] = K[n][l] => k = l
        BY <3>6, <1>7
      <4> QED BY <4>1, <4>2, <4>3, <3>2, <3>6
    <3>7. K[n + 1] \in Seq(S) /\ Len(K[n + 1]) <= n + 1
      <4>1. Len(K[n]) <= n /\ Len(K[n]) \in Nat
        BY <1>7
      <4> HIDE DEF P
      <4> QED BY <3>2, <4>1
    <3>8. (\A i, j \in 1 .. L : s[i] = s[j] => i = j) =>
             \A i, j \in 1 .. Len(K[n + 1]) : K[n + 1][i] = K[n + 1][j] => i = j
      <4> HIDE DEF P
      <4> QED BY <3>6
    <3> QED BY <3>4, <3>5, <3>7, <3>8
  <2> QED BY <2>2, <2>3
<1>8. P(L)
  <2> DEFINE A == {m \in Nat : m <= L => P(m)}
  <2>1. 0 \in A
    BY <1>6
  <2>2. ASSUME NEW m \in Nat, m \in A PROVE m + 1 \in A
    <3> HIDE DEF P
    <3> QED BY <1>1, <1>7, <2>2
  <2> HIDE DEF A, P
  <2>3. Nat \subseteq A
    BY <2>1, <2>2, NatSetInduction
  <2> QED BY <1>1, <2>3 DEF A
<1>9. DOMAIN s = 1 .. L
  BY DEF L
<1>10. K[L] \in Seq(S) /\ DOMAIN K[L] = 1 .. Len(K[L])
  BY <1>8
<1>11. P(L) => /\ \A i \in DOMAIN K[L] : K[L][i] \notin gone /\ \E j \in DOMAIN s : s[j] = K[L][i]
               /\ \A j \in DOMAIN s : s[j] \notin gone => \E i \in DOMAIN K[L] : s[j] = K[L][i]
               /\ (\A i, j \in DOMAIN s : s[i] = s[j] => i = j) =>
                     \A i, j \in DOMAIN K[L] : K[L][i] = K[L][j] => i = j
  BY <1>9, <1>10
<1>13. Len(K[L]) <= Len(s)
  BY <1>8 DEF L
<1>14. P(L)
  BY <1>8
<1> HIDE DEF P
<1> QED BY <1>4, <1>10, <1>11, <1>13, <1>14
----------------------------------------------------------------------------
(***************************************************************************)
(* SiaSession.                                                             *)
(*                                                                         *)
(* A connection is the session's own as long as its generation lasts, and  *)
(* only one attempt of a generation is under way or open. The cache has    *)
(* each resolve at most once, and has those that neither failed nor were   *)
(* dropped: so what is dropped is exactly what left the cache before it    *)
(* was done, and Resolved frees it.                                        *)
(***************************************************************************)
InProgress == {"connect", "fetch", "share", "call", "done"}

OneConnection ==
    /\ \A a \in Attempt : born[a] <= generation
    /\ \A a \in Attempt : conn[a] = "connecting" /\ born[a] = generation => promise = a
    /\ promise # None =>
          conn[promise] \in {"connecting", "open"} /\ born[promise] = generation
    /\ sdk # None => sdk = promise /\ conn[sdk] = "open"
    /\ \A a \in Attempt : conn[a] = "open" => sdk = a

WaitsForAttempt == \A r \in Resolve : at[r] = "connect" => on[r] \in Attempt

\* An object is made when its resolve is done, and freed exactly if it was dropped,
\* as only a resolve that began is.
HandleIsMade ==
    \A r \in Resolve : /\ handle[r] # "none" => at[r] = "done"
                       /\ handle[r] = "open" => ~dropped[r]
                       /\ handle[r] = "freed" => dropped[r]
                       /\ dropped[r] => at[r] # "unused"

CacheIsOnce == \A i, j \in DOMAIN cached : cached[i] = cached[j] => i = j

CacheIsLive == \A r \in Resolve : r \in N!Entries <=> ~dropped[r] /\ at[r] \in InProgress

SessionInv ==
    N!TypeOK /\ OneConnection /\ WaitsForAttempt /\ HandleIsMade /\ CacheIsOnce /\ CacheIsLive

LEMMA SessionInit == ASSUME N!SessionAssumption, N!Init PROVE SessionInv
<1> USE DEF N!Init
<1>1. 0 \in 0 .. MaxDisposed
  BY DEF N!SessionAssumption
<1>2. cached \in Seq(Resolve) /\ N!Entries = {} /\ DOMAIN cached = {}
  BY DEF N!Entries
<1>3. N!TypeOK
  BY <1>1, <1>2 DEF N!TypeOK
<1>4. OneConnection /\ WaitsForAttempt /\ HandleIsMade
  BY DEF OneConnection, WaitsForAttempt, HandleIsMade
<1>5. CacheIsOnce /\ CacheIsLive
  BY <1>2 DEF CacheIsOnce, CacheIsLive, InProgress
<1> QED BY <1>3, <1>4, <1>5 DEF SessionInv

\* The cache without some of its entries.
LEMMA Removed ==
  ASSUME SessionInv, NEW gone, NEW s, s = N!Without(cached, gone)
  PROVE  /\ s \in Seq(Resolve)
         /\ {s[i] : i \in DOMAIN s} = N!Entries \ gone
         /\ \A i, j \in DOMAIN s : s[i] = s[j] => i = j
<1>1. cached \in Seq(Resolve)
  BY DEF SessionInv, N!TypeOK
<1>s. s = Without(cached, gone)
  BY DEF N!Without, Without
<1>2. /\ s \in Seq(Resolve)
      /\ \A i \in DOMAIN s : s[i] \notin gone /\ \E j \in DOMAIN cached : cached[j] = s[i]
      /\ \A j \in DOMAIN cached : cached[j] \notin gone => \E i \in DOMAIN s : cached[j] = s[i]
      /\ (\A i, j \in DOMAIN cached : cached[i] = cached[j] => i = j) =>
            \A i, j \in DOMAIN s : s[i] = s[j] => i = j
  BY <1>1, <1>s, WithoutIsRight
<1>3. {s[i] : i \in DOMAIN s} = N!Entries \ gone
  BY <1>2 DEF N!Entries
<1> QED BY <1>2, <1>3 DEF SessionInv, CacheIsOnce

\* What an entry that is appended does.
LEMMA Added ==
  ASSUME NEW s \in Seq(Resolve), NEW r \in Resolve,
         \A i, j \in DOMAIN s : s[i] = s[j] => i = j,
         r \notin {s[i] : i \in DOMAIN s}
  PROVE  LET t == Append(s, r) IN
         /\ t \in Seq(Resolve) /\ Len(t) = Len(s) + 1
         /\ {t[i] : i \in DOMAIN t} = {s[i] : i \in DOMAIN s} \cup {r}
         /\ \A i, j \in DOMAIN t : t[i] = t[j] => i = j
<1> DEFINE t == Append(s, r)
<1>1. /\ t \in Seq(Resolve) /\ Len(t) = Len(s) + 1 /\ Len(s) \in Nat
      /\ DOMAIN s = 1 .. Len(s) /\ DOMAIN t = 1 .. Len(s) + 1
      /\ \A i \in 1 .. Len(s) : t[i] = s[i]
      /\ t[Len(s) + 1] = r
  OBVIOUS
<1> HIDE DEF t
<1>2. \A i \in DOMAIN t : i \in DOMAIN s \/ i = Len(s) + 1
  BY <1>1
<1>3. \A i \in DOMAIN s : i \in DOMAIN t /\ t[i] = s[i] /\ t[i] # r
  BY <1>1
<1>4. Len(s) + 1 \in DOMAIN t
  BY <1>1
<1>5. {t[i] : i \in DOMAIN t} = {s[i] : i \in DOMAIN s} \cup {r}
  BY <1>1, <1>2, <1>3, <1>4
<1>6. \A i, j \in DOMAIN t : t[i] = t[j] => i = j
  BY <1>1, <1>2, <1>3
<1> QED BY <1>1, <1>5, <1>6 DEF t

\* The first entry leaves.
LEMMA Evicted ==
  ASSUME NEW t \in Seq(Resolve), t # <<>>, \A i, j \in DOMAIN t : t[i] = t[j] => i = j
  PROVE  /\ Tail(t) \in Seq(Resolve) /\ Head(t) \in Resolve
         /\ {Tail(t)[i] : i \in DOMAIN Tail(t)} = {t[i] : i \in DOMAIN t} \ {Head(t)}
         /\ Head(t) \in {t[i] : i \in DOMAIN t}
         /\ \A i, j \in DOMAIN Tail(t) : Tail(t)[i] = Tail(t)[j] => i = j
<1> DEFINE u == Tail(t)
<1>1. /\ u \in Seq(Resolve) /\ Head(t) = t[1] /\ Len(t) \in Nat \ {0}
      /\ DOMAIN t = 1 .. Len(t) /\ DOMAIN u = 1 .. Len(t) - 1
      /\ \A i \in 1 .. Len(t) - 1 : u[i] = t[i + 1]
  OBVIOUS
<1> HIDE DEF u
<1>2. 1 \in DOMAIN t /\ t[1] \in Resolve
  BY <1>1
<1>3. \A i \in DOMAIN u : i + 1 \in DOMAIN t /\ u[i] = t[i + 1] /\ i + 1 # 1
  BY <1>1
<1>4. \A i \in DOMAIN t : i = 1 \/ (i - 1 \in DOMAIN u /\ u[i - 1] = t[i])
  BY <1>1
<1>5. \A x : (\E i \in DOMAIN u : u[i] = x) <=> (\E i \in DOMAIN t : t[i] = x) /\ x # t[1]
  BY <1>2, <1>3, <1>4
<1>6. {u[i] : i \in DOMAIN u} = {t[i] : i \in DOMAIN t} \ {t[1]}
  BY <1>5
<1>7. ASSUME NEW i \in DOMAIN u, NEW j \in DOMAIN u, u[i] = u[j] PROVE i = j
  <2>1. i + 1 = j + 1
    BY <1>3, <1>7
  <2> QED BY <2>1, <1>1
<1> QED BY <1>1, <1>2, <1>6, <1>7 DEF u

----------------------------------------------------------------------------
(***************************************************************************)
(* The connection.                                                         *)
(***************************************************************************)
ConnectionTypes ==
    /\ generation \in 0 .. MaxDisposed
    /\ promise \in Attempt \cup {None} /\ sdk \in Attempt \cup {None}
    /\ conn \in [Attempt -> {"unused", "connecting", "open", "freed", "failed"}]
    /\ born \in [Attempt -> 0 .. MaxDisposed]

\* A call that connects joins the attempt there is or starts one of this generation.
LEMMA ConnectKeeps ==
  ASSUME N!SessionAssumption, SessionInv, NEW a \in Attempt, N!Connect(a)
  PROVE  ConnectionTypes' /\ OneConnection'
<1>1. ConnectionTypes /\ OneConnection /\ None \notin Attempt
  BY DEF SessionInv, N!TypeOK, ConnectionTypes, N!SessionAssumption
<1>2. CASE UNCHANGED <<generation, promise, sdk, conn, born>>
  BY <1>1, <1>2 DEF ConnectionTypes, OneConnection
<1>3. CASE promise = None
  <2>1. /\ promise' = a /\ conn' = [conn EXCEPT ![a] = "connecting"]
        /\ born' = [born EXCEPT ![a] = generation]
        /\ UNCHANGED <<generation, sdk>>
    BY <1>3 DEF N!Connect
  <2>2. sdk = None /\ generation \in Nat
    BY <1>1, <1>3 DEF OneConnection, ConnectionTypes
  <2>3. ConnectionTypes'
    BY <1>1, <2>1 DEF ConnectionTypes
  <2>4. \A b \in Attempt : b # a => conn'[b] = conn[b] /\ born'[b] = born[b]
    BY <1>1, <2>1 DEF ConnectionTypes
  <2>5. conn'[a] = "connecting" /\ born'[a] = generation
    BY <1>1, <2>1 DEF ConnectionTypes
  <2> QED BY <1>1, <1>3, <2>1, <2>2, <2>3, <2>4, <2>5 DEF OneConnection
<1> QED BY <1>2, <1>3 DEF N!Connect, N!connVars

\* It comes, and is the session's unless dispose dropped it.
LEMMA ConnectedKeeps ==
  ASSUME N!SessionAssumption, SessionInv, NEW a \in Attempt, N!Connected(a)
  PROVE  ConnectionTypes' /\ OneConnection'
<1>1. /\ ConnectionTypes /\ OneConnection /\ None \notin Attempt
      /\ conn[a] = "connecting" /\ UNCHANGED <<generation, promise, born>>
  BY DEF SessionInv, N!TypeOK, ConnectionTypes, N!SessionAssumption, N!Connected
<1>2. \A b \in Attempt : b # a => conn'[b] = conn[b]
  BY <1>1 DEF ConnectionTypes, N!Connected
<1>3. CASE born[a] = generation
  <2>1. conn' = [conn EXCEPT ![a] = "open"] /\ sdk' = a
    BY <1>3 DEF N!Connected
  <2>2. promise = a /\ sdk = None
    BY <1>1, <1>3 DEF OneConnection, ConnectionTypes
  <2>3. ConnectionTypes' /\ conn'[a] = "open"
    BY <1>1, <2>1 DEF ConnectionTypes
  <2> QED BY <1>1, <1>2, <1>3, <2>1, <2>2, <2>3 DEF OneConnection
<1>4. CASE born[a] # generation
  <2>1. conn' = [conn EXCEPT ![a] = "failed"] /\ sdk' = sdk
    BY <1>4 DEF N!Connected
  <2>2. promise # a /\ sdk # a
    BY <1>1, <1>4 DEF OneConnection
  <2>3. ConnectionTypes' /\ conn'[a] = "failed"
    BY <1>1, <2>1 DEF ConnectionTypes
  <2> QED BY <1>1, <1>2, <2>1, <2>2, <2>3 DEF OneConnection, ConnectionTypes
<1> QED BY <1>3, <1>4

\* It fails, and the next call starts another one.
LEMMA ConnectFailsKeeps ==
  ASSUME N!SessionAssumption, SessionInv, NEW a \in Attempt, N!ConnectFails(a)
  PROVE  ConnectionTypes' /\ OneConnection'
<1>1. /\ ConnectionTypes /\ OneConnection /\ None \notin Attempt
      /\ conn[a] = "connecting" /\ UNCHANGED <<generation, sdk, born>>
      /\ conn' = [conn EXCEPT ![a] = "failed"]
      /\ promise' = IF promise = a THEN None ELSE promise
  BY DEF SessionInv, N!TypeOK, ConnectionTypes, N!SessionAssumption, N!ConnectFails
<1>2. \A b \in Attempt : b # a => conn'[b] = conn[b]
  BY <1>1 DEF ConnectionTypes
<1>3. ConnectionTypes' /\ conn'[a] = "failed"
  BY <1>1 DEF ConnectionTypes
<1>4. sdk # a
  BY <1>1 DEF OneConnection
<1> QED BY <1>1, <1>2, <1>3, <1>4 DEF OneConnection, ConnectionTypes

\* dispose frees the connection there is, and what is under way is of an older
\* generation from now on.
LEMMA DisposeConnection ==
  ASSUME N!SessionAssumption, SessionInv, N!Dispose
  PROVE  ConnectionTypes' /\ OneConnection'
<1>1. /\ ConnectionTypes /\ OneConnection /\ None \notin Attempt /\ MaxDisposed \in Nat
      /\ generation < MaxDisposed /\ generation' = generation + 1
      /\ conn' = [a \in Attempt |-> IF a = sdk THEN "freed" ELSE conn[a]]
      /\ sdk' = None /\ promise' = None /\ born' = born
  BY DEF SessionInv, N!TypeOK, ConnectionTypes, N!SessionAssumption, N!Dispose
<1>2. \A a \in Attempt : conn'[a] = IF a = sdk THEN "freed" ELSE conn[a]
  BY <1>1
<1>3. \A a \in Attempt : born'[a] \in Nat /\ born'[a] <= generation /\ born'[a] < generation'
  BY <1>1 DEF ConnectionTypes, OneConnection
<1>4. ConnectionTypes'
  <2>1. generation' \in 0 .. MaxDisposed
    BY <1>1 DEF ConnectionTypes
  <2>2. conn' \in [Attempt -> {"unused", "connecting", "open", "freed", "failed"}]
    BY <1>1 DEF ConnectionTypes
  <2> QED BY <1>1, <2>1, <2>2 DEF ConnectionTypes
<1>5. /\ \A a \in Attempt : born'[a] <= generation'
      /\ \A a \in Attempt : ~(conn'[a] = "connecting" /\ born'[a] = generation')
  BY <1>1, <1>3 DEF ConnectionTypes
<1>6. \A a \in Attempt : conn'[a] # "open"
  BY <1>1, <1>2 DEF OneConnection
<1> QED BY <1>1, <1>4, <1>5, <1>6 DEF OneConnection

----------------------------------------------------------------------------
(***************************************************************************)
(* The resolves.                                                           *)
(***************************************************************************)
ResolveTypes ==
    /\ map \in {"none", "fresh", "closing", "stale"}
    /\ fetch \in Fetch \cup {None} /\ asked \subseteq Fetch
    /\ cached \in Seq(Resolve)
    /\ at \in [Resolve -> {"unused", "connect", "fetch", "share", "call", "done", "failed"}]
    /\ object \in [Resolve -> Object]
    /\ on \in [Resolve -> Attempt \cup Fetch \cup {None}]
    /\ using \in [Resolve -> Attempt \cup {None}]
    /\ forced \in [Resolve -> {"not", "missing", "refused"}]
    /\ handle \in [Resolve -> {"none", "open", "freed"}]
    /\ dropped \in [Resolve -> BOOLEAN]

ResolveInv == ResolveTypes /\ WaitsForAttempt /\ HandleIsMade /\ CacheIsOnce /\ CacheIsLive

LEMMA Parts ==
  /\ SessionInv <=> ConnectionTypes /\ OneConnection /\ ResolveInv
  /\ SessionInv' <=> ConnectionTypes' /\ OneConnection' /\ ResolveInv'
BY DEF SessionInv, N!TypeOK, ConnectionTypes, ResolveInv, ResolveTypes

resolveVars == <<map, fetch, asked, cached, at, object, on, using, forced, handle, dropped>>

LEMMA ResolvesStay == ASSUME ResolveInv, UNCHANGED resolveVars PROVE ResolveInv'
BY DEF resolveVars, ResolveInv, ResolveTypes, WaitsForAttempt, HandleIsMade, CacheIsOnce,
       CacheIsLive, N!Entries

LEMMA ConnectionStays ==
  ASSUME ConnectionTypes, OneConnection, UNCHANGED <<generation, promise, sdk, conn, born>>
  PROVE  ConnectionTypes' /\ OneConnection'
BY DEF ConnectionTypes, OneConnection

\* A cached object is used again: it is one of the cache still, now the last.
LEMMA ReuseKeeps == ASSUME SessionInv, NEW r \in Resolve, N!Reuse(r) PROVE SessionInv'
<1> DEFINE s == N!Without(cached, {r})
<1>1. /\ ConnectionTypes /\ OneConnection /\ ResolveInv
      /\ r \in N!Entries /\ cached' = Append(s, r)
      /\ UNCHANGED <<generation, promise, sdk, conn, born, map, fetch, asked, at, object, on,
                     using, forced, handle, dropped>>
  BY Parts DEF N!Reuse, N!connVars, N!mapVars, N!resolveVars
<1>2. /\ s \in Seq(Resolve) /\ {s[i] : i \in DOMAIN s} = N!Entries \ {r}
      /\ \A i, j \in DOMAIN s : s[i] = s[j] => i = j
  BY Removed
<1> HIDE DEF s
<1>3. /\ cached' \in Seq(Resolve)
      /\ {cached'[i] : i \in DOMAIN cached'} = (N!Entries \ {r}) \cup {r}
      /\ \A i, j \in DOMAIN cached' : cached'[i] = cached'[j] => i = j
  BY <1>1, <1>2, Added
<1>4. N!Entries' = N!Entries
  BY <1>1, <1>3 DEF N!Entries
<1>5. ResolveInv'
  BY <1>1, <1>3, <1>4 DEF ResolveInv, ResolveTypes, WaitsForAttempt, HandleIsMade, CacheIsOnce,
     CacheIsLive
<1> QED BY <1>1, <1>5, ConnectionStays, Parts

\* A new entry, and the oldest one dropped if there are too many.
LEMMA StartKeeps ==
  ASSUME N!SessionAssumption, SessionInv, NEW r \in Resolve, N!Start(r)
  PROVE  SessionInv'
<1> DEFINE all == Append(cached, r)
<1>1. PICK a \in Attempt : N!Connect(a) /\ on' = [on EXCEPT ![r] = a]
  BY DEF N!Start
<1>2. ConnectionTypes' /\ OneConnection'
  BY <1>1, ConnectKeeps
<1>3. /\ ResolveInv /\ at[r] = "unused" /\ at' = [at EXCEPT ![r] = "connect"]
      /\ UNCHANGED <<map, fetch, asked, object, using, forced>>
  BY Parts DEF N!Start, N!mapVars
<1>4. r \notin N!Entries /\ handle[r] = "none"
  BY <1>3 DEF ResolveInv, ResolveTypes, CacheIsLive, InProgress, HandleIsMade
<1>5. /\ all \in Seq(Resolve) /\ Len(all) = Len(cached) + 1 /\ Len(cached) \in Nat
      /\ {all[i] : i \in DOMAIN all} = N!Entries \cup {r}
      /\ \A i, j \in DOMAIN all : all[i] = all[j] => i = j
  <2>1. /\ cached \in Seq(Resolve) /\ \A i, j \in DOMAIN cached : cached[i] = cached[j] => i = j
        /\ r \notin {cached[i] : i \in DOMAIN cached}
    BY <1>3, <1>4 DEF N!Entries, ResolveInv, ResolveTypes, CacheIsOnce
  <2>2. Len(cached) \in Nat
    BY <2>1
  <2> QED BY <2>1, <2>2, Added DEF N!Entries
<1>6. PICK gone \in SUBSET Resolve :
        /\ cached' \in Seq(Resolve)
        /\ {cached'[i] : i \in DOMAIN cached'} = (N!Entries \cup {r}) \ gone
        /\ gone \subseteq N!Entries \cup {r}
        /\ \A i, j \in DOMAIN cached' : cached'[i] = cached'[j] => i = j
        /\ dropped' = [q \in Resolve |-> dropped[q] \/ q \in gone]
        /\ handle' = [q \in Resolve |-> IF q \in gone /\ handle[q] = "open" THEN "freed"
                                        ELSE handle[q]]
  <2>1. CASE Len(all) > MaxCached
    <3>1. cached' = Tail(all) /\ N!FreeWhenResolved({Head(all)})
      BY <2>1 DEF N!Start
    <3>2. all # <<>>
      BY <1>5
    <3> HIDE DEF all
    <3>3. /\ cached' \in Seq(Resolve) /\ {Head(all)} \in SUBSET Resolve
          /\ {cached'[i] : i \in DOMAIN cached'} = (N!Entries \cup {r}) \ {Head(all)}
          /\ {Head(all)} \subseteq N!Entries \cup {r}
          /\ \A i, j \in DOMAIN cached' : cached'[i] = cached'[j] => i = j
      <4>1. /\ Tail(all) \in Seq(Resolve) /\ Head(all) \in Resolve
            /\ {Tail(all)[i] : i \in DOMAIN Tail(all)} = {all[i] : i \in DOMAIN all} \ {Head(all)}
            /\ Head(all) \in {all[i] : i \in DOMAIN all}
            /\ \A i, j \in DOMAIN Tail(all) : Tail(all)[i] = Tail(all)[j] => i = j
        BY <1>5, <3>2, Evicted
      <4>2. {all[i] : i \in DOMAIN all} = N!Entries \cup {r}
        BY <1>5
      <4>3. cached' = Tail(all)
        BY <3>1
      <4> QED BY <4>1, <4>2, <4>3
    <3>4. /\ dropped' = [q \in Resolve |-> dropped[q] \/ q \in {Head(all)}]
          /\ handle' = [q \in Resolve |-> IF q \in {Head(all)} /\ handle[q] = "open"
                                          THEN "freed" ELSE handle[q]]
      BY <3>1 DEF N!FreeWhenResolved
    <3> USE <3>3
    <3> WITNESS {Head(all)} \in SUBSET Resolve
    <3> QED BY <3>3, <3>4
  <2>2. CASE ~(Len(all) > MaxCached)
    <3>1. cached' = all /\ UNCHANGED <<handle, dropped>>
      BY <2>2 DEF N!Start
    <3> HIDE DEF all
    <3>2. /\ dropped' = [q \in Resolve |-> dropped[q] \/ q \in {}]
          /\ handle' = [q \in Resolve |-> IF q \in {} /\ handle[q] = "open" THEN "freed"
                                          ELSE handle[q]]
      BY <1>3, <3>1 DEF ResolveInv, ResolveTypes
    <3>3. /\ cached' \in Seq(Resolve)
          /\ {cached'[i] : i \in DOMAIN cached'} = (N!Entries \cup {r}) \ {}
          /\ \A i, j \in DOMAIN cached' : cached'[i] = cached'[j] => i = j
      BY <1>5, <3>1
    <3> WITNESS {} \in SUBSET Resolve
    <3> QED BY <3>2, <3>3
  <2> QED BY <2>1, <2>2
<1> HIDE DEF all
<1>7. N!Entries' = (N!Entries \cup {r}) \ gone
  BY <1>6 DEF N!Entries
<1>8. \A q \in Resolve : /\ dropped'[q] <=> dropped[q] \/ q \in gone
                         /\ handle'[q] = IF q \in gone /\ handle[q] = "open" THEN "freed"
                                         ELSE handle[q]
                         /\ q # r => at'[q] = at[q] /\ on'[q] = on[q]
                         /\ at'[r] = "connect" /\ on'[r] = a
  BY <1>1, <1>3, <1>6 DEF ResolveInv, ResolveTypes
<1>9. ~dropped[r]
  BY <1>3 DEF ResolveInv, HandleIsMade
<1>10. ResolveTypes'
  <2>1. /\ at' \in [Resolve -> {"unused", "connect", "fetch", "share", "call", "done", "failed"}]
        /\ on' \in [Resolve -> Attempt \cup Fetch \cup {None}]
    BY <1>1, <1>3 DEF ResolveInv, ResolveTypes
  <2>2. handle' \in [Resolve -> {"none", "open", "freed"}] /\ dropped' \in [Resolve -> BOOLEAN]
    BY <1>3, <1>6 DEF ResolveInv, ResolveTypes
  <2> QED BY <1>3, <1>6, <2>1, <2>2 DEF ResolveInv, ResolveTypes
<1>11. WaitsForAttempt'
  BY <1>3, <1>8 DEF ResolveInv, WaitsForAttempt
<1>12. HandleIsMade'
  BY <1>3, <1>4, <1>6, <1>8, <1>9 DEF ResolveInv, HandleIsMade, CacheIsLive, InProgress
<1>13. CacheIsLive'
  <2> SUFFICES ASSUME NEW q \in Resolve
               PROVE  q \in N!Entries' <=> ~dropped'[q] /\ at'[q] \in InProgress
    BY DEF CacheIsLive, InProgress
  <2>1. CASE q = r
    BY <1>7, <1>8, <1>9, <2>1 DEF InProgress
  <2>2. CASE q # r
    BY <1>3, <1>7, <1>8, <2>2 DEF ResolveInv, CacheIsLive
  <2> QED BY <2>1, <2>2
<1>14. CacheIsOnce'
  BY <1>6 DEF CacheIsOnce
<1> QED BY <1>2, <1>10, <1>11, <1>12, <1>13, <1>14, Parts DEF ResolveInv

\* Dispose drops every entry.
LEMMA DisposeKeeps == ASSUME N!SessionAssumption, SessionInv, N!Dispose PROVE SessionInv'
<1>1. ConnectionTypes' /\ OneConnection'
  BY DisposeConnection
<1>2. /\ ResolveInv /\ cached' = <<>> /\ map' = "none" /\ fetch' = None
      /\ UNCHANGED <<asked, at, object, on, using, forced>>
      /\ dropped' = [q \in Resolve |-> dropped[q] \/ q \in N!Entries]
      /\ handle' = [q \in Resolve |-> IF q \in N!Entries /\ handle[q] = "open" THEN "freed"
                                      ELSE handle[q]]
  BY Parts DEF N!Dispose, N!FreeWhenResolved, N!resolveVars
<1>3. \A q \in Resolve : /\ dropped'[q] <=> dropped[q] \/ q \in N!Entries
                         /\ handle'[q] = IF q \in N!Entries /\ handle[q] = "open" THEN "freed"
                                         ELSE handle[q]
  BY <1>2
<1>4. cached' \in Seq(Resolve) /\ N!Entries' = {} /\ DOMAIN cached' = {}
  BY <1>2 DEF N!Entries
<1>5. ResolveTypes'
  <2>1. handle' \in [Resolve -> {"none", "open", "freed"}] /\ dropped' \in [Resolve -> BOOLEAN]
    BY <1>2 DEF ResolveInv, ResolveTypes
  <2> QED BY <1>2, <1>4, <2>1 DEF ResolveInv, ResolveTypes
<1>6. WaitsForAttempt' /\ CacheIsOnce'
  BY <1>2, <1>4 DEF ResolveInv, WaitsForAttempt, CacheIsOnce
<1>7. HandleIsMade'
  BY <1>2, <1>3 DEF ResolveInv, HandleIsMade, CacheIsLive, InProgress
<1>8. CacheIsLive'
  BY <1>2, <1>3, <1>4 DEF ResolveInv, CacheIsLive
<1> QED BY <1>1, <1>5, <1>6, <1>7, <1>8, Parts DEF ResolveInv

----------------------------------------------------------------------------
(***************************************************************************)
(* A resolve that goes on or fails, with those that wait for the same map. *)
(***************************************************************************)

\* Some resolves that are not over go on: the cache keeps them.
LEMMA GoOn ==
  ASSUME ResolveInv, ResolveTypes', NEW going \in SUBSET Resolve,
         \A q \in going : at[q] \in InProgress \ {"done"} /\ at'[q] \in InProgress \ {"connect", "done"},
         \A q \in Resolve \ going : at'[q] = at[q] /\ on'[q] = on[q],
         UNCHANGED <<cached, handle, dropped>>
  PROVE  ResolveInv'
<1>1. N!Entries' = N!Entries
  BY DEF N!Entries
<1>2. WaitsForAttempt'
  BY DEF ResolveInv, WaitsForAttempt
<1>3. HandleIsMade'
  BY DEF ResolveInv, HandleIsMade, InProgress
<1>4. CacheIsOnce'
  BY DEF ResolveInv, CacheIsOnce
<1>5. CacheIsLive'
  BY <1>1 DEF ResolveInv, CacheIsLive
<1> QED BY <1>2, <1>3, <1>4, <1>5 DEF ResolveInv

LEMMA OneGoes ==
  ASSUME ResolveInv, ResolveTypes', NEW r \in Resolve,
         at[r] \in InProgress \ {"done"}, at'[r] \in InProgress \ {"connect", "done"},
         \A q \in Resolve \ {r} : at'[q] = at[q] /\ on'[q] = on[q],
         UNCHANGED <<cached, handle, dropped>>
  PROVE  ResolveInv'
<1> DEFINE going == {r}
<1>1. /\ going \in SUBSET Resolve
      /\ \A q \in going : at[q] \in InProgress \ {"done"} /\ at'[q] \in InProgress \ {"connect", "done"}
      /\ \A q \in Resolve \ going : at'[q] = at[q] /\ on'[q] = on[q]
  OBVIOUS
<1> HIDE DEF going
<1> QED BY <1>1, GoOn

\* Some fail: they leave the cache.
LEMMA Failing ==
  ASSUME SessionInv, ResolveTypes', NEW failing \in SUBSET Resolve,
         \A q \in failing : at[q] \in InProgress \ {"done"} /\ at'[q] = "failed",
         \A q \in Resolve \ failing : at'[q] = at[q] /\ on'[q] = on[q],
         cached' = N!Without(cached, failing),
         UNCHANGED <<handle, dropped>>
  PROVE  ResolveInv'
<1>1. ResolveInv
  BY Parts
<1>2. /\ {cached'[i] : i \in DOMAIN cached'} = N!Entries \ failing
      /\ \A i, j \in DOMAIN cached' : cached'[i] = cached'[j] => i = j
  BY Removed
<1>3. N!Entries' = N!Entries \ failing
  BY <1>2 DEF N!Entries
<1>4. WaitsForAttempt'
  BY <1>1 DEF ResolveInv, WaitsForAttempt
<1>5. HandleIsMade'
  BY <1>1 DEF ResolveInv, HandleIsMade, InProgress
<1>6. CacheIsOnce'
  BY <1>2 DEF CacheIsOnce
<1>7. CacheIsLive'
  BY <1>1, <1>3 DEF ResolveInv, CacheIsLive, InProgress
<1> QED BY <1>4, <1>5, <1>6, <1>7 DEF ResolveInv

\* A resolve that has what it needs reads the map, or waits for a request.
LEMMA LoadMap ==
  ASSUME SessionInv, NEW r \in Resolve, NEW force, N!LoadShareMap(r, force),
         at[r] \in InProgress \ {"done"}, forced' \in [Resolve -> {"not", "missing", "refused"}],
         using' \in [Resolve -> Attempt \cup {None}],
         UNCHANGED <<map, object, handle, dropped>>
  PROVE  ResolveInv'
<1>1. ResolveInv
  BY Parts
<1>2. /\ at' = [at EXCEPT ![r] = "share"] \/ at' = [at EXCEPT ![r] = "fetch"]
      /\ cached' = cached
  BY DEF N!LoadShareMap, N!Goes
<1>3. PICK x \in Fetch \cup {None} : on' = [on EXCEPT ![r] = x]
  BY DEF N!LoadShareMap
<1>4. fetch' \in Fetch \cup {None} /\ asked' \subseteq Fetch
  BY <1>1 DEF N!LoadShareMap, N!Ask, ResolveInv, ResolveTypes
<1>5. ResolveTypes'
  <2>1. /\ at' \in [Resolve -> {"unused", "connect", "fetch", "share", "call", "done", "failed"}]
        /\ on' \in [Resolve -> Attempt \cup Fetch \cup {None}]
    BY <1>1, <1>2, <1>3 DEF ResolveInv, ResolveTypes
  <2> QED BY <1>1, <1>2, <1>4, <2>1 DEF ResolveInv, ResolveTypes
<1>6. at'[r] \in {"share", "fetch"} /\ \A q \in Resolve \ {r} : at'[q] = at[q] /\ on'[q] = on[q]
  BY <1>1, <1>2, <1>3 DEF ResolveInv, ResolveTypes
<1> QED BY <1>1, <1>2, <1>5, <1>6, OneGoes DEF InProgress

\* One resolve fails.
LEMMA OneFails ==
  ASSUME SessionInv, NEW r \in Resolve, N!Fails(r), at[r] \in InProgress \ {"done"},
         on' = on \/ on' = [on EXCEPT ![r] = None],
         UNCHANGED <<map, fetch, asked, object, using, forced, handle, dropped>>
  PROVE  ResolveInv'
<1>1. ResolveInv
  BY Parts
<1>2. at' = [at EXCEPT ![r] = "failed"] /\ cached' = N!Without(cached, {r})
  BY DEF N!Fails
<1>3. cached' \in Seq(Resolve)
  BY <1>2, Removed
<1>4. ResolveTypes'
  <2>1. /\ at' \in [Resolve -> {"unused", "connect", "fetch", "share", "call", "done", "failed"}]
        /\ on' \in [Resolve -> Attempt \cup Fetch \cup {None}]
    BY <1>1, <1>2 DEF ResolveInv, ResolveTypes
  <2> QED BY <1>1, <1>3, <2>1 DEF ResolveInv, ResolveTypes
<1>5. at'[r] = "failed" /\ \A q \in Resolve \ {r} : at'[q] = at[q] /\ on'[q] = on[q]
  BY <1>1, <1>2 DEF ResolveInv, ResolveTypes
<1> QED BY <1>2, <1>4, <1>5, Failing

LEMMA HasSdkKeeps == ASSUME SessionInv, NEW r \in Resolve, N!HasSdk(r) PROVE SessionInv'
<1>1. /\ ConnectionTypes' /\ OneConnection' /\ ResolveInv /\ at[r] = "connect"
      /\ UNCHANGED <<map, object, forced, handle, dropped>>
  BY Parts, ConnectionStays DEF N!HasSdk, N!connVars
<1>2. CASE using' = [using EXCEPT ![r] = on[r]] /\ N!LoadShareMap(r, FALSE)
  <2>1. using' \in [Resolve -> Attempt \cup {None}]
    BY <1>1, <1>2 DEF ResolveInv, ResolveTypes, WaitsForAttempt
  <2>2. forced' \in [Resolve -> {"not", "missing", "refused"}]
    BY <1>1 DEF ResolveInv, ResolveTypes
  <2> QED BY <1>1, <1>2, <2>1, <2>2, LoadMap, Parts DEF InProgress
<1>3. CASE /\ N!Fails(r) /\ on' = [on EXCEPT ![r] = None]
           /\ UNCHANGED <<using, fetch, asked>>
  BY <1>1, <1>3, OneFails, Parts DEF InProgress
<1> QED BY <1>2, <1>3 DEF N!HasSdk

\* The request for the map is answered.
LEMMA FetchedKeeps ==
  ASSUME N!SessionAssumption, SessionInv, NEW f \in Fetch, N!Fetched(f) PROVE SessionInv'
<1> DEFINE pending == {r \in Resolve : at[r] = "fetch" /\ on[r] = f}
<1>1. /\ ConnectionTypes' /\ OneConnection' /\ ResolveInv
      /\ UNCHANGED <<object, using, forced, handle, dropped>>
      /\ on' = [r \in Resolve |-> IF r \in pending THEN None ELSE on[r]]
      /\ fetch' \in Fetch \cup {None} /\ asked' \subseteq Fetch
  BY Parts, ConnectionStays DEF N!Fetched, N!connVars, ResolveInv, ResolveTypes
<1>2. on' \in [Resolve -> Attempt \cup Fetch \cup {None}]
  BY <1>1 DEF ResolveInv, ResolveTypes
<1>3. CASE /\ map' \in {"fresh", "closing", "stale"}
           /\ at' = [r \in Resolve |-> IF r \in pending THEN "share" ELSE at[r]]
           /\ UNCHANGED cached
  <2>1. ResolveTypes'
    <3>1. at' \in [Resolve -> {"unused", "connect", "fetch", "share", "call", "done", "failed"}]
      BY <1>1, <1>3 DEF ResolveInv, ResolveTypes
    <3> QED BY <1>1, <1>2, <1>3, <3>1 DEF ResolveInv, ResolveTypes
  <2>2. /\ \A q \in pending : at[q] = "fetch" /\ at'[q] = "share"
        /\ \A q \in Resolve \ pending : at'[q] = at[q] /\ on'[q] = on[q]
        /\ pending \in SUBSET Resolve
    BY <1>1, <1>3
  <2> HIDE DEF pending
  <2> QED BY <1>1, <1>3, <2>1, <2>2, GoOn, Parts DEF InProgress
<1>4. CASE /\ at' = [r \in Resolve |-> IF r \in pending THEN "failed" ELSE at[r]]
           /\ cached' = N!Without(cached, pending)
           /\ UNCHANGED map
  <2>1. ResolveTypes'
    <3>1. at' \in [Resolve -> {"unused", "connect", "fetch", "share", "call", "done", "failed"}]
      BY <1>1, <1>4 DEF ResolveInv, ResolveTypes
    <3>2. cached' \in Seq(Resolve)
      BY <1>4, Removed
    <3> QED BY <1>1, <1>2, <1>4, <3>1, <3>2 DEF ResolveInv, ResolveTypes
  <2>2. /\ \A q \in pending : at[q] = "fetch" /\ at'[q] = "failed"
        /\ \A q \in Resolve \ pending : at'[q] = at[q] /\ on'[q] = on[q]
        /\ pending \in SUBSET Resolve
    BY <1>1, <1>4
  <2> HIDE DEF pending
  <2> QED BY <1>1, <1>4, <2>1, <2>2, Failing, Parts DEF InProgress
<1> QED BY <1>3, <1>4 DEF N!Fetched

\* Another map is asked for, or the resolve fails.
LEMMA AskAgainKeeps ==
  ASSUME SessionInv, NEW r \in Resolve, NEW why \in {"missing", "refused"}, N!AskAgain(r, why),
         at[r] \in InProgress \ {"done"}, UNCHANGED <<map, object, using, handle, dropped>>
  PROVE  ResolveInv'
<1>1. ResolveInv
  BY Parts
<1>2. CASE forced' = [forced EXCEPT ![r] = why] /\ N!LoadShareMap(r, TRUE)
  <2>1. /\ forced' \in [Resolve -> {"not", "missing", "refused"}]
        /\ using' \in [Resolve -> Attempt \cup {None}]
    BY <1>1, <1>2 DEF ResolveInv, ResolveTypes
  <2> QED BY <1>2, <2>1, LoadMap
<1>3. CASE N!Fails(r) /\ UNCHANGED <<forced, fetch, asked, on>>
  BY <1>3, OneFails
<1> QED BY <1>2, <1>3 DEF N!AskAgain

LEMMA RefusedKeeps ==
  ASSUME SessionInv, NEW r \in Resolve, N!Refused(r),
         at[r] \in InProgress \ {"done"}, UNCHANGED <<map, object, using, handle, dropped>>
  PROVE  ResolveInv'
BY AskAgainKeeps, OneFails DEF N!Refused

LEMMA ShareKeeps == ASSUME SessionInv, NEW r \in Resolve, N!Share(r) PROVE SessionInv'
<1>1. /\ ConnectionTypes' /\ OneConnection' /\ ResolveInv /\ at[r] = "share"
      /\ UNCHANGED <<map, object, using, handle, dropped>>
  BY Parts, ConnectionStays DEF N!Share, N!connVars
<1>2. CASE N!Goes(r, "call") /\ UNCHANGED <<forced, fetch, asked, on>>
  <2>1. at' = [at EXCEPT ![r] = "call"] /\ cached' = cached
    BY <1>2 DEF N!Goes
  <2>2. ResolveTypes'
    BY <1>1, <1>2, <2>1 DEF ResolveInv, ResolveTypes
  <2>3. at'[r] = "call" /\ \A q \in Resolve \ {r} : at'[q] = at[q] /\ on'[q] = on[q]
    BY <1>1, <1>2, <2>1 DEF ResolveInv, ResolveTypes
  <2> QED BY <1>1, <2>1, <2>2, <2>3, OneGoes, Parts DEF InProgress
<1>3. CASE N!AskAgain(r, "missing") \/ N!Refused(r)
  BY <1>1, <1>3, AskAgainKeeps, RefusedKeeps, Parts DEF InProgress
<1> QED BY <1>2, <1>3 DEF N!Share

\* The object comes: into the cache's hands, or to be freed at once if it was dropped.
LEMMA CallEndsKeeps == ASSUME SessionInv, NEW r \in Resolve, N!CallEnds(r) PROVE SessionInv'
<1>1. /\ ConnectionTypes' /\ OneConnection' /\ ResolveInv /\ at[r] = "call"
      /\ UNCHANGED <<map, object, using, dropped>>
  BY Parts, ConnectionStays DEF N!CallEnds, N!connVars
<1>2. CASE N!Resolved(r) /\ UNCHANGED <<forced, fetch, asked, on>>
  <2>1. /\ at' = [at EXCEPT ![r] = "done"] /\ cached' = cached
        /\ handle' = [handle EXCEPT ![r] = IF dropped[r] THEN "freed" ELSE "open"]
    BY <1>2 DEF N!Resolved, N!Goes
  <2>2. ResolveTypes'
    <3>1. at' \in [Resolve -> {"unused", "connect", "fetch", "share", "call", "done", "failed"}]
      BY <1>1, <2>1 DEF ResolveInv, ResolveTypes
    <3>2. handle' \in [Resolve -> {"none", "open", "freed"}]
      BY <1>1, <2>1 DEF ResolveInv, ResolveTypes
    <3> QED BY <1>1, <1>2, <2>1, <3>1, <3>2 DEF ResolveInv, ResolveTypes
  <2>3. /\ at'[r] = "done" /\ handle'[r] = IF dropped[r] THEN "freed" ELSE "open"
        /\ \A q \in Resolve \ {r} : at'[q] = at[q] /\ handle'[q] = handle[q]
    BY <1>1, <2>1 DEF ResolveInv, ResolveTypes
  <2>4. N!Entries' = N!Entries
    BY <2>1 DEF N!Entries
  <2>5. WaitsForAttempt' /\ CacheIsOnce'
    BY <1>1, <1>2, <2>1, <2>3 DEF ResolveInv, WaitsForAttempt, CacheIsOnce
  <2>6. HandleIsMade'
    BY <1>1, <2>3 DEF ResolveInv, HandleIsMade
  <2>7. CacheIsLive'
    BY <1>1, <2>3, <2>4 DEF ResolveInv, CacheIsLive, InProgress
  <2> QED BY <1>1, <2>2, <2>5, <2>6, <2>7, Parts DEF ResolveInv
<1>3. CASE N!Refused(r) /\ UNCHANGED handle
  BY <1>1, <1>3, RefusedKeeps, Parts DEF InProgress
<1> QED BY <1>2, <1>3 DEF N!CallEnds

\* The map is asked for by a call that resolves nothing, or its time passes.
LEMMA MapMoves ==
  ASSUME SessionInv, (\E f \in Fetch : N!LoadMapOnly(f)) \/ N!MapAges PROVE SessionInv'
<1>1. /\ ConnectionTypes' /\ OneConnection' /\ ResolveInv
      /\ UNCHANGED <<cached, at, object, on, using, forced, handle, dropped>>
  BY Parts, ConnectionStays DEF N!LoadMapOnly, N!MapAges, N!connVars, N!resolveVars
<1>2. /\ map' \in {"none", "fresh", "closing", "stale"}
      /\ fetch' \in Fetch \cup {None} /\ asked' \subseteq Fetch
  BY <1>1 DEF N!LoadMapOnly, N!MapAges, N!Ask, ResolveInv, ResolveTypes
<1>3. ResolveTypes'
  BY <1>1, <1>2 DEF ResolveInv, ResolveTypes
<1>4. ResolveInv'
  BY <1>1, <1>3 DEF ResolveInv, WaitsForAttempt, HandleIsMade, CacheIsOnce, CacheIsLive, N!Entries
<1> QED BY <1>1, <1>4, Parts

LEMMA SessionStep ==
  ASSUME N!SessionAssumption, SessionInv, [N!Next]_(N!vars) PROVE SessionInv'
<1>1. ASSUME NEW a \in Attempt, N!ConnectOnly(a) \/ N!Connected(a) \/ N!ConnectFails(a)
      PROVE  SessionInv'
  <2>1. ConnectionTypes' /\ OneConnection'
    BY <1>1, ConnectKeeps, ConnectedKeeps, ConnectFailsKeeps DEF N!ConnectOnly
  <2>2. UNCHANGED resolveVars
    BY <1>1 DEF N!ConnectOnly, N!Connected, N!ConnectFails, resolveVars, N!mapVars, N!resolveVars
  <2> QED BY <2>1, <2>2, ResolvesStay, Parts
<1>2. ASSUME NEW r \in Resolve,
             N!Reuse(r) \/ N!Start(r) \/ N!HasSdk(r) \/ N!Share(r) \/ N!CallEnds(r)
      PROVE  SessionInv'
  BY <1>2, ReuseKeeps, StartKeeps, HasSdkKeeps, ShareKeeps, CallEndsKeeps
<1>3. ASSUME NEW f \in Fetch, N!LoadMapOnly(f) \/ N!Fetched(f) PROVE SessionInv'
  BY <1>3, MapMoves, FetchedKeeps
<1>4. CASE N!MapAges
  BY <1>4, MapMoves
<1>5. CASE UNCHANGED N!vars
  BY <1>5, ResolvesStay, ConnectionStays, Parts
     DEF N!vars, N!connVars, N!mapVars, N!resolveVars, resolveVars
<1> QED BY <1>1, <1>2, <1>3, <1>4, <1>5, DisposeKeeps DEF N!Next

\* The connection there is, is the session's, an open object is in the cache, and what is
\* in the cache was neither freed nor failed.
LEMMA SessionIsClean == ASSUME N!SessionAssumption, SessionInv PROVE N!NothingLeaks
<1>1. N!SdkIsOwned
  BY DEF SessionInv, OneConnection, N!SdkIsOwned, N!SessionAssumption
<1>2. N!ObjectsAreOwned
  BY DEF SessionInv, HandleIsMade, CacheIsLive, InProgress, N!TypeOK, N!ObjectsAreOwned
<1> QED BY <1>1, <1>2 DEF N!NothingLeaks

\* Nothing in WebAssembly memory is leaked, or used after it was freed by a later call,
\* for any number of attempts, resolves, fetches and calls of dispose, and any size of the
\* cache.
THEOREM ViewerLeaksNothing ==
    ASSUME N!SessionAssumption PROVE N!Spec => []N!NothingLeaks
<1>1. N!Init => SessionInv
  BY SessionInit
<1>2. SessionInv /\ [N!Next]_(N!vars) => SessionInv'
  BY SessionStep
<1>3. SessionInv => N!NothingLeaks
  BY SessionIsClean
<1> QED BY <1>1, <1>2, <1>3, PTL DEF N!Spec

----------------------------------------------------------------------------
(***************************************************************************)
(* HybridLoader: its property is inductive with the types, as every step   *)
(* that could end a load twice or free the slot of another asks first      *)
(* whether the load is still the one that reads.                           *)
(***************************************************************************)
Over == {"loaded", "failed", "aborted"}
LoadPhases == {"new", "sia", "gateway", "destroyed"} \cup Over

\* The load of one loader moves, and its answers with it; the slot is taken by this move,
\* or given back if it was this load's.
SlotTypes ==
    /\ siaBusy \in BOOLEAN
    /\ load \in [Loader -> LoadPhases]
    /\ read \in [Loader -> {"none", "resolving", "streaming"}]
    /\ answers \in [Loader -> Nat]

OtherTypes ==
    /\ session \in {"unprepared", "preparing", "ready"}
    /\ warm \in [Segment -> {"cold", "waiting", "reading", "warm"}]
    /\ paused \in BOOLEAN
    /\ failures \in 0 .. MaxFailures - 1
    /\ segment \in [Loader -> Segment]

LoaderInv == SlotTypes /\ OtherTypes /\ H!SegmentsComeOnce

LEMMA LoaderInit == ASSUME H!LoaderAssumption, H!Init PROVE LoaderInv
<1>1. 0 \in 0 .. MaxFailures - 1
  BY DEF H!LoaderAssumption
<1>2. SlotTypes /\ OtherTypes
  BY <1>1 DEF H!Init, SlotTypes, OtherTypes, LoadPhases
<1>3. H!SegmentsComeOnce
  BY DEF H!Init, H!SegmentsComeOnce, H!SlotIsOneRead, H!LoadsAnswerOnce
<1> QED BY <1>2, <1>3 DEF LoaderInv

\* A failure is counted, and the last one pauses Sia.
LEMMA NoteFailureTypes ==
  ASSUME H!LoaderAssumption, OtherTypes, H!NoteFailure
  PROVE  failures' \in 0 .. MaxFailures - 1 /\ paused' \in BOOLEAN
<1>1. MaxFailures \in Nat \ {0} /\ failures \in 0 .. MaxFailures - 1 /\ paused \in BOOLEAN
  BY DEF H!LoaderAssumption, OtherTypes
<1>2. CASE failures' = failures + 1 /\ failures + 1 < MaxFailures /\ paused' = paused
  BY <1>1, <1>2
<1>3. CASE failures' = 0 /\ paused' = TRUE
  BY <1>1, <1>3
<1> QED BY <1>2, <1>3 DEF H!NoteFailure

\* Nothing of the loads moves.
LEMMA LoadsStay ==
  ASSUME LoaderInv, OtherTypes', UNCHANGED <<siaBusy, load, read, answers>> PROVE LoaderInv'
BY DEF LoaderInv, SlotTypes, H!SegmentsComeOnce, H!SlotIsOneRead, H!LoadsAnswerOnce

\* One load ends, with an answer unless it was destroyed, and gives back the slot it has.
LEMMA LoadEnds ==
  ASSUME LoaderInv, OtherTypes', NEW l \in Loader, NEW how \in Over \cup {"gateway", "destroyed"},
         load' = [load EXCEPT ![l] = how],
         siaBusy' = IF load[l] = "sia" THEN FALSE ELSE siaBusy,
         read' \in [Loader -> {"none", "resolving", "streaming"}],
         how \in Over => load[l] \in {"sia", "gateway"} /\ answers' = [answers EXCEPT ![l] = @ + 1],
         how \notin Over => answers' = answers,
         how = "gateway" => load[l] \in {"new", "sia"}
  PROVE  LoaderInv'
<1>1. /\ SlotTypes /\ H!SlotIsOneRead /\ H!LoadsAnswerOnce
  BY DEF LoaderInv, H!SegmentsComeOnce
<1>2. load'[l] = how /\ \A m \in Loader \ {l} : load'[m] = load[m] /\ answers'[m] = answers[m]
  BY <1>1 DEF SlotTypes
<1>3. how \in Over => answers[l] = 0 /\ answers'[l] = 1
  BY <1>1 DEF SlotTypes, H!LoadsAnswerOnce
<1>4. SlotTypes'
  <2>1. load' \in [Loader -> LoadPhases] /\ siaBusy' \in BOOLEAN
    BY <1>1 DEF SlotTypes, LoadPhases
  <2>2. answers' \in [Loader -> Nat]
    BY <1>1 DEF SlotTypes
  <2> QED BY <2>1, <2>2 DEF SlotTypes
<1>5. H!SlotIsOneRead'
  <2>1. CASE load[l] = "sia"
    <3>1. \A m \in Loader : load'[m] # "sia"
      BY <1>1, <1>2, <2>1 DEF H!SlotIsOneRead, Over
    <3> QED BY <2>1, <3>1 DEF H!SlotIsOneRead
  <2>2. CASE load[l] # "sia"
    <3>1. \A m \in Loader : load'[m] = "sia" <=> load[m] = "sia"
      BY <1>2, <2>2 DEF Over
    <3> QED BY <1>1, <2>2, <3>1 DEF H!SlotIsOneRead
  <2> QED BY <2>1, <2>2
<1>6. H!LoadsAnswerOnce'
  <2> SUFFICES ASSUME NEW m \in Loader
               PROVE  /\ answers'[m] <= 1
                      /\ load'[m] \in {"new", "sia", "gateway"} => answers'[m] = 0
                      /\ load'[m] \in {"loaded", "failed", "aborted"} => answers'[m] = 1
    BY DEF H!LoadsAnswerOnce
  <2>1. CASE m # l
    BY <1>1, <1>2, <2>1 DEF H!LoadsAnswerOnce
  <2>2. CASE m = l /\ how \in Over
    BY <1>2, <1>3, <2>2 DEF Over
  <2>3. CASE m = l /\ how \notin Over
    BY <1>1, <1>2, <2>3 DEF H!LoadsAnswerOnce, Over
  <2> QED BY <2>1, <2>2, <2>3
<1> QED BY <1>4, <1>5, <1>6 DEF LoaderInv, H!SegmentsComeOnce

\* A load begins to read from Sia: the slot was free.
LEMMA LoadReads ==
  ASSUME LoaderInv, OtherTypes', NEW l \in Loader, load[l] = "new", ~siaBusy,
         load' = [load EXCEPT ![l] = "sia"], siaBusy' = TRUE,
         read' = [read EXCEPT ![l] = "resolving"], answers' = answers
  PROVE  LoaderInv'
<1>1. /\ SlotTypes /\ H!SlotIsOneRead /\ H!LoadsAnswerOnce
  BY DEF LoaderInv, H!SegmentsComeOnce
<1>2. load'[l] = "sia" /\ \A m \in Loader \ {l} : load'[m] = load[m] /\ load[m] # "sia"
  BY <1>1 DEF SlotTypes, H!SlotIsOneRead
<1>3. SlotTypes'
  BY <1>1 DEF SlotTypes, LoadPhases
<1>4. H!SlotIsOneRead'
  BY <1>2 DEF H!SlotIsOneRead
<1>5. H!LoadsAnswerOnce'
  BY <1>1, <1>2 DEF H!LoadsAnswerOnce
<1> QED BY <1>3, <1>4, <1>5 DEF LoaderInv, H!SegmentsComeOnce

LEMMA LoadKeeps == ASSUME LoaderInv, NEW l \in Loader, H!Load(l) PROVE LoaderInv'
<1>1. SlotTypes /\ OtherTypes
  BY DEF LoaderInv
<1>2. OtherTypes'
  BY <1>1 DEF H!Load, H!StartWarmUp, OtherTypes
<1>3. CASE ~siaBusy /\ H!Ends(l, "sia") /\ siaBusy' = TRUE /\ read' = [read EXCEPT ![l] = "resolving"]
  BY <1>2, <1>3, LoadReads DEF H!Load, H!Ends
<1>4. CASE H!Ends(l, "gateway") /\ UNCHANGED <<siaBusy, read>>
  <2>1. /\ load[l] = "new" /\ load' = [load EXCEPT ![l] = "gateway"] /\ answers' = answers
        /\ siaBusy' = IF load[l] = "sia" THEN FALSE ELSE siaBusy
        /\ read' \in [Loader -> {"none", "resolving", "streaming"}]
    BY <1>1, <1>4 DEF H!Load, H!Ends, SlotTypes
  <2> QED BY <1>2, <2>1, LoadEnds DEF Over
<1> QED BY <1>3, <1>4 DEF H!Load, H!SiaReady

\* A read that failed or was cut off: the gateway goes on, if the load is still its own.
LEMMA FallBackKeeps ==
  ASSUME H!LoaderAssumption, LoaderInv, NEW l \in Loader, H!FallBack(l),
         read' \in [Loader -> {"none", "resolving", "streaming"}],
         UNCHANGED <<session, warm, segment, answers>>
  PROVE  LoaderInv'
<1>1. SlotTypes /\ OtherTypes
  BY DEF LoaderInv
<1>2. CASE load[l] = "sia"
  <2>1. siaBusy' = FALSE /\ H!NoteFailure /\ load' = [load EXCEPT ![l] = "gateway"]
    BY <1>2 DEF H!FallBack, H!Ends
  <2>2. OtherTypes'
    BY <1>1, <2>1, NoteFailureTypes DEF OtherTypes
  <2> QED BY <1>2, <2>1, <2>2, LoadEnds DEF Over
<1>3. CASE load[l] # "sia"
  <2>1. UNCHANGED <<siaBusy, failures, paused, load>>
    BY <1>3 DEF H!FallBack
  <2> QED BY <1>1, <2>1 DEF LoaderInv, SlotTypes, OtherTypes, H!SegmentsComeOnce,
             H!SlotIsOneRead, H!LoadsAnswerOnce
<1> QED BY <1>2, <1>3

LEMMA StreamEndsKeeps ==
  ASSUME H!LoaderAssumption, LoaderInv, NEW l \in Loader, H!StreamEnds(l) PROVE LoaderInv'
<1>1. /\ SlotTypes /\ OtherTypes /\ read' \in [Loader -> {"none", "resolving", "streaming"}]
      /\ UNCHANGED <<session, warm, paused, segment>>
  BY DEF LoaderInv, SlotTypes, H!StreamEnds
<1>2. CASE load[l] = "sia"
  <2>1. /\ siaBusy' = FALSE /\ failures' = 0 /\ load' = [load EXCEPT ![l] = "loaded"]
        /\ answers' = [answers EXCEPT ![l] = @ + 1]
    BY <1>2 DEF H!StreamEnds, H!Ends, H!Answer
  <2>2. OtherTypes'
    BY <1>1, <2>1 DEF OtherTypes, H!LoaderAssumption
  <2> QED BY <1>1, <1>2, <2>1, <2>2, LoadEnds DEF Over
<1>3. CASE load[l] # "sia"
  <2>1. UNCHANGED <<siaBusy, failures, load, answers>>
    BY <1>3 DEF H!StreamEnds
  <2> QED BY <1>1, <2>1 DEF LoaderInv, SlotTypes, OtherTypes, H!SegmentsComeOnce,
             H!SlotIsOneRead, H!LoadsAnswerOnce
<1> QED BY <1>2, <1>3

\* hls.js gives a load up.
LEMMA GivenUpKeeps ==
  ASSUME LoaderInv, NEW l \in Loader, H!Abort(l) \/ H!Destroy(l) \/ H!GatewayAnswers(l)
  PROVE  LoaderInv'
<1>1. SlotTypes /\ OtherTypes
  BY DEF LoaderInv
<1>2. OtherTypes' /\ read' \in [Loader -> {"none", "resolving", "streaming"}]
  BY <1>1 DEF H!Abort, H!Destroy, H!GatewayAnswers, OtherTypes, SlotTypes
<1>3. CASE H!Abort(l)
  <2>1. /\ load[l] \in {"sia", "gateway"} /\ load' = [load EXCEPT ![l] = "aborted"]
        /\ answers' = [answers EXCEPT ![l] = @ + 1]
        /\ siaBusy' = IF load[l] = "sia" THEN FALSE ELSE siaBusy
    BY <1>3 DEF H!Abort, H!Loading, H!Ends, H!Answer, H!Cancel
  <2> QED BY <1>2, <2>1, LoadEnds DEF Over
<1>4. CASE H!Destroy(l)
  <2>1. /\ load' = [load EXCEPT ![l] = "destroyed"] /\ answers' = answers
        /\ siaBusy' = IF load[l] = "sia" THEN FALSE ELSE siaBusy
    BY <1>4 DEF H!Destroy, H!Ends, H!Cancel
  <2> QED BY <1>2, <2>1, LoadEnds DEF Over
<1>5. CASE H!GatewayAnswers(l)
  <2>1. PICK how \in {"loaded", "failed"} : load' = [load EXCEPT ![l] = how]
    BY <1>5 DEF H!GatewayAnswers, H!Ends
  <2>2. /\ load[l] = "gateway" /\ answers' = [answers EXCEPT ![l] = @ + 1]
        /\ siaBusy' = IF load[l] = "sia" THEN FALSE ELSE siaBusy
    BY <1>5 DEF H!GatewayAnswers, H!Answer
  <2> QED BY <1>2, <2>1, <2>2, LoadEnds DEF Over
<1> QED BY <1>3, <1>4, <1>5

LEMMA LoaderStep ==
  ASSUME H!LoaderAssumption, LoaderInv, [H!Next]_(H!vars) PROVE LoaderInv'
<1>1. SlotTypes /\ OtherTypes
  BY DEF LoaderInv
<1>2. CASE H!Prepared \/ H!PrepareFails \/ H!PauseEnds
  <2>1. OtherTypes' /\ UNCHANGED <<siaBusy, load, read, answers>>
    BY <1>1, <1>2 DEF H!Prepared, H!PrepareFails, H!PauseEnds, H!Waiting, OtherTypes
  <2> QED BY <2>1, LoadsStay
<1>3. ASSUME NEW o \in Segment, H!WarmUpEnds(o) PROVE LoaderInv'
  <2>1. UNCHANGED <<session, siaBusy, load, segment, read, answers>>
    BY <1>3 DEF H!WarmUpEnds
  <2>2. warm' \in [Segment -> {"cold", "waiting", "reading", "warm"}]
    BY <1>1, <1>3 DEF H!WarmUpEnds, OtherTypes
  <2>3. failures' \in 0 .. MaxFailures - 1 /\ paused' \in BOOLEAN
    BY <1>1, <1>3, NoteFailureTypes DEF H!WarmUpEnds, OtherTypes
  <2> QED BY <1>1, <2>1, <2>2, <2>3, LoadsStay DEF OtherTypes
<1>4. ASSUME NEW l \in Loader, H!CutOff(l) \/ H!ReadFails(l) PROVE LoaderInv'
  <2>1. /\ H!FallBack(l) /\ read' \in [Loader -> {"none", "resolving", "streaming"}]
        /\ UNCHANGED <<session, warm, segment, answers>>
    BY <1>1, <1>4 DEF H!CutOff, H!ReadFails, SlotTypes
  <2> QED BY <2>1, FallBackKeeps
<1>5. ASSUME NEW l \in Loader, H!Resolves(l) PROVE LoaderInv'
  <2>1. /\ read' \in [Loader -> {"none", "resolving", "streaming"}]
        /\ UNCHANGED <<session, warm, siaBusy, failures, paused, load, segment, answers>>
    BY <1>1, <1>5 DEF H!Resolves, SlotTypes
  <2> QED BY <1>1, <2>1 DEF LoaderInv, SlotTypes, OtherTypes, H!SegmentsComeOnce,
             H!SlotIsOneRead, H!LoadsAnswerOnce
<1>6. CASE UNCHANGED H!vars
  BY <1>1, <1>6, LoadsStay DEF H!vars, OtherTypes
<1> QED BY <1>2, <1>3, <1>4, <1>5, <1>6, LoadKeeps, StreamEndsKeeps, GivenUpKeeps DEF H!Next

LEMMA LoaderTypes == LoaderInv => H!TypeOK
BY DEF LoaderInv, SlotTypes, OtherTypes, LoadPhases, Over, H!TypeOK

\* A segment has one source at a time and one answer, for any number of loaders and
\* segments, however reads are cut off, aborted or late.
THEOREM SegmentsDoComeOnce ==
    ASSUME H!LoaderAssumption PROVE H!Spec => []H!SegmentsComeOnce
<1>1. H!Init => LoaderInv
  BY LoaderInit
<1>2. LoaderInv /\ [H!Next]_(H!vars) => LoaderInv'
  BY LoaderStep
<1>3. LoaderInv => H!SegmentsComeOnce
  BY DEF LoaderInv
<1> QED BY <1>1, <1>2, <1>3, PTL DEF H!Spec

----------------------------------------------------------------------------
(***************************************************************************)
(* StudioUploads: each handler changes a card and its task together so     *)
(* that what may still answer fits what the card shows (CardFits), and     *)
(* ends with emit, after which the queue does not wait for nothing. Both   *)
(* are stated of a store, a state that a handler has not put back yet.     *)
(***************************************************************************)
Stores == [card : [Upload -> U!Cards], task : [Upload -> U!Tasks],
           waiting : Seq(Upload), held : BOOLEAN]

\* A transfer that no cancel goes on behind.
Active(c) == c.phase \in {"uploading", "paused"} \/ (c.phase = "finishing" /\ ~c.notice)

\* What may still answer for a card, and what it shows meanwhile.
CardFits(c, t) ==
    /\ t.attempt # "none" =>
          /\ t.claim # "asking"
          /\ c.phase \in U!Transferring \/ (c.phase = "cancelled" /\ t.asked = "abort")
    /\ t.claim = "asking" => c.phase \in {"uploading", "cancelled", "dismissed"}
    /\ t.asked \in {"abort", "cancel"} => c.phase = "cancelled" /\ c.cleanup = "pending"
    /\ t.asked = "cancel" => c.ids # "none"
    /\ t.asked = "retry" => c.phase = "processing" /\ c.poll = "off"
    /\ c.cleanup # "none" => c.phase = "cancelled" /\ t.claim # "asking"
    /\ c.poll # "off" => c.phase = "processing"
    /\ c.phase = "processing" =>
          c.poll # "off" \/ t.asked = "retry" \/ c.auth \/ (c.ids = "upload" /\ c.notice)
    /\ c.lost => c.phase = "failedUpload" /\ (c.canResume \/ c.auth)

OneActive(s) == \A u, v \in Upload : Active(s.card[u]) /\ Active(s.card[v]) => u = v

GoodStore(s) ==
    /\ s \in Stores
    /\ OneActive(s)
    /\ \A u \in Upload : CardFits(s.card[u], s.task[u])

\* Nothing waits that may start; only a file over the limit is refused and starts nothing.
Served(s) == overLimit = {} => ~U!CanAdvance(s)

LEMMA StoreTakes ==
  ASSUME NEW s \in Stores, NEW x \in [Upload -> U!Cards], NEW y \in [Upload -> U!Tasks]
  PROVE  [s EXCEPT !.card = x, !.task = y] \in Stores
BY DEF Stores

LEMMA BeginKeeps ==
  ASSUME NEW s, GoodStore(s), ~U!Busy(s), NEW u \in Upload
  PROVE  /\ GoodStore(U!Begin(s, u))
         /\ u \notin overLimit => U!Busy(U!Begin(s, u))
<1> DEFINE r == {v \in Upload \ {u} :
                    s.card[v].phase = "failedUpload" /\ U!FileOf[v] = U!FileOf[u]}
           c == [U!NoCard EXCEPT !.phase = IF u \in overLimit THEN "failedUpload" ELSE "uploading"]
           d == [U!NoCard EXCEPT !.phase = "dismissed"]
           t == [U!NoTask EXCEPT !.claim = IF u \in overLimit THEN "none" ELSE "asking"]
           b == U!Begin(s, u)
<1>1. /\ c \in U!Cards /\ d \in U!Cards /\ t \in U!Tasks /\ U!NoTask \in U!Tasks
      /\ c.phase = (IF u \in overLimit THEN "failedUpload" ELSE "uploading")
      /\ d.phase = "dismissed"
  BY DEF U!NoCard, U!NoTask, U!Cards, U!Tasks, U!Phase, U!Transferring
<1>2. CardFits(c, t) /\ CardFits(d, U!NoTask)
  BY DEF U!NoCard, U!NoTask, CardFits, U!Transferring
<1>3. s \in Stores /\ \A v \in Upload : CardFits(s.card[v], s.task[v])
  BY DEF GoodStore
<1>4. /\ b.card = [v \in Upload |-> CASE v = u -> c [] v \in r -> d [] OTHER -> s.card[v]]
      /\ b.task = [v \in Upload |-> CASE v = u -> t [] v \in r -> U!NoTask [] OTHER -> s.task[v]]
      /\ b.waiting = s.waiting /\ b.held = s.held
      /\ b = [s EXCEPT !.card = b.card, !.task = b.task]
  <2> DEFINE x == [v \in Upload |-> CASE v = u -> c [] v \in r -> d [] OTHER -> s.card[v]]
             y == [v \in Upload |-> CASE v = u -> t [] v \in r -> U!NoTask [] OTHER -> s.task[v]]
  <2>1. b = [s EXCEPT !.card = x, !.task = y]
    BY DEF U!Begin
  <2> HIDE DEF x, y, b
  <2>2. b.card = x /\ b.task = y /\ b.waiting = s.waiting /\ b.held = s.held
    BY <1>3, <2>1 DEF Stores
  <2> QED BY <2>1, <2>2 DEF x, y
<1>10. u \notin r
  OBVIOUS
<1> HIDE DEF c, d, t, b, r
<1>5. \A v \in Upload :
         \/ v = u /\ b.card[v] = c /\ b.task[v] = t
         \/ v # u /\ b.card[v] = d /\ b.task[v] = U!NoTask
         \/ v # u /\ b.card[v] = s.card[v] /\ b.task[v] = s.task[v]
  BY <1>4, <1>10
<1>6. b \in Stores
  <2>1. b.card \in [Upload -> U!Cards] /\ b.task \in [Upload -> U!Tasks]
    BY <1>1, <1>3, <1>4, <1>10 DEF Stores
  <2>2. [s EXCEPT !.card = b.card, !.task = b.task] \in Stores
    BY <1>3, <2>1, StoreTakes
  <2> QED BY <1>4, <2>2
<1>7. OneActive(b)
  BY <1>1, <1>5 DEF OneActive, Active, U!Busy, U!Transferring
<1>8. \A v \in Upload : CardFits(b.card[v], b.task[v])
  BY <1>2, <1>3, <1>5
<1>9. u \notin overLimit => U!Busy(b)
  BY <1>1, <1>5 DEF U!Busy, U!Transferring
<1> QED BY <1>6, <1>7, <1>8, <1>9 DEF GoodStore, b

\* emit keeps a good store, and leaves nothing to start.
LEMMA EmitKeeps ==
  ASSUME NEW s, GoodStore(s) PROVE GoodStore(U!Emit(s)) /\ Served(U!Emit(s))
<1>1. CASE ~U!CanAdvance(s)
  BY <1>1 DEF U!Emit, Served
<1>2. CASE U!CanAdvance(s)
  <2> DEFINE q == Head(s.waiting)
             w == [s EXCEPT !.waiting = Tail(s.waiting)]
  <2>1. s \in Stores /\ s.waiting # <<>> /\ ~U!Busy(s)
    BY <1>2 DEF GoodStore, U!CanAdvance
  <2>2. q \in Upload /\ Tail(s.waiting) \in Seq(Upload)
    <3>1. s.waiting \in Seq(Upload)
      BY <2>1 DEF Stores
    <3> QED BY <2>1, <3>1, HeadTailProperties
  <2>3. /\ w.card = s.card /\ w.task = s.task /\ w.held = s.held /\ w.waiting = Tail(s.waiting)
        /\ w \in Stores
    BY <2>1, <2>2 DEF Stores
  <2> HIDE DEF w, q
  <2>4. GoodStore(w) /\ ~U!Busy(w)
    BY <2>1, <2>3 DEF GoodStore, OneActive, U!Busy
  <2>5. U!Emit(s) = U!Begin(w, q)
    BY <1>2 DEF U!Emit, w, q
  <2>6. GoodStore(U!Begin(w, q)) /\ (overLimit = {} => U!Busy(U!Begin(w, q)))
    BY <2>2, <2>4, BeginKeeps
  <2> QED BY <2>5, <2>6 DEF Served, U!CanAdvance
<1> QED BY <1>1, <1>2

LEMMA EmitAssetKeeps ==
  ASSUME NEW s, GoodStore(s), NEW u
  PROVE  GoodStore(U!EmitAsset(s, u)) /\ (Served(s) => Served(U!EmitAsset(s, u)))
BY EmitKeeps DEF U!EmitAsset

\* A card is shown, with what goes on behind it.
LEMMA ShowKeeps ==
  ASSUME GoodStore(U!Store), NEW u \in Upload, NEW c \in U!Cards, NEW t \in U!Tasks,
         CardFits(c, t), Active(c) => Active(card[u])
  PROVE  GoodStore(U!ShowTask(u, c, t))
<1> DEFINE b == U!ShowTask(u, c, t)
<1>1. /\ card \in [Upload -> U!Cards] /\ task \in [Upload -> U!Tasks]
      /\ waiting \in Seq(Upload) /\ held \in BOOLEAN
      /\ \A v \in Upload : CardFits(card[v], task[v])
      /\ \A v, w \in Upload : Active(card[v]) /\ Active(card[w]) => v = w
  BY DEF GoodStore, Stores, OneActive, U!Store
<1>2. /\ b = [U!Store EXCEPT !.card = [card EXCEPT ![u] = c], !.task = [task EXCEPT ![u] = t]]
      /\ b.card = [card EXCEPT ![u] = c] /\ b.task = [task EXCEPT ![u] = t]
  BY DEF U!ShowTask, U!Store
<1>3. b \in Stores
  <2>1. [card EXCEPT ![u] = c] \in [Upload -> U!Cards]
    BY <1>1
  <2>2. [task EXCEPT ![u] = t] \in [Upload -> U!Tasks]
    BY <1>1
  <2>3. U!Store \in Stores
    BY DEF GoodStore
  <2> HIDE DEF b
  <2> QED BY <1>2, <2>1, <2>2, <2>3, StoreTakes
<1> HIDE DEF b
<1>4. /\ b.card[u] = c /\ b.task[u] = t
      /\ \A v \in Upload : v # u => b.card[v] = card[v] /\ b.task[v] = task[v]
  BY <1>1, <1>2
<1>5. OneActive(b)
  BY <1>1, <1>4 DEF OneActive
<1>6. \A v \in Upload : CardFits(b.card[v], b.task[v])
  BY <1>1, <1>4
<1> QED BY <1>3, <1>5, <1>6 DEF GoodStore, b

LEMMA ShowIs ==
  ASSUME GoodStore(U!Store), NEW u \in Upload, NEW c
  PROVE  U!Show(u, c) = U!ShowTask(u, c, task[u])
<1>1. task \in [Upload -> U!Tasks]
  BY DEF GoodStore, Stores, U!Store
<1>2. [task EXCEPT ![u] = task[u]] = task
  BY <1>1
<1>3. U!Show(u, c) = [card |-> [card EXCEPT ![u] = c], task |-> task, waiting |-> waiting,
                      held |-> held]
  BY DEF U!Show, U!Store
<1>4. U!ShowTask(u, c, task[u]) = [U!Show(u, c) EXCEPT !.task[u] = task[u]]
  BY DEF U!Show, U!ShowTask
<1>5. [U!Show(u, c) EXCEPT !.task[u] = task[u]] = U!Show(u, c)
  BY <1>2, <1>3
<1> QED BY <1>4, <1>5

\* What a handler puts back is the state.
LEMMA PutKeeps ==
  ASSUME NEW s, GoodStore(s), U!Put(s)
  PROVE  /\ GoodStore(U!Store)'
         /\ ~U!CanAdvance(s) => U!QueueIsServed'
<1>1. s = [card |-> card', task |-> task', waiting |-> waiting', held |-> held']
  BY DEF GoodStore, Stores, U!Put
<1>2. s = U!Store'
  BY <1>1 DEF U!Store
<1> QED BY <1>1, <1>2 DEF GoodStore, Stores, OneActive, U!CanAdvance, U!QueueIsServed, U!Busy,
          U!SignedOut, U!Store

\* The state is good and, if nothing waited for nothing, nothing does.
Done == GoodStore(U!Store)' /\ (overLimit = {} /\ U!QueueIsServed => U!QueueIsServed')

\* A store is put back after the emits of a handler.
EmitsOf(s, u) ==
    \/ U!Put(U!Emit(s)) \/ U!Put(U!Emit(U!Emit(s)))
    \/ U!Put(U!EmitAsset(U!Emit(s), u)) \/ U!Put(U!Emit(U!EmitAsset(s, u)))
    \/ U!Put(U!EmitAsset(U!EmitAsset(U!Emit(s), u), u))
    \/ U!Put(U!Emit(U!EmitAsset(U!Emit(s), u)))

LEMMA EmitsEnd == ASSUME NEW s, GoodStore(s), NEW u, EmitsOf(s, u) PROVE Done
<1>1. ASSUME NEW x, GoodStore(x), Served(x), U!Put(x) PROVE Done
  BY <1>1, PutKeeps DEF Done, Served
<1>2. /\ GoodStore(U!Emit(s)) /\ Served(U!Emit(s))
      /\ GoodStore(U!EmitAsset(s, u))
  BY EmitKeeps, EmitAssetKeeps
<1>3. /\ GoodStore(U!Emit(U!Emit(s))) /\ Served(U!Emit(U!Emit(s)))
      /\ GoodStore(U!EmitAsset(U!Emit(s), u)) /\ Served(U!EmitAsset(U!Emit(s), u))
      /\ GoodStore(U!Emit(U!EmitAsset(s, u))) /\ Served(U!Emit(U!EmitAsset(s, u)))
  BY <1>2, EmitKeeps, EmitAssetKeeps
<1>4. /\ GoodStore(U!EmitAsset(U!EmitAsset(U!Emit(s), u), u))
      /\ Served(U!EmitAsset(U!EmitAsset(U!Emit(s), u), u))
      /\ GoodStore(U!Emit(U!EmitAsset(U!Emit(s), u)))
      /\ Served(U!Emit(U!EmitAsset(U!Emit(s), u)))
  BY <1>3, EmitKeeps, EmitAssetKeeps
<1> QED BY <1>1, <1>2, <1>3, <1>4 DEF EmitsOf

LEMMA CardIs ==
  ASSUME GoodStore(U!Store), NEW u \in Upload
  PROVE  card[u] \in U!Cards /\ task[u] \in U!Tasks /\ CardFits(card[u], task[u])
BY DEF GoodStore, Stores, U!Store

\* A handler shows a card, and emits.
LEMMA ShowEnds ==
  ASSUME GoodStore(U!Store), NEW u \in Upload, NEW c \in U!Cards, NEW t \in U!Tasks,
         CardFits(c, t), Active(c) => Active(card[u]),
         \/ EmitsOf(U!ShowTask(u, c, t), u)
         \/ t = task[u] /\ EmitsOf(U!Show(u, c), u)
  PROVE  Done
<1>1. GoodStore(U!ShowTask(u, c, t))
  BY ShowKeeps
<1>2. t = task[u] => U!Show(u, c) = U!ShowTask(u, c, t)
  BY ShowIs
<1> QED BY <1>1, <1>2, EmitsEnd

\* The queue of a store is another, or held or not.
LEMMA QueueKeeps ==
  ASSUME NEW s, GoodStore(s), NEW w \in Seq(Upload), NEW h \in BOOLEAN
  PROVE  /\ GoodStore([s EXCEPT !.waiting = w])
         /\ GoodStore([s EXCEPT !.held = h])
         /\ GoodStore([s EXCEPT !.waiting = w, !.held = h])
<1> SUFFICES ASSUME NEW x, \/ x = [s EXCEPT !.waiting = w]
                           \/ x = [s EXCEPT !.held = h]
                           \/ x = [s EXCEPT !.waiting = w, !.held = h]
             PROVE  GoodStore(x)
  OBVIOUS
<1>1. x \in Stores /\ x.card = s.card /\ x.task = s.task
  BY DEF GoodStore, Stores
<1> QED BY <1>1 DEF GoodStore, OneActive

\* Only what goes on behind a card changes.
LEMMA TaskEnds ==
  ASSUME GoodStore(U!Store), NEW u \in Upload, NEW t \in U!Tasks, CardFits(card[u], t),
         U!Put([U!Store EXCEPT !.task[u] = t]), U!Quiet
  PROVE  Done
<1> DEFINE s == [U!Store EXCEPT !.task[u] = t]
<1>1. card[u] \in U!Cards /\ card \in [Upload -> U!Cards]
  BY DEF GoodStore, Stores, U!Store
<1>2. s = [card |-> card, task |-> [task EXCEPT ![u] = t], waiting |-> waiting, held |-> held]
  BY DEF U!Store
<1>3. [card EXCEPT ![u] = card[u]] = card
  BY <1>1
<1>4. U!Show(u, card[u]) = [card |-> [card EXCEPT ![u] = card[u]], task |-> task,
                            waiting |-> waiting, held |-> held]
  BY DEF U!Show, U!Store
<1>5. U!ShowTask(u, card[u], t) = [U!Show(u, card[u]) EXCEPT !.task[u] = t]
  BY DEF U!Show, U!ShowTask
<1>6. U!ShowTask(u, card[u], t) = s
  BY <1>2, <1>3, <1>4, <1>5
<1>7. GoodStore(s)
  BY <1>1, <1>6, ShowKeeps
<1>8. GoodStore(U!Store)'
  BY <1>7, PutKeeps
<1>9. UNCHANGED <<card, waiting, held, online>>
  BY <1>2 DEF U!Put, U!Quiet
<1> QED BY <1>8, <1>9 DEF Done, U!QueueIsServed, U!Busy, U!SignedOut, U!Store

----------------------------------------------------------------------------
LEMMA EnqueueKeeps ==
  ASSUME GoodStore(U!Store), NEW u \in Upload, U!Enqueue(u) PROVE Done
<1>1. CASE ~U!Busy(U!Store) /\ U!Put(U!Emit(U!Begin(U!Store, u)))
  <2>1. GoodStore(U!Begin(U!Store, u))
    BY <1>1, BeginKeeps
  <2> QED BY <1>1, <2>1, EmitsEnd DEF EmitsOf
<1>2. CASE U!Put(U!Emit([U!Show(u, [U!NoCard EXCEPT !.phase = "queued"])
                            EXCEPT !.waiting = Append(waiting, u)]))
  <2> DEFINE c == [U!NoCard EXCEPT !.phase = "queued"]
             s == [U!Show(u, c) EXCEPT !.waiting = Append(waiting, u)]
  <2>1. c \in U!Cards /\ ~Active(c)
    BY DEF U!NoCard, U!Cards, U!Phase, U!Transferring, Active
  <2>2. CardFits(c, task[u])
    <3>1. card[u].phase = "none" /\ CardFits(card[u], task[u])
      BY CardIs DEF U!Enqueue
    <3> QED BY <3>1 DEF U!NoCard, CardFits, U!Transferring
  <2>3. GoodStore(U!Show(u, c))
    BY <2>1, <2>2, CardIs, ShowKeeps, ShowIs
  <2>4. Append(waiting, u) \in Seq(Upload)
    <3>1. waiting \in Seq(Upload)
      BY DEF GoodStore, Stores, U!Store
    <3> QED BY <3>1
  <2>5. GoodStore(s)
    <3> HIDE DEF c
    <3> QED BY <2>3, <2>4, QueueKeeps
  <2> QED BY <1>2, <2>5, EmitsEnd DEF EmitsOf
<1> QED BY <1>1, <1>2 DEF U!Enqueue

LEMMA RemoveQueuedKeeps ==
  ASSUME GoodStore(U!Store), NEW u \in Upload, U!RemoveQueued(u) PROVE Done
<1> DEFINE rest == U!Without(waiting, {u})
           c == [U!NoCard EXCEPT !.phase = "dismissed"]
           h == held /\ rest # <<>>
<1>1. c \in U!Cards /\ ~Active(c)
  BY DEF U!NoCard, U!Cards, U!Phase, U!Transferring, Active
<1>2. CardFits(c, task[u])
  <2>1. card[u].phase = "queued" /\ CardFits(card[u], task[u])
    BY CardIs DEF U!RemoveQueued
  <2> QED BY <2>1 DEF U!NoCard, CardFits, U!Transferring
<1>3. GoodStore(U!Show(u, c))
  BY <1>1, <1>2, CardIs, ShowKeeps, ShowIs
<1>4. rest \in Seq(Upload) /\ h \in BOOLEAN
  <2>1. waiting \in Seq(Upload) /\ held \in BOOLEAN
    BY DEF GoodStore, Stores, U!Store
  <2>2. rest = Without(waiting, {u})
    BY DEF U!Without, Without
  <2>3. Without(waiting, {u}) \in Seq(Upload)
    BY <2>1, WithoutIsRight
  <2> QED BY <2>1, <2>2, <2>3
<1>5. GoodStore([U!Show(u, c) EXCEPT !.waiting = rest, !.held = h])
  <2> HIDE DEF c, rest, h
  <2> QED BY <1>3, <1>4, QueueKeeps
<1>6. U!Put(U!Emit([U!Show(u, c) EXCEPT !.waiting = rest, !.held = h]))
  BY DEF U!RemoveQueued
<1> HIDE DEF c, rest, h
<1> QED BY <1>5, <1>6, EmitsEnd DEF EmitsOf

LEMMA ContinueKeeps == ASSUME GoodStore(U!Store), U!ContinueQueue PROVE Done
<1>1. GoodStore([U!Store EXCEPT !.held = FALSE])
  BY QueueKeeps DEF GoodStore, Stores, U!Store
<1> QED BY <1>1, EmitsEnd DEF EmitsOf, U!ContinueQueue

LEMMA PauseKeeps ==
  ASSUME GoodStore(U!Store), NEW u \in Upload, U!Pause(u) PROVE Done
<1> DEFINE t == [task[u] EXCEPT !.pausing = TRUE]
<1>1. t \in U!Tasks /\ CardFits(card[u], t)
  BY CardIs DEF U!Tasks, CardFits
<1>2. U!Put([U!Store EXCEPT !.task[u] = t]) /\ U!Quiet
  BY DEF U!Pause, U!Store
<1> QED BY <1>1, <1>2, TaskEnds

\* The user's moves of a card that is there.
LEMMA UserMovesKeep ==
  ASSUME GoodStore(U!Store), NEW u \in Upload,
         \/ U!Resume(u) \/ U!Cancel(u) \/ U!RetryCleanup(u) \/ U!RetryProcessing(u)
         \/ U!Refresh(u)
  PROVE  Done
<1>1. PICK k \in U!Cards, j \in U!Tasks : k = card[u] /\ j = task[u] /\ CardFits(k, j)
  BY CardIs
<1>2. CASE U!Resume(u)
  <2> DEFINE c == [k EXCEPT !.phase = "uploading"]
  <2>1. k.phase = "paused" /\ j.attempt # "none" /\ EmitsOf(U!Show(u, c), u)
    BY <1>1, <1>2 DEF U!Resume, EmitsOf
  <2>2. c \in U!Cards /\ CardFits(c, j) /\ Active(k)
    BY <1>1, <2>1 DEF U!Cards, U!Phase, U!Tasks, U!Transferring, CardFits, Active
  <2> HIDE DEF c
  <2> QED BY <1>1, <2>1, <2>2, ShowEnds
<1>3. CASE U!Cancel(u)
  <2> DEFINE c == [k EXCEPT !.phase = "cancelled"]
             d == [k EXCEPT !.phase = "cancelled", !.cleanup = "pending"]
             t == [j EXCEPT !.asked = "abort"]
  <2>1. /\ k.phase \in {"uploading", "paused"}
        /\ \/ j.attempt = "none" /\ j.claim = "asking" /\ EmitsOf(U!Show(u, c), u)
           \/ j.attempt # "none" /\ EmitsOf(U!ShowTask(u, d, t), u)
    BY <1>1, <1>3 DEF U!Cancel, EmitsOf
  <2>2. CASE j.attempt = "none" /\ j.claim = "asking" /\ EmitsOf(U!Show(u, c), u)
    <3>1. c \in U!Cards /\ CardFits(c, j) /\ ~Active(c)
      BY <1>1, <2>1, <2>2 DEF U!Cards, U!Phase, U!Tasks, U!Transferring, CardFits, Active
    <3> HIDE DEF c
    <3> QED BY <1>1, <2>2, <3>1, ShowEnds
  <2>3. CASE j.attempt # "none" /\ EmitsOf(U!ShowTask(u, d, t), u)
    <3>1. d \in U!Cards /\ t \in U!Tasks /\ CardFits(d, t) /\ ~Active(d)
      BY <1>1, <2>1, <2>3 DEF U!Cards, U!Phase, U!Tasks, U!Transferring, CardFits, Active
    <3> HIDE DEF d, t
    <3> QED BY <1>1, <2>3, <3>1, ShowEnds
  <2> QED BY <2>1, <2>2, <2>3
<1>4. CASE U!RetryCleanup(u)
  <2> DEFINE c == [k EXCEPT !.cleanup = "pending"]
             t == [j EXCEPT !.asked = "cancel"]
  <2>1. /\ k.phase = "cancelled" /\ k.cleanup = "failed" /\ k.ids # "none"
        /\ EmitsOf(U!ShowTask(u, c, t), u)
    BY <1>1, <1>4 DEF U!RetryCleanup, EmitsOf
  <2>2. c \in U!Cards /\ t \in U!Tasks /\ CardFits(c, t) /\ ~Active(c)
    BY <1>1, <2>1 DEF U!Cards, U!Phase, U!Tasks, U!Transferring, CardFits, Active
  <2> HIDE DEF c, t
  <2> QED BY <1>1, <2>1, <2>2, ShowEnds
<1>5. CASE U!RetryProcessing(u)
  <2> DEFINE c == [k EXCEPT !.phase = "processing", !.poll = "off"]
             t == [j EXCEPT !.asked = "retry"]
  <2>1. k.phase = "failedProcessing" /\ EmitsOf(U!ShowTask(u, c, t), u)
    BY <1>1, <1>5 DEF U!RetryProcessing, EmitsOf
  <2>2. c \in U!Cards /\ t \in U!Tasks /\ CardFits(c, t) /\ ~Active(c)
    BY <1>1, <2>1 DEF U!Cards, U!Phase, U!Tasks, U!Transferring, CardFits, Active
  <2> HIDE DEF c, t
  <2> QED BY <1>1, <2>1, <2>2, ShowEnds
<1>6. CASE U!Refresh(u)
  <2> DEFINE c == [k EXCEPT !.poll = "on"]
  <2>1. k.phase = "processing" /\ k.poll = "stopped" /\ EmitsOf(U!Show(u, c), u)
    BY <1>1, <1>6 DEF U!Refresh, EmitsOf
  <2>2. c \in U!Cards /\ CardFits(c, j) /\ ~Active(c)
    BY <1>1, <2>1 DEF U!Cards, U!Phase, U!Tasks, U!Transferring, CardFits, Active
  <2> HIDE DEF c
  <2> QED BY <1>1, <2>1, <2>2, ShowEnds
<1> QED BY <1>2, <1>3, <1>4, <1>5, <1>6

\* A failed transfer that can go on does unless another goes on.
LEMMA ResumedKeeps ==
  ASSUME GoodStore(U!Store), NEW u \in Upload, U!Put(U!Resumed(U!Store, u))
  PROVE  /\ GoodStore(U!Store)'
         /\ U!CanResume(U!Store, u) /\ ~U!Busy(U!Store) => U!Busy(U!Store)'
         /\ ~(U!CanResume(U!Store, u) /\ ~U!Busy(U!Store)) => UNCHANGED <<card, task, waiting, held>>
<1>1. PICK k \in U!Cards, j \in U!Tasks : k = card[u] /\ j = task[u] /\ CardFits(k, j)
  BY CardIs
<1>2. CASE U!CanResume(U!Store, u) /\ ~U!Busy(U!Store)
  <2> DEFINE c == [k EXCEPT !.phase = "uploading", !.canResume = FALSE, !.lost = FALSE]
             t == [j EXCEPT !.claim = "asking"]
             f == [card EXCEPT ![u] = c]
             g == [task EXCEPT ![u] = t]
             s == [card |-> f, task |-> g, waiting |-> waiting, held |-> FALSE]
  <2>1. k.phase = "failedUpload"
    BY <1>1, <1>2 DEF U!CanResume, U!Store
  <2>2. c \in U!Cards /\ t \in U!Tasks /\ CardFits(c, t) /\ c.phase = "uploading"
    BY <1>1, <2>1 DEF U!Cards, U!Phase, U!Tasks, U!Transferring, CardFits
  <2>3. card \in [Upload -> U!Cards] /\ task \in [Upload -> U!Tasks] /\ waiting \in Seq(Upload)
    BY DEF GoodStore, Stores, U!Store
  <2>4. card' = f /\ task' = g /\ waiting' = waiting /\ held' = FALSE
    BY <1>1, <1>2, <2>3 DEF U!Resumed, U!Put, U!Store
  <2> HIDE DEF c, t
  <2>5. \A v \in Upload : v # u => f[v] = card[v] /\ g[v] = task[v]
    BY <2>3
  <2>6. f[u] = c /\ g[u] = t /\ f \in [Upload -> U!Cards] /\ g \in [Upload -> U!Tasks]
    BY <2>2, <2>3
  <2> HIDE DEF f, g
  <2>7. s \in Stores
    BY <2>3, <2>6 DEF Stores
  <2>8. OneActive(s)
    BY <1>2, <2>5, <2>6 DEF OneActive, Active, U!Busy, U!Store, U!Transferring
  <2>9. \A v \in Upload : CardFits(s.card[v], s.task[v])
    BY <2>2, <2>5, <2>6, CardIs
  <2>10. GoodStore(s) /\ U!Put(s) /\ U!Busy(s)
    BY <2>2, <2>4, <2>6, <2>7, <2>8, <2>9 DEF GoodStore, U!Put, U!Busy, U!Transferring
  <2>11. s = U!Store'
    BY <2>4 DEF U!Store
  <2> QED BY <1>2, <2>10, <2>11, PutKeeps DEF U!Busy, U!Store
<1>3. CASE ~(U!CanResume(U!Store, u) /\ ~U!Busy(U!Store))
  <2>1. U!Put(U!Store)
    BY <1>3 DEF U!Resumed
  <2> QED BY <1>3, <2>1, PutKeeps DEF U!Put, U!Store
<1> QED BY <1>2, <1>3

LEMMA ResumeTransferKeeps ==
  ASSUME GoodStore(U!Store), NEW u \in Upload, U!ResumeTransfer(u) PROVE Done
<1>1. U!Put(U!Resumed(U!Store, u)) /\ U!Quiet
  BY DEF U!ResumeTransfer
<1>2. U!Busy(U!Store)' \/ UNCHANGED <<card, waiting, held, online>>
  BY <1>1, ResumedKeeps DEF U!Quiet
<1> QED BY <1>1, <1>2, ResumedKeeps DEF Done, U!QueueIsServed, U!Busy, U!SignedOut, U!Store

LEMMA DismissKeeps ==
  ASSUME GoodStore(U!Store), NEW u \in Upload, U!Dismiss(u) PROVE Done
<1> DEFINE b == [U!NoCard EXCEPT !.phase = "dismissed"]
           t == [U!NoTask EXCEPT !.claim = IF task[u].claim = "asking" THEN "asking" ELSE "none"]
           c == [card EXCEPT ![u] = b]
           g == [task EXCEPT ![u] = t]
           h == held /\ \E v \in Upload : c[v].phase = "failedUpload" /\ c[v].canResume
           s == [card |-> c, waiting |-> waiting, task |-> g, held |-> h]
<1>1. U!Put(U!Emit(s))
  BY DEF U!Dismiss
<1>2. b \in U!Cards /\ t \in U!Tasks /\ CardFits(b, t) /\ ~Active(b)
  BY DEF U!NoCard, U!NoTask, U!Cards, U!Tasks, U!Phase, U!Transferring, CardFits, Active
<1>3. /\ card \in [Upload -> U!Cards] /\ task \in [Upload -> U!Tasks]
      /\ waiting \in Seq(Upload) /\ held \in BOOLEAN
      /\ \A v \in Upload : CardFits(card[v], task[v])
      /\ \A v, w \in Upload : Active(card[v]) /\ Active(card[w]) => v = w
  BY DEF GoodStore, Stores, OneActive, U!Store
<1>4. h \in BOOLEAN
  BY <1>3
<1> HIDE DEF b, t, h
<1>5. /\ c \in [Upload -> U!Cards] /\ g \in [Upload -> U!Tasks] /\ c[u] = b /\ g[u] = t
      /\ \A v \in Upload : v # u => c[v] = card[v] /\ g[v] = task[v]
  BY <1>2, <1>3
<1> HIDE DEF c, g
<1>6. s \in Stores
  BY <1>3, <1>4, <1>5 DEF Stores
<1>7. OneActive(s)
  BY <1>2, <1>3, <1>5 DEF OneActive
<1>8. \A v \in Upload : CardFits(s.card[v], s.task[v])
  BY <1>2, <1>3, <1>5
<1>9. GoodStore(s)
  BY <1>6, <1>7, <1>8 DEF GoodStore
<1> QED BY <1>1, <1>9, EmitsEnd DEF EmitsOf

LEMMA ClaimedKeeps ==
  ASSUME GoodStore(U!Store), NEW u \in Upload, U!Claimed(u) PROVE Done
<1>1. PICK k \in U!Cards, j \in U!Tasks : k = card[u] /\ j = task[u] /\ CardFits(k, j)
  BY CardIs
<1> DEFINE t == [j EXCEPT !.claim = "none"]
           w == [t EXCEPT !.claim = "held", !.attempt = "live"]
           c == [k EXCEPT !.phase = "failedUpload"]
           d == [k EXCEPT !.phase = "failedUpload", !.canResume = TRUE]
<1>2. /\ j.claim = "asking" /\ U!Quiet
      /\ \/ U!Put([U!Store EXCEPT !.task[u] = t])
         \/ k.phase = "uploading" /\ EmitsOf(U!ShowTask(u, c, t), u)
         \/ k.phase = "uploading" /\ U!Put([U!Store EXCEPT !.task[u] = w])
         \/ k.phase # "dismissed" /\ EmitsOf(U!ShowTask(u, d, t), u)
  BY <1>1 DEF U!Claimed, U!Listed, EmitsOf
<1>3. t \in U!Tasks /\ CardFits(k, t) /\ w \in U!Tasks /\ (k.phase = "uploading" => CardFits(k, w))
  BY <1>1, <1>2 DEF U!Tasks, U!Transferring, CardFits
<1>4. /\ c \in U!Cards /\ ~Active(c) /\ (k.phase = "uploading" => CardFits(c, t))
      /\ d \in U!Cards /\ ~Active(d) /\ (k.phase # "dismissed" => CardFits(d, t))
  <2>1. c \in U!Cards /\ ~Active(c) /\ d \in U!Cards /\ ~Active(d)
    BY DEF U!Cards, U!Phase, U!Transferring, Active
  <2>2. k.phase = "uploading" => CardFits(c, t)
    BY <1>1, <1>2 DEF U!Cards, U!Tasks, U!Transferring, CardFits
  <2>3. k.phase # "dismissed" => CardFits(d, t)
    BY <1>1, <1>2 DEF U!Cards, U!Tasks, U!Transferring, CardFits
  <2> QED BY <2>1, <2>2, <2>3
<1> HIDE DEF c, d, t, w
<1> QED BY <1>1, <1>2, <1>3, <1>4, ShowEnds, TaskEnds

\* What the transfer tells of a card it still has.
LEMMA TransferKeeps ==
  ASSUME GoodStore(U!Store), NEW u \in Upload,
         U!LearnId(u) \/ U!Succeed(u) \/ U!Transferred(u)
  PROVE  Done
<1>1. PICK k \in U!Cards, j \in U!Tasks : k = card[u] /\ j = task[u] /\ CardFits(k, j)
  BY CardIs
<1>2. CASE U!LearnId(u)
  <2> DEFINE c == [k EXCEPT !.ids = IF @ = "none" THEN "upload" ELSE "asset"]
  <2>1. j.attempt # "none" /\ EmitsOf(U!Show(u, c), u)
    BY <1>1, <1>2 DEF U!LearnId, EmitsOf
  <2>2. c \in U!Cards /\ CardFits(c, j) /\ (Active(c) => Active(k))
    BY <1>1, <2>1 DEF U!Cards, U!Phase, U!Tasks, U!Transferring, CardFits, Active
  <2> HIDE DEF c
  <2> QED BY <1>1, <2>1, <2>2, ShowEnds
<1>3. CASE U!Succeed(u)
  <2> DEFINE c == IF k.phase = "cancelled" THEN k
                  ELSE [k EXCEPT !.phase = "finishing", !.notice = FALSE]
             t == [j EXCEPT !.attempt = "sent"]
  <2>1. /\ j.attempt = "live" /\ k.phase \in {"uploading", "paused", "cancelled"}
        /\ EmitsOf(U!ShowTask(u, c, t), u)
    BY <1>1, <1>3 DEF U!Succeed, EmitsOf
  <2>2. c \in U!Cards /\ t \in U!Tasks /\ CardFits(c, t) /\ (Active(c) => Active(k))
    BY <1>1, <2>1 DEF U!Cards, U!Phase, U!Tasks, U!Transferring, CardFits, Active
  <2> HIDE DEF c, t
  <2> QED BY <1>1, <2>1, <2>2, ShowEnds
<1>4. CASE U!Transferred(u)
  <2> DEFINE c == [k EXCEPT !.phase = "failedUpload"]
             d == [k EXCEPT !.phase = "processing", !.ids = "asset", !.poll = "on"]
             t == U!Over(j)
  <2>1. /\ k.phase = "finishing"
        /\ EmitsOf(U!ShowTask(u, c, t), u) \/ EmitsOf(U!ShowTask(u, d, t), u)
    BY <1>1, <1>4 DEF U!Transferred, EmitsOf
  <2>2. t \in U!Tasks /\ t.attempt = "none" /\ t.claim # "asking" /\ t.asked = "none"
    BY <1>1, <2>1 DEF U!Tasks, U!Over, U!Free, CardFits
  <2>3. c \in U!Cards /\ ~Active(c) /\ d \in U!Cards /\ ~Active(d)
    BY DEF U!Cards, U!Phase, U!Transferring, Active
  <2> HIDE DEF t
  <2>4. CardFits(c, t) /\ CardFits(d, t)
    BY <1>1, <2>1, <2>2 DEF U!Cards, U!Tasks, CardFits
  <2> HIDE DEF c, d
  <2> QED BY <1>1, <2>1, <2>2, <2>3, <2>4, ShowEnds
<1> QED BY <1>2, <1>3, <1>4

LEMMA FailKeeps ==
  ASSUME GoodStore(U!Store), NEW u \in Upload, U!Fail(u) PROVE Done
<1>1. PICK k \in U!Cards, j \in U!Tasks : k = card[u] /\ j = task[u] /\ CardFits(k, j)
  BY CardIs
<1>2. /\ j.attempt = "live" /\ k.phase \in {"uploading", "paused"}
      /\ \E resumable, lost, signedOut \in BOOLEAN :
            /\ lost => resumable
            /\ signedOut => ~resumable
            /\ LET c == [k EXCEPT !.phase = "failedUpload", !.canResume = resumable, !.lost = lost]
               IN  U!Put(U!Emit([U!ShowTask(u, IF signedOut THEN U!SignOut(c) ELSE c, U!Over(j))
                                    EXCEPT !.held = U!Holds(U!Store, resumable)]))
  BY <1>1 DEF U!Fail
<1>3. PICK resumable \in BOOLEAN, lost \in BOOLEAN, signedOut \in BOOLEAN :
         /\ lost => resumable
         /\ signedOut => ~resumable
         /\ LET c == [k EXCEPT !.phase = "failedUpload", !.canResume = resumable, !.lost = lost]
            IN  U!Put(U!Emit([U!ShowTask(u, IF signedOut THEN U!SignOut(c) ELSE c, U!Over(j))
                                 EXCEPT !.held = U!Holds(U!Store, resumable)]))
  BY <1>2
<1> DEFINE c == [k EXCEPT !.phase = "failedUpload", !.canResume = resumable, !.lost = lost]
           d == IF signedOut THEN U!SignOut(c) ELSE c
           t == U!Over(j)
           h == U!Holds(U!Store, resumable)
<1>4. t \in U!Tasks /\ t.attempt = "none" /\ t.claim # "asking" /\ t.asked = "none"
  BY <1>1, <1>2 DEF U!Tasks, U!Over, U!Free, CardFits
<1>5. /\ d \in U!Cards /\ d.phase = "failedUpload" /\ d.cleanup = k.cleanup
      /\ d.poll \in {"off", k.poll} /\ (d.lost => d.canResume)
  <2>1. /\ c \in U!Cards /\ c.phase = "failedUpload" /\ c.cleanup = k.cleanup /\ c.poll = k.poll
        /\ c.lost = lost /\ c.canResume = resumable
    BY ZenonT(30), <1>1, <1>3 DEF U!Cards, U!Phase
  <2> HIDE DEF c
  <2>2. CASE signedOut
    <3>1. d = U!SignOut(c)
      BY <2>2
    <3>2. /\ d \in U!Cards /\ d.phase = c.phase /\ d.cleanup = c.cleanup /\ d.poll = "off"
          /\ d.lost = c.lost
      BY <2>1, <3>1 DEF U!Cards, U!SignOut
    <3> QED BY <1>3, <2>1, <2>2, <3>2
  <2>3. CASE ~signedOut
    <3>1. d = c
      BY <2>3
    <3> QED BY <1>3, <2>1, <3>1
  <2> QED BY <1>3, <2>2, <2>3
<1>6. h \in BOOLEAN
  BY DEF U!Holds, GoodStore, Stores
<1>7. U!Put(U!Emit([U!ShowTask(u, d, t) EXCEPT !.held = h]))
  BY <1>3
<1> HIDE DEF c, d, t, h
<1>8. CardFits(d, t) /\ ~Active(d)
  BY <1>1, <1>2, <1>4, <1>5 DEF U!Cards, U!Tasks, CardFits, Active
<1>9. GoodStore(U!ShowTask(u, d, t))
  BY <1>4, <1>5, <1>8, ShowKeeps
<1>10. GoodStore([U!ShowTask(u, d, t) EXCEPT !.held = h])
  <2>1. <<>> \in Seq(Upload)
    OBVIOUS
  <2> QED BY <1>6, <1>9, <2>1, QueueKeeps
<1> QED BY <1>7, <1>10, EmitsEnd DEF EmitsOf

LEMMA PausedKeeps ==
  ASSUME GoodStore(U!Store), NEW u \in Upload, U!Paused(u) PROVE Done
<1>1. PICK k \in U!Cards, j \in U!Tasks : k = card[u] /\ j = task[u] /\ CardFits(k, j)
  BY CardIs
<1> DEFINE t == [j EXCEPT !.pausing = FALSE]
           c == [k EXCEPT !.phase = "paused"]
           w == [t EXCEPT !.reading = k.ids # "none"]
<1>2. /\ U!Quiet
      /\ \/ j.attempt = "live" /\ k.phase = "uploading" /\ EmitsOf(U!ShowTask(u, c, w), u)
         \/ U!Put([U!Store EXCEPT !.task[u] = t])
  BY <1>1 DEF U!Paused, EmitsOf
<1>3. t \in U!Tasks /\ CardFits(k, t) /\ w \in U!Tasks /\ c \in U!Cards
  BY ZenonT(30), <1>1 DEF U!Tasks, U!Cards, U!Phase, U!Transferring, CardFits
<1>4. j.attempt = "live" /\ k.phase = "uploading" => CardFits(c, w) /\ Active(k)
  BY <1>1 DEF U!Tasks, U!Cards, U!Transferring, CardFits, Active
<1> HIDE DEF c, t, w
<1> QED BY <1>1, <1>2, <1>3, <1>4, ShowEnds, TaskEnds

LEMMA CommittedReadKeeps ==
  ASSUME GoodStore(U!Store), NEW u \in Upload, U!CommittedRead(u) PROVE Done
<1>1. PICK k \in U!Cards, j \in U!Tasks : k = card[u] /\ j = task[u] /\ CardFits(k, j)
  BY CardIs
<1> DEFINE t == [j EXCEPT !.reading = FALSE]
           c == U!SignOut(k)
           w == U!Free(t)
<1>2. /\ U!Quiet
      /\ U!Put([U!Store EXCEPT !.task[u] = t]) \/ EmitsOf(U!ShowTask(u, c, w), u)
  BY <1>1 DEF U!CommittedRead, EmitsOf
<1>3. t \in U!Tasks /\ CardFits(k, t)
  BY <1>1 DEF U!Tasks, U!Transferring, CardFits
<1>4. w \in U!Tasks /\ c \in U!Cards /\ (Active(c) => Active(k))
  <2>1. w \in U!Tasks
    BY <1>1 DEF U!Tasks, U!Free
  <2>2. c \in U!Cards /\ c.phase = k.phase /\ c.notice = k.notice
    BY <1>1 DEF U!Cards, U!SignOut
  <2> QED BY <2>1, <2>2 DEF Active
<1>5. CardFits(c, w)
  BY <1>1 DEF U!Tasks, U!Cards, U!Free, U!SignOut, U!Transferring, CardFits
<1> HIDE DEF c, t, w
<1> QED BY <1>1, <1>2, <1>3, <1>4, <1>5, ShowEnds, TaskEnds

\* The answers to a cancel that goes on after abort, and to one that is tried again.
LEMMA CleanupKeeps ==
  ASSUME GoodStore(U!Store), NEW u \in Upload, U!Aborted(u) \/ U!CleanupAnswered(u)
  PROVE  Done
<1>1. PICK k \in U!Cards, j \in U!Tasks : k = card[u] /\ j = task[u] /\ CardFits(k, j)
  BY CardIs
<1> DEFINE t == [j EXCEPT !.asked = "none"]
           w == U!Over(t)
           done == [k EXCEPT !.cleanup = "done"]
           failed == [k EXCEPT !.cleanup = "failed"]
           finishing == [k EXCEPT !.phase = "finishing", !.cleanup = "none", !.notice = TRUE]
           out == U!SignOut(failed)
           followed == U!Followed(k)
<1>2. /\ t \in U!Tasks /\ t.asked = "none" /\ t.claim = j.claim /\ t.attempt = j.attempt
      /\ w \in U!Tasks /\ w.asked = "none" /\ w.attempt = "none"
      /\ j.claim # "asking" => w.claim # "asking"
  BY <1>1 DEF U!Tasks, U!Over, U!Free
<1>3. /\ done \in U!Cards /\ failed \in U!Cards /\ out \in U!Cards
      /\ finishing \in U!Cards /\ followed \in U!Cards
  <2>1. done \in U!Cards /\ failed \in U!Cards /\ out \in U!Cards
    BY DEF U!Cards, U!SignOut
  <2>2. finishing \in U!Cards /\ followed \in U!Cards
    BY DEF U!Cards, U!Phase, U!Transferring, U!Followed
  <2> QED BY <2>1, <2>2
<1>4. j.asked \in {"abort", "cancel"}
  BY <1>1 DEF U!Aborted, U!CleanupAnswered
<1>5. /\ k.phase = "cancelled" /\ k.cleanup = "pending" /\ j.claim # "asking" /\ k.poll = "off"
      /\ ~k.lost /\ (j.attempt # "none" => j.asked = "abort")
  BY <1>1, <1>4 DEF U!Cards, U!Tasks, U!Transferring, CardFits
<1>6. \A c \in {done, failed, out} : CardFits(c, w) /\ ~Active(c) /\ (j.attempt = "none" => CardFits(c, t))
  <2> SUFFICES ASSUME NEW c \in {done, failed, out}
               PROVE  CardFits(c, w) /\ ~Active(c) /\ (j.attempt = "none" => CardFits(c, t))
    OBVIOUS
  <2>1. c.phase = "cancelled" /\ c.poll = "off" /\ ~c.lost
    BY <1>5 DEF U!Cards, U!SignOut
  <2> HIDE DEF t, w, done, failed, out
  <2> QED BY <1>2, <1>5, <2>1 DEF CardFits, Active
<1>7. CardFits(finishing, t) /\ ~Active(finishing)
  <2>1. /\ finishing.phase = "finishing" /\ finishing.cleanup = "none" /\ finishing.poll = "off"
        /\ ~finishing.lost /\ finishing.notice
    BY <1>5 DEF U!Cards
  <2> HIDE DEF t, finishing
  <2> QED BY <1>2, <1>5, <2>1 DEF CardFits, Active, U!Transferring
<1>8. j.attempt = "none" /\ j.asked = "cancel" => CardFits(followed, t) /\ ~Active(followed)
  <2>1. /\ followed.phase = "processing" /\ followed.cleanup = "none" /\ ~followed.lost
        /\ followed.ids = k.ids /\ followed.notice /\ (k.ids = "asset" => followed.poll = "on")
    BY <1>5 DEF U!Cards, U!Followed
  <2>2. j.asked = "cancel" => k.ids \in {"upload", "asset"}
    BY <1>1 DEF CardFits, U!Cards
  <2> HIDE DEF t, followed
  <2> QED BY <1>2, <1>5, <2>1, <2>2 DEF CardFits, Active
<1>9. CASE U!Aborted(u)
  <2>1. \/ EmitsOf(U!ShowTask(u, finishing, t), u)
        \/ \E c \in {done, failed, out} : EmitsOf(U!ShowTask(u, c, w), u)
    BY <1>1, <1>9 DEF U!Aborted, EmitsOf
  <2> HIDE DEF t, w, done, failed, finishing, out
  <2> QED BY <1>2, <1>3, <1>6, <1>7, <2>1, ShowEnds
<1>10. CASE U!CleanupAnswered(u)
  <2>1. \/ EmitsOf(U!ShowTask(u, followed, t), u)
        \/ \E c \in {done, failed, out} : EmitsOf(U!ShowTask(u, c, t), u)
    BY <1>1, <1>10 DEF U!CleanupAnswered, EmitsOf
  <2>2. j.attempt = "none" /\ j.asked = "cancel"
    BY <1>1, <1>5, <1>10 DEF U!CleanupAnswered
  <2> HIDE DEF t, w, done, failed, out, followed
  <2> QED BY <1>2, <1>3, <1>6, <1>8, <2>1, <2>2, ShowEnds
<1> QED BY <1>9, <1>10

\* What follows the processing ends.
LEMMA PollKeeps ==
  ASSUME GoodStore(U!Store), NEW u \in Upload, U!RetryAnswered(u) \/ U!PollEnds(u)
  PROVE  Done
<1>1. PICK k \in U!Cards, j \in U!Tasks : k = card[u] /\ j = task[u] /\ CardFits(k, j)
  BY CardIs
<1>2. CASE U!RetryAnswered(u)
  <2> DEFINE t == [j EXCEPT !.asked = "none"]
             polled == [k EXCEPT !.poll = "on"]
             failed == [k EXCEPT !.phase = "failedProcessing"]
             out == U!SignOut(failed)
  <2>1. /\ j.asked = "retry"
        /\ \E c \in {polled, failed, out} : EmitsOf(U!ShowTask(u, c, t), u)
    <3>1. /\ j.asked = "retry"
          /\ \/ U!Put(U!Emit(U!EmitAsset(U!ShowTask(u, polled, t), u)))
             \/ \E c \in {failed, out} : U!Put(U!Emit(U!ShowTask(u, c, t)))
      BY <1>1, <1>2 DEF U!RetryAnswered
    <3> HIDE DEF t, polled, failed, out
    <3> QED BY <3>1 DEF EmitsOf
  <2>2. t \in U!Tasks /\ t.asked = "none" /\ t.claim = j.claim /\ t.attempt = j.attempt
    BY DEF U!Tasks
  <2>3. polled \in U!Cards /\ failed \in U!Cards /\ out \in U!Cards
    <3>1. polled \in U!Cards
      BY DEF U!Cards
    <3>2. failed \in U!Cards
      BY DEF U!Cards, U!Phase
    <3>3. out \in U!Cards
      <4> HIDE DEF failed
      <4> QED BY <3>2 DEF U!Cards, U!SignOut
    <3> QED BY <3>1, <3>2, <3>3
  <2>4. k.phase = "processing" /\ k.poll = "off" /\ k.cleanup = "none" /\ ~k.lost
    BY <1>1, <2>1 DEF U!Cards, CardFits
  <2>5. j.attempt = "none" /\ j.claim # "asking"
    BY <1>1, <2>1, <2>4 DEF U!Tasks, U!Transferring, CardFits
  <2>6. \A c \in {polled, failed, out} : CardFits(c, t) /\ ~Active(c)
    <3>1. polled.phase = "processing" /\ polled.poll = "on" /\ polled.cleanup = "none" /\ ~polled.lost
      BY <2>4 DEF U!Cards
    <3>2. /\ failed.phase = "failedProcessing" /\ failed.poll = "off" /\ failed.cleanup = "none"
          /\ ~failed.lost
      BY <2>4 DEF U!Cards
    <3>3. /\ out.phase = "failedProcessing" /\ out.poll = "off" /\ out.cleanup = "none"
          /\ ~out.lost
      BY <2>4 DEF U!Cards, U!SignOut
    <3> HIDE DEF t, polled, failed, out
    <3> QED BY <2>2, <2>5, <3>1, <3>2, <3>3 DEF CardFits, Active
  <2> HIDE DEF t, polled, failed, out
  <2> QED BY <2>1, <2>2, <2>3, <2>6, ShowEnds
<1>3. CASE U!PollEnds(u)
  <2> DEFINE c == [k EXCEPT !.poll = "off"]
             ready == [c EXCEPT !.phase = "ready"]
             failed == [c EXCEPT !.phase = "failedProcessing"]
             stopped == [c EXCEPT !.poll = "stopped"]
             out == U!SignOut(c)
  <2>1. /\ k.poll = "on"
        /\ \E d \in {ready, failed, stopped, out} : EmitsOf(U!Show(u, d), u)
    BY <1>1, <1>3 DEF U!PollEnds, EmitsOf
  <2>2. ready \in U!Cards /\ failed \in U!Cards /\ stopped \in U!Cards /\ out \in U!Cards
    BY DEF U!Cards, U!Phase, U!Transferring, U!SignOut
  <2>3. k.phase = "processing" /\ k.cleanup = "none" /\ ~k.lost /\ j.asked = "none"
    BY <1>1, <2>1 DEF U!Cards, U!Tasks, CardFits
  <2>4. j.attempt = "none" /\ j.claim # "asking"
    BY <1>1, <2>3 DEF U!Tasks, U!Transferring, CardFits
  <2>5. \A d \in {ready, failed, stopped, out} : CardFits(d, j) /\ ~Active(d)
    <3>1. /\ ready.phase = "ready" /\ ready.poll = "off" /\ ready.cleanup = "none" /\ ~ready.lost
          /\ failed.phase = "failedProcessing" /\ failed.poll = "off"
          /\ failed.cleanup = "none" /\ ~failed.lost
      BY <2>3 DEF U!Cards
    <3>2. /\ stopped.phase = "processing" /\ stopped.poll = "stopped"
          /\ stopped.cleanup = "none" /\ ~stopped.lost
      BY <2>3 DEF U!Cards
    <3>3. out.phase = "processing" /\ out.poll = "off" /\ out.cleanup = "none" /\ ~out.lost /\ out.auth
      BY <2>3 DEF U!Cards, U!SignOut
    <3> HIDE DEF ready, failed, stopped, out
    <3> QED BY <2>3, <2>4, <3>1, <3>2, <3>3 DEF CardFits, Active
  <2> HIDE DEF c, ready, failed, stopped, out
  <2> QED BY <1>1, <2>1, <2>2, <2>5, ShowEnds
<1> QED BY <1>2, <1>3

\* A transfer that was cut off goes on first; one that was signed out keeps all waiting.
LEMMA OnlineKeeps ==
  ASSUME GoodStore(U!Store), U!GoOffline \/ U!GoOnline \/ U!LoadLimit \/ U!OtherTab
  PROVE  Done
<1>1. CASE U!GoOffline \/ U!OtherTab
  <2>1. UNCHANGED <<card, task, waiting, held>> /\ (online' = FALSE \/ online' = online)
    BY <1>1 DEF U!GoOffline, U!OtherTab
  <2>2. GoodStore(U!Store)'
    BY <2>1 DEF GoodStore, OneActive, Stores, U!Store
  <2> QED BY <2>1, <2>2 DEF Done, U!QueueIsServed, U!Busy, U!SignedOut, U!Store
<1>2. CASE U!Put(U!Emit(U!Store))
  BY <1>2, EmitsEnd DEF EmitsOf
<1>3. ASSUME NEW u \in U!Cut, ~U!Busy(U!Store), U!Put(U!Resumed(U!Store, u)) PROVE Done
  <2>1. u \in Upload /\ card[u].phase = "failedUpload" /\ card[u].lost
    BY <1>3 DEF U!Cut
  <2>2. CASE U!CanResume(U!Store, u)
    <3>1. GoodStore(U!Store)' /\ U!Busy(U!Store)'
      BY <1>3, <2>1, <2>2, ResumedKeeps
    <3> QED BY <3>1 DEF Done, U!QueueIsServed, U!Busy, U!Store
  <2>3. CASE ~U!CanResume(U!Store, u)
    <3>1. GoodStore(U!Store)' /\ UNCHANGED card
      BY <1>3, <2>1, <2>3, ResumedKeeps
    <3>2. card[u].auth
      BY <2>1, <2>3, CardIs DEF CardFits, U!CanResume, U!Store
    <3> QED BY <2>1, <3>1, <3>2 DEF Done, U!QueueIsServed, U!SignedOut, U!Listed, U!Store
  <2> QED BY <2>2, <2>3
<1> QED BY <1>1, <1>2, <1>3 DEF U!GoOnline, U!LoadLimit

\* The store is good, and what goes on around it has its types.
StudioInv ==
    /\ GoodStore(U!Store)
    /\ online \in BOOLEAN /\ overLimit \subseteq TooLarge /\ elsewhere \subseteq U!File

LEMMA StudioInit == U!Init => StudioInv /\ U!QueueIsServed
<1> SUFFICES ASSUME U!Init PROVE StudioInv /\ U!QueueIsServed
  OBVIOUS
<1>1. U!NoCard \in U!Cards /\ U!NoTask \in U!Tasks /\ CardFits(U!NoCard, U!NoTask) /\ ~Active(U!NoCard)
  BY DEF U!NoCard, U!NoTask, U!Cards, U!Tasks, U!Phase, U!Transferring, CardFits, Active
<1>2. \A u \in Upload : card[u] = U!NoCard /\ task[u] = U!NoTask
  BY DEF U!Init
<1>3. U!Store \in Stores
  <2>1. card \in [Upload -> U!Cards] /\ task \in [Upload -> U!Tasks]
    BY <1>1 DEF U!Init
  <2>2. waiting \in Seq(Upload) /\ held \in BOOLEAN
    <3>1. waiting = <<>> /\ held = FALSE
      BY DEF U!Init
    <3>2. <<>> \in Seq(Upload)
      OBVIOUS
    <3> QED BY <3>1, <3>2
  <2> QED BY <2>1, <2>2 DEF U!Store, Stores
<1>4. OneActive(U!Store) /\ \A u \in Upload : CardFits(U!Store.card[u], U!Store.task[u])
  BY <1>1, <1>2 DEF OneActive, U!Store
<1> QED BY <1>3, <1>4 DEF StudioInv, GoodStore, U!Init, U!QueueIsServed

LEMMA StudioDone == ASSUME StudioInv, [U!Next]_(U!vars) PROVE Done
<1> USE DEF StudioInv
<1>1. ASSUME NEW u \in Upload,
             \/ U!Enqueue(u) \/ U!RemoveQueued(u) \/ U!Pause(u) \/ U!Resume(u) \/ U!Cancel(u)
             \/ U!RetryCleanup(u) \/ U!ResumeTransfer(u) \/ U!RetryProcessing(u) \/ U!Refresh(u)
             \/ U!Dismiss(u)
      PROVE  Done
  BY <1>1, EnqueueKeeps, RemoveQueuedKeeps, PauseKeeps, UserMovesKeep, ResumeTransferKeeps,
     DismissKeeps
<1>2. ASSUME NEW u \in Upload,
             \/ U!Claimed(u) \/ U!LearnId(u) \/ U!Succeed(u) \/ U!Fail(u) \/ U!Paused(u)
             \/ U!CommittedRead(u) \/ U!Transferred(u) \/ U!Aborted(u) \/ U!CleanupAnswered(u)
             \/ U!RetryAnswered(u) \/ U!PollEnds(u)
      PROVE  Done
  BY <1>2, ClaimedKeeps, TransferKeeps, FailKeeps, PausedKeeps, CommittedReadKeeps, CleanupKeeps,
     PollKeeps
<1>3. CASE UNCHANGED U!vars
  BY <1>3 DEF U!vars, Done, GoodStore, Stores, OneActive, U!QueueIsServed, U!Busy, U!SignedOut,
     U!Store
<1> QED BY <1>1, <1>2, <1>3, ContinueKeeps, OnlineKeeps DEF U!Next

LEMMA StudioStep == ASSUME StudioInv, [U!Next]_(U!vars) PROVE StudioInv'
<1>1. GoodStore(U!Store)'
  BY StudioDone DEF Done
<1>2. \/ U!Quiet \/ U!GoOffline \/ U!GoOnline \/ U!LoadLimit \/ U!OtherTab \/ UNCHANGED U!vars
  BY DEF U!Next, U!Enqueue, U!RemoveQueued, U!Pause, U!Resume, U!Cancel, U!RetryCleanup,
     U!ResumeTransfer, U!RetryProcessing, U!Refresh, U!Dismiss, U!Claimed, U!LearnId, U!Succeed,
     U!Fail, U!Paused, U!CommittedRead, U!Transferred, U!Aborted, U!CleanupAnswered,
     U!RetryAnswered, U!PollEnds, U!ContinueQueue
<1>3. online' \in BOOLEAN /\ overLimit' \subseteq TooLarge
  BY <1>2 DEF StudioInv, U!Quiet, U!GoOffline, U!GoOnline, U!LoadLimit, U!OtherTab, U!vars
<1>4. elsewhere' \subseteq U!File
  BY <1>2 DEF StudioInv, U!Quiet, U!GoOffline, U!GoOnline, U!LoadLimit, U!OtherTab, U!vars
<1> QED BY <1>1, <1>3, <1>4 DEF StudioInv, U!File, U!FileOf

LEMMA StudioTypes == StudioInv => U!TypeOK
BY DEF StudioInv, GoodStore, Stores, U!Store, U!TypeOK

LEMMA StudioIsTrue == StudioInv => U!OneTransfer /\ U!ProcessingIsFollowed
<1> SUFFICES ASSUME StudioInv PROVE U!OneTransfer /\ U!ProcessingIsFollowed
  OBVIOUS
<1>1. U!OneTransfer
  BY DEF StudioInv, GoodStore, OneActive, Active, U!Store, U!Transferring, U!OneTransfer,
     U!FinishesCancelled
<1>2. U!ProcessingIsFollowed
  BY CardIs DEF StudioInv, CardFits, U!ProcessingIsFollowed
<1> QED BY <1>1, <1>2

\* At most one upload of a tab transfers, but for those that finish although they were
\* cancelled, and a card that shows processing is polled, asked for again or says that
\* the polls or the session ended, but for one whose cancel was too late and whose
\* asset's id is not known: for any uploads and files, whatever answers late
\* (upload-store.ts).
THEOREM CardsStayTrue == U!Spec => [](U!OneTransfer /\ U!ProcessingIsFollowed)
BY StudioInit, StudioStep, StudioIsTrue, PTL DEF U!Spec

LEMMA QueueStep ==
  ASSUME TooLarge = {}, StudioInv, U!QueueIsServed, [U!Next]_(U!vars)
  PROVE  StudioInv' /\ U!QueueIsServed'
<1>1. overLimit = {}
  BY DEF StudioInv
<1> QED BY <1>1, StudioStep, StudioDone DEF Done

\* If no file is over the server's limit, nothing waits once it could start (advance).
\* A refused file starts nothing, and the next waits until something else happens.
THEOREM QueueStaysServed == ASSUME TooLarge = {} PROVE U!Spec => []U!QueueIsServed
<1>1. StudioInv /\ U!QueueIsServed /\ [U!Next]_(U!vars) => StudioInv' /\ U!QueueIsServed'
  BY QueueStep
<1> QED BY StudioInit, <1>1, PTL DEF U!Spec
=============================================================================
