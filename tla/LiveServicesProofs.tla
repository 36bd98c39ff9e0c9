------------------------- MODULE LiveServicesProofs -------------------------
(***************************************************************************)
(* Proofs about the parts of MCLiveServices, for any values of its         *)
(* constants. First Delivery, for any object, any number of requests and   *)
(* any Range headers: a response that ends is exactly what was asked for,  *)
(* and a download has someone who waits for it. Then UploadSessions: what  *)
(* a completed upload stored is kept while its asset needs it. The types   *)
(* of WebhookDelivery come from BackendProofs.                             *)
(***************************************************************************)
EXTENDS MCLiveServices, TLAPS

B == INSTANCE BackendProofs WITH
        Session <- {}, MaxUses <- 0, MaxPasswords <- 0, MaxRemovals <- 0,
        Grid <- 1, MinLeft <- 1, MinAsk <- 1, DefaultAsk <- 1,
        Cap <- 1, GatedCap <- 1, SignedCap <- 1, Lifetimes <- {}, ShareEnd <- 0,
        Job <- {}, StateTTL <- 0, OwnerTTL <- 0, UnclaimedTTL <- 0, QueryTime <- 0,
        CacheEnd <- 0, MaxVersions <- 0, MaxFaults <- MaxDeliveryFaults,
        Stored <- {}, Grace <- 1, CommitDelay <- 0, ReportEnd <- 0,
        password <- part, removed <- part, live <- part, used <- part, resetUsed <- part,
        invite <- part, req <- part, by <- part, since <- part, late <- part,
        unended <- part, removals <- part, resets <- part, joins <- part, shareTime <- part,
        sharePc <- part, gated <- part, signedTo <- part, lifetime <- part,
        limit <- part, looked <- part, slot <- part, kept <- part, minting <- part,
        minted <- part, again <- part, phase <- part, crashed <- part, exit <- part,
        httpDone <- part, jobsDone <- part, handler <- part, conn <- part, jobAt <- part,
        counted <- part, unheard <- part, buffer <- part, writing <- part, last <- part,
        told <- part, cacheTime <- part, versions <- part, claimedAt <- part,
        dropping <- part, owners <- part, cached <- part, asking <- part, began <- part,
        result <- part, dropped <- part, verdict <- part, clock <- part, upload <- part,
        pending <- part, updated <- part, tracked <- part, unpinned <- part,
        atIndexer <- part, event <- part, step <- part, started <- part, owned <- part,
        db <- part, copy <- part, unread <- part, report <- part, ever <- part,
        always <- part, missed <- unread,
        job <- deliveryJob, faults <- deliveryFaults

----------------------------------------------------------------------------
(***************************************************************************)
(* parseRange.                                                             *)
(***************************************************************************)

\* What parseRange makes of a header, of an object of so many bytes: the whole object
\* only if it is no proper range, no answer only if it names no byte, and else exactly
\* the bytes it names.
RightRange(h, total, p) ==
    \/ p = Whole /\ ~Proper(h)
    \/ p = Unsatisfiable /\ Wanted(h, total) = {}
    \/ /\ p \in Windows /\ p.kind = "part" /\ p.start <= p.end
       /\ Proper(h) /\ Wanted(h, total) = p.start .. p.end

LEMMA RangeIsRight ==
    ASSUME DeliveryAssumption, NEW h \in Headers, NEW total \in Nat
    PROVE  RightRange(h, total, ParseRange(h, total))
<1> USE DEF RightRange
<1>1. h.kind \in {"none", "ignored", "window", "from", "suffix"}
    BY DEF Headers
<1>2. CASE h.kind \in {"none", "ignored"}
    BY <1>2 DEF ParseRange, Proper
<1>3. CASE h.kind = "suffix"
  <2>1. h.last \in Nat /\ ParseRange(h, total) = Suffix(h.last, total)
      BY <1>3 DEF Headers, ParseRange, DeliveryAssumption
  <2>2. CASE h.last = 0
      BY <1>3, <2>1, <2>2 DEF Suffix, Proper
  <2>3. CASE h.last # 0 /\ total = 0
      BY <1>3, <2>1, <2>3 DEF Suffix, Wanted
  <2>4. CASE h.last # 0 /\ total # 0
    <3> DEFINE from == IF h.last < total THEN total - h.last ELSE 0
    <3>1. ParseRange(h, total) = Part(from, total - 1)
        BY <2>1, <2>4 DEF Suffix
    <3>2. from \in Nat /\ from <= total - 1
        BY <2>1, <2>4
    <3>3. Wanted(h, total) = from .. total - 1
        BY <1>3, <2>1, <2>4 DEF Wanted
    <3>4. Proper(h)
        BY <1>3, <2>1, <2>4 DEF Proper
    <3> HIDE DEF from
    <3>5. QED
        BY <3>1, <3>2, <3>3, <3>4 DEF Part, Windows
  <2>5. QED
      BY <2>2, <2>3, <2>4
<1>4. CASE h.kind \in {"window", "from"}
  <2> DEFINE last == IF h.kind = "window" THEN h.last ELSE total - 1
  <2>1. /\ h.first \in Nat /\ last \in Int
        /\ ParseRange(h, total) = FromTo(h.first, last, total)
      BY <1>4 DEF Headers, ParseRange, DeliveryAssumption
  <2>2. Wanted(h, total) = {b \in 0 .. total - 1 : h.first <= b /\ b <= last}
      BY <1>4, <2>1 DEF Wanted
  <2>3. CASE h.first >= total
      BY <2>1, <2>2, <2>3 DEF FromTo
  <2>4. CASE ~(h.first >= total) /\ h.first > last
      BY <1>4, <2>1, <2>4 DEF FromTo, Proper
  <2>5. CASE ~(h.first >= total) /\ ~(h.first > last)
    <3>1. ParseRange(h, total) = Part(h.first, Least(last, total - 1))
        BY <2>1, <2>5 DEF FromTo
    <3>2. Least(last, total - 1) \in Int /\ h.first <= Least(last, total - 1)
        BY <2>1, <2>5 DEF Least
    <3>3. Wanted(h, total) = h.first .. Least(last, total - 1)
        BY <2>1, <2>2, <2>5 DEF Least
    <3>4. Proper(h)
        BY <1>4, <2>1, <2>5 DEF Proper
    <3>5. QED
        BY <2>1, <3>1, <3>2, <3>3, <3>4 DEF Part, Windows
  <2>6. QED
      BY <2>3, <2>4, <2>5
<1>5. QED
    BY <1>1, <1>2, <1>3, <1>4

----------------------------------------------------------------------------
(***************************************************************************)
(* The inductive invariant.                                                *)
(***************************************************************************)

\* What a handler streams is what its request is to get.
Proceeds(r, w) ==
    /\ ~ask[r].head
    /\ \/ w = All /\ ~Proper(ask[r].range)
       \/ /\ w.kind = "part" /\ w.start <= w.end
          /\ Proper(ask[r].range) /\ Wanted(ask[r].range, size) = w.start .. w.end

Early == {"new", "sizing", "fetching", "first"}

Streams == {"first", "reading", "blocked"}

\* Of one request: nothing is sent before the first chunk, only a GET asks for the size,
\* only one that gets the whole object waits for its download, and what is streamed or
\* ended is right.
OneInv(r) ==
    /\ pc[r] \in Early => status[r] = 0 /\ sent[r] = 0 /\ body[r] = "open"
    /\ pc[r] = "sizing" => ~ask[r].head
    /\ pc[r] = "fetching" => ~Proper(ask[r].range)
    /\ pc[r] \in Streams =>
          body[r] = "open" /\ Proceeds(r, window[r]) /\ sent[r] <= Length(window[r])
    /\ body[r] = "ended" => Exact(r)

\* A download has someone who waits for it, and ends in memory only if it is small.
SharedInv ==
    /\ (Fetching # {}) <=> (fetch # "none")
    /\ cached => size <= MaxBuffered
    /\ fetch = "reading" => size <= MaxBuffered

IInv == TypeOK /\ (\A r \in Request : OneInv(r)) /\ SharedInv

----------------------------------------------------------------------------
(***************************************************************************)
(* What the ways to answer keep of it, whoever answers.                    *)
(***************************************************************************)
Responses == <<pc, window, status, sent, body>>

ResponsesTyped ==
    /\ pc \in [Request -> Places] /\ window \in [Request -> Windows]
    /\ status \in [Request -> Statuses] /\ sent \in [Request -> Nat]
    /\ body \in [Request -> {"open", "ended", "cut"}]

\* The whole object, also of no bytes, is a window.
LEMMA AllIsWindow ==
    ASSUME size \in Nat
    PROVE  All \in Windows /\ Length(All) = size /\ All.kind = "whole"
BY DEF All, Windows, Length

\* A request whose response does not move keeps its part of the invariant.
LEMMA Frame ==
    ASSUME NEW r \in Request, OneInv(r), UNCHANGED <<size, ask>>,
           pc'[r] = pc[r], window'[r] = window[r], status'[r] = status[r],
           sent'[r] = sent[r], body'[r] = body[r]
    PROVE  OneInv(r)'
BY DEF OneInv, Early, Streams, Proceeds, Exact, All, Length, Proper, Wanted

\* A whole response, with the bytes w.
Complete(r, code, w) ==
    \/ code = 200 /\ ~Proper(ask[r].range) /\ (ask[r].head \/ Length(w) = size)
    \/ /\ code = 206 /\ Proper(ask[r].range) /\ ~ask[r].head /\ w.start <= w.end
       /\ Wanted(ask[r].range, size) = w.start .. w.end

LEMMA CompletesInv ==
    ASSUME ResponsesTyped, \A r \in Request : OneInv(r), UNCHANGED <<size, ask>>,
           NEW rs \in SUBSET Request, NEW code \in Statuses, NEW w \in Windows,
           Length(w) \in Nat, Completes(rs, code, w), \A r \in rs : Complete(r, code, w)
    PROVE  ResponsesTyped' /\ \A r \in Request : OneInv(r)'
<1>1. ResponsesTyped'
    BY DEF Completes, ResponsesTyped, Places
<1>2. ASSUME NEW r \in rs PROVE OneInv(r)'
  <2>1. /\ pc'[r] = "over" /\ status'[r] = code /\ body'[r] = "ended"
        /\ ~ask[r].head => window'[r] = w /\ sent'[r] = Length(w)
      BY <1>2 DEF Completes
  <2>2. Complete(r, code, w)
      BY <1>2
  <2>3. Exact(r)'
      BY <2>1, <2>2 DEF Exact, Complete, Proper, Wanted, Length, Windows
  <2>4. QED
      BY <2>1, <2>3 DEF OneInv, Early, Streams
<1>3. ASSUME NEW r \in Request \ rs PROVE OneInv(r)'
    BY <1>3, Frame DEF Completes
<1>4. QED
    BY <1>1, <1>2, <1>3

LEMMA RefusesInv ==
    ASSUME ResponsesTyped, \A r \in Request : OneInv(r), UNCHANGED <<size, ask>>,
           NEW rs \in SUBSET Request, NEW code \in {416, 502}, Refuses(rs, code),
           code = 416 => \A r \in rs : Wanted(ask[r].range, size) = {}
    PROVE  ResponsesTyped' /\ \A r \in Request : OneInv(r)'
<1>1. ResponsesTyped'
    BY DEF Refuses, ResponsesTyped, Places, Statuses
<1>2. ASSUME NEW r \in rs PROVE OneInv(r)'
  <2>1. pc'[r] = "over" /\ status'[r] = code /\ body'[r] = "ended"
      BY <1>2 DEF Refuses
  <2>2. Exact(r)'
      BY <2>1 DEF Exact, Wanted
  <2>3. QED
      BY <2>1, <2>2 DEF OneInv, Early, Streams
<1>3. ASSUME NEW r \in Request \ rs PROVE OneInv(r)'
    BY <1>3, Frame DEF Refuses
<1>4. QED
    BY <1>1, <1>2, <1>3

LEMMA GoesInv ==
    ASSUME ResponsesTyped, \A r \in Request : OneInv(r), UNCHANGED <<size, ask>>,
           NEW q \in Request, NEW where \in {"sizing", "fetching", "first"},
           NEW w \in Windows, Length(w) >= 0, pc[q] \in Early, Goes({q}, where, w),
           where = "sizing" => ~ask[q].head,
           where = "fetching" => ~Proper(ask[q].range),
           where = "first" => Proceeds(q, w)
    PROVE  ResponsesTyped' /\ \A r \in Request : OneInv(r)'
<1>1. ResponsesTyped'
    BY DEF Goes, ResponsesTyped, Places
<1>2. OneInv(q)'
  <2>1. /\ pc'[q] = where /\ window'[q] = w
        /\ status'[q] = 0 /\ sent'[q] = 0 /\ body'[q] = "open"
      BY DEF Goes, OneInv
  <2>2. QED
      BY <2>1 DEF OneInv, Early, Streams, Proceeds, All, Length, Proper, Wanted
<1>3. ASSUME NEW r \in Request, r # q PROVE OneInv(r)'
    BY <1>3, Frame DEF Goes
<1>4. QED
    BY <1>1, <1>2, <1>3

LEMMA StreamsAllInv ==
    ASSUME size \in Nat, ResponsesTyped, \A r \in Request : OneInv(r), UNCHANGED <<size, ask>>,
           NEW rs \in SUBSET Request, StreamsAll(rs),
           \A r \in rs : pc[r] \in Early /\ ~Proper(ask[r].range)
    PROVE  ResponsesTyped' /\ \A r \in Request : OneInv(r)'
<1>1. ResponsesTyped'
    BY AllIsWindow DEF StreamsAll, ResponsesTyped, Places, Statuses
<1>2. ASSUME NEW r \in rs PROVE OneInv(r)'
  <2>1. sent'[r] = 0 /\ ~Proper(ask[r].range)
      BY <1>2 DEF StreamsAll, OneInv
  <2>2. CASE ask[r].head
    <3>1. pc'[r] = "over" /\ status'[r] = 200 /\ body'[r] = "ended"
        BY <1>2, <2>2 DEF StreamsAll
    <3>2. QED
        BY <2>1, <2>2, <3>1 DEF OneInv, Early, Streams, Exact, Proper
  <2>3. CASE ~ask[r].head
    <3>1. pc'[r] = "first" /\ window'[r] = All /\ status'[r] = 0 /\ body'[r] = "open"
        BY <1>2, <2>3 DEF StreamsAll, OneInv
    <3>2. Proceeds(r, window[r])' /\ Length(window'[r]) = size
        BY <2>1, <2>3, <3>1, AllIsWindow DEF Proceeds, All, Proper, Length
    <3>3. (sent[r] <= Length(window[r]))'
        BY <2>1, <3>2 DEF Length
    <3>4. QED
        BY <2>1, <3>1, <3>2, <3>3 DEF OneInv, Early, Streams
  <2>4. QED
      BY <2>2, <2>3
<1>3. ASSUME NEW r \in Request \ rs PROVE OneInv(r)'
    BY <1>3, Frame DEF StreamsAll
<1>4. QED
    BY <1>1, <1>2, <1>3

----------------------------------------------------------------------------
(***************************************************************************)
(* The invariant holds in the beginning, and every step keeps it.          *)
(***************************************************************************)

\* What the invariant and the assumption say of the data.
LEMMA Facts ==
    ASSUME DeliveryAssumption, IInv
    PROVE  /\ size \in Nat /\ size \in Sizes /\ MaxBuffered \in Nat
           /\ ask \in [Request -> Asks] /\ \A r \in Request : ask[r].range \in Headers
           /\ ResponsesTyped /\ \A r \in Request : OneInv(r)
           /\ fetch \in {"none", "opening", "reading"} /\ cached \in BOOLEAN
BY DEF IInv, TypeOK, DeliveryAssumption, ResponsesTyped, Asks

LEMMA InitInv == ASSUME DeliveryAssumption PROVE Init => IInv
<1>1. SUFFICES ASSUME Init PROVE IInv
    OBVIOUS
<1>2. Whole \in Windows
    BY DEF Whole, Windows
<1>3. TypeOK
    BY <1>1, <1>2 DEF Init, TypeOK, Places, Statuses
<1>4. \A r \in Request : OneInv(r)
    BY <1>1 DEF Init, OneInv, Early, Streams
<1>5. SharedInv
    BY <1>1 DEF Init, SharedInv, Fetching
<1>6. QED
    BY <1>3, <1>4, <1>5 DEF IInv

\* What is left to show of a step once its responses are right.
LEMMA Together ==
    ASSUME IInv, ResponsesTyped', (\A r \in Request : OneInv(r))', UNCHANGED <<size, ask>>,
           cached' \in BOOLEAN, fetch' \in {"none", "opening", "reading"},
           gone' \in [Request -> BOOLEAN], heard' \in [Request -> BOOLEAN], SharedInv'
    PROVE  IInv'
BY DEF IInv, TypeOK, ResponsesTyped

\* serveWhole, for a request that is to have the whole object.
LEMMA ServeWholeInv ==
    ASSUME DeliveryAssumption, IInv, NEW r \in Request, NEW opened \in BOOLEAN,
           pc[r] \in {"new", "sizing"}, ~Proper(ask[r].range),
           opened => ~ask[r].head,
           ServeWhole(r, opened), UNCHANGED <<size, cached, ask, gone, heard>>
    PROVE  IInv'
<1>1. /\ size \in Nat /\ ResponsesTyped /\ (\A q \in Request : OneInv(q)) /\ SharedInv
      /\ All \in Windows /\ Length(All) = size /\ pc[r] # "fetching" /\ pc[r] \in Early
      /\ window[r] \in Windows
    BY Facts, AllIsWindow DEF IInv, Early, ResponsesTyped
<1>2. /\ (Fetching # {}) <=> (fetch # "none")
      /\ cached => size <= MaxBuffered
      /\ fetch = "reading" => size <= MaxBuffered
    BY <1>1 DEF SharedInv
<1>3. CASE cached /\ Completes({r}, 200, All) /\ UNCHANGED fetch
  <2>1. Complete(r, 200, All)
      BY <1>1 DEF Complete
  <2>2. ResponsesTyped' /\ (\A q \in Request : OneInv(q))'
    <3>1. /\ {r} \in SUBSET Request /\ 200 \in Statuses /\ Length(All) \in Nat
          /\ UNCHANGED <<size, ask>> /\ \A q \in {r} : Complete(q, 200, All)
        BY <1>1, <2>1 DEF Statuses
    <3>2. Completes({r}, 200, All)
        BY <1>3
    <3>3. QED
        BY <1>1, <3>1, <3>2, CompletesInv
  <2>3. Fetching' = Fetching
      BY <1>1, <1>3 DEF Completes, Fetching, ResponsesTyped
  <2>4. SharedInv'
      BY <1>2, <1>3, <2>3 DEF SharedInv
  <2>5. QED
      BY <1>3, <2>2, <2>4, Together DEF IInv, TypeOK
<1>4. ASSUME Goes({r}, "fetching", window[r]),
             fetch' \in {"opening", "reading"}, fetch' = "reading" => size <= MaxBuffered
      PROVE  IInv'
  <2>1. ResponsesTyped' /\ (\A q \in Request : OneInv(q))'
    <3>1. ResponsesTyped'
        BY <1>1, <1>4 DEF Goes, ResponsesTyped, Places
    <3>2. OneInv(r)'
        BY <1>1, <1>4 DEF Goes, OneInv, Early, Streams, Proper, ResponsesTyped
    <3>3. ASSUME NEW q \in Request, q # r PROVE OneInv(q)'
        BY <1>1, <1>4, <3>3, Frame DEF Goes
    <3>4. QED
        BY <3>1, <3>2, <3>3
  <2>2. r \in Fetching'
      BY <1>1, <1>4 DEF Goes, Fetching, ResponsesTyped
  <2>3. SharedInv'
      BY <1>2, <1>4, <2>2 DEF SharedInv
  <2>4. QED
      BY <1>4, <2>1, <2>3, Together DEF IInv, TypeOK
<1>5. CASE /\ ~cached /\ (fetch # "none" \/ ~opened)
           /\ Goes({r}, "fetching", window[r])
           /\ fetch' = IF fetch = "none" THEN "opening" ELSE fetch
    BY <1>2, <1>4, <1>5 DEF IInv, TypeOK
<1>6. CASE ~cached /\ fetch = "none" /\ opened /\ size > MaxBuffered
           /\ StreamsAll({r}) /\ UNCHANGED fetch
  <2>1. ResponsesTyped' /\ (\A q \in Request : OneInv(q))'
      BY <1>1, <1>6, StreamsAllInv
  <2>2. Fetching' = Fetching
      BY <1>1, <1>6 DEF StreamsAll, Fetching, ResponsesTyped
  <2>3. SharedInv'
      BY <1>2, <1>6, <2>2 DEF SharedInv
  <2>4. QED
      BY <1>6, <2>1, <2>3, Together DEF IInv, TypeOK
<1>7. CASE /\ ~cached /\ fetch = "none" /\ opened /\ ~(size > MaxBuffered)
           /\ Goes({r}, "fetching", window[r]) /\ fetch' = "reading"
    BY <1>1, <1>4, <1>7, Facts
<1>8. QED
    BY <1>3, <1>5, <1>6, <1>7 DEF ServeWhole

\* serveRange.
LEMMA ServeRangeInv ==
    ASSUME DeliveryAssumption, IInv, NEW r \in Request, NEW opened \in BOOLEAN,
           pc[r] \in {"new", "sizing"}, ~ask[r].head,
           ServeRange(r, opened), UNCHANGED <<size, cached, ask, gone, heard>>
    PROVE  IInv'
<1> DEFINE p == ParseRange(ask[r].range, size)
<1>1. /\ size \in Nat /\ ResponsesTyped /\ (\A q \in Request : OneInv(q)) /\ SharedInv
      /\ ask[r].range \in Headers /\ pc[r] # "fetching" /\ pc[r] \in Early
    BY Facts DEF IInv, Early
<1>2. RightRange(ask[r].range, size, p)
    BY <1>1, RangeIsRight
<1>3. /\ p.kind = "whole" => ServeWhole(r, opened)
      /\ p.kind = "unsatisfiable" => Refuses({r}, 416) /\ UNCHANGED fetch
      /\ p.kind = "part" =>
            /\ IF opened THEN Goes({r}, "first", p) ELSE Completes({r}, 206, p)
            /\ UNCHANGED fetch
    BY DEF ServeRange
<1> HIDE DEF p
<1>4. CASE p = Whole /\ ~Proper(ask[r].range)
    BY <1>1, <1>3, <1>4, ServeWholeInv DEF Whole
<1>5. ASSUME ResponsesTyped', (\A q \in Request : OneInv(q))',
             Fetching' = Fetching, UNCHANGED fetch
      PROVE  IInv'
  <2>1. SharedInv'
      BY <1>1, <1>5 DEF SharedInv
  <2>2. QED
      BY <1>5, <2>1, Together DEF IInv, TypeOK
<1>6. CASE p = Unsatisfiable /\ Wanted(ask[r].range, size) = {}
  <2>1. Refuses({r}, 416) /\ UNCHANGED fetch
      BY <1>3, <1>6 DEF Unsatisfiable
  <2>2. ResponsesTyped' /\ (\A q \in Request : OneInv(q))'
      BY <1>1, <1>6, <2>1, RefusesInv
  <2>3. Fetching' = Fetching
      BY <1>1, <2>1 DEF Refuses, Fetching, ResponsesTyped
  <2>4. QED
      BY <1>5, <2>1, <2>2, <2>3
<1>7. CASE /\ p \in Windows /\ p.kind = "part" /\ p.start <= p.end
           /\ Proper(ask[r].range) /\ Wanted(ask[r].range, size) = p.start .. p.end
  <2>1. Length(p) \in Nat /\ Proceeds(r, p) /\ Complete(r, 206, p)
      BY <1>7 DEF Length, Windows, Proceeds, Complete
  <2>2. CASE opened
    <3>1. Goes({r}, "first", p) /\ UNCHANGED fetch
        BY <1>3, <1>7, <2>2
    <3>2. ResponsesTyped' /\ (\A q \in Request : OneInv(q))'
      <4>1. Length(p) >= 0 /\ UNCHANGED <<size, ask>>
          BY <2>1
      <4>2. QED
          BY <1>1, <1>7, <2>1, <3>1, <4>1, GoesInv
    <3>3. Fetching' = Fetching
        BY <1>1, <3>1 DEF Goes, Fetching, ResponsesTyped
    <3>4. QED
        BY <1>5, <3>1, <3>2, <3>3
  <2>3. CASE ~opened
    <3>1. Completes({r}, 206, p) /\ UNCHANGED fetch
        BY <1>3, <1>7, <2>3
    <3>2. ResponsesTyped' /\ (\A q \in Request : OneInv(q))'
      <4>1. /\ {r} \in SUBSET Request /\ 206 \in Statuses
            /\ UNCHANGED <<size, ask>> /\ \A q \in {r} : Complete(q, 206, p)
          BY <2>1 DEF Statuses
      <4>2. QED
          BY <1>1, <1>7, <2>1, <3>1, <4>1, CompletesInv
    <3>3. Fetching' = Fetching
        BY <1>1, <3>1 DEF Completes, Fetching, ResponsesTyped
    <3>4. QED
        BY <1>5, <3>1, <3>2, <3>3
  <2>4. QED
      BY <2>2, <2>3
<1>8. QED
    BY <1>2, <1>4, <1>6, <1>7 DEF RightRange

\* A request whose header is read is to have the whole object if there is none.
LEMMA NoHeader ==
    ASSUME NEW h \in Headers, h.kind = "none"
    PROVE  ~Proper(h)
BY DEF Proper

LEMMA StartInv == ASSUME DeliveryAssumption, IInv, NEW r \in Request, Start(r) PROVE IInv'
<1>1. /\ pc[r] = "new" /\ ask[r] \in Asks /\ ask[r].range \in Headers
      /\ UNCHANGED <<size, cached, ask, gone, heard>>
    BY Facts DEF Start
<1>2. CASE ask[r].range.kind = "none" /\ ServeWhole(r, FALSE)
  <2>1. ~Proper(ask[r].range)
      BY <1>1, <1>2, NoHeader
  <2>2. QED
      BY <1>1, <1>2, <2>1, ServeWholeInv
<1>3. ASSUME ask[r].range.kind # "none" PROVE ~ask[r].head
    BY <1>1, <1>3 DEF Asks
<1>4. CASE ask[r].range.kind # "none" /\ ServeRange(r, FALSE)
    BY <1>1, <1>3, <1>4, ServeRangeInv
<1>5. CASE ask[r].range.kind # "none" /\ Goes({r}, "sizing", window[r]) /\ UNCHANGED fetch
  <2>1. ResponsesTyped /\ (\A q \in Request : OneInv(q)) /\ SharedInv
      BY Facts DEF IInv
  <2>2. ResponsesTyped'
      BY <1>5, <2>1 DEF Goes, ResponsesTyped, Places
  <2>3. OneInv(r)'
      BY <1>1, <1>3, <1>5, <2>1 DEF Goes, OneInv, Early, Streams, ResponsesTyped
  <2>4. ASSUME NEW q \in Request, q # r PROVE OneInv(q)'
      BY <1>1, <1>5, <2>1, <2>4, Frame DEF Goes
  <2>5. Fetching' = Fetching
      BY <1>1, <1>5, <2>1 DEF Goes, Fetching, ResponsesTyped
  <2>6. SharedInv'
      BY <1>1, <1>5, <2>1, <2>5 DEF SharedInv
  <2>7. QED
      BY <1>1, <1>5, <2>2, <2>3, <2>4, <2>6, Together DEF IInv, TypeOK
<1>6. QED
    BY <1>2, <1>4, <1>5 DEF Start

LEMMA SizedInv == ASSUME DeliveryAssumption, IInv, NEW r \in Request, Sized(r) PROVE IInv'
<1>1. pc[r] = "sizing" /\ ServeRange(r, TRUE) /\ UNCHANGED <<size, cached, ask, gone, heard>>
    BY DEF Sized
<1>2. ~ask[r].head
    BY <1>1 DEF IInv, OneInv
<1>3. QED
    BY <1>1, <1>2, ServeRangeInv

LEMMA SizeFailsInv == ASSUME DeliveryAssumption, IInv, NEW r \in Request, SizeFails(r) PROVE IInv'
<1>1. /\ pc[r] = "sizing" /\ Refuses({r}, 502)
      /\ UNCHANGED <<size, cached, fetch, ask, gone, heard>>
    BY DEF SizeFails
<1>2. ResponsesTyped /\ (\A q \in Request : OneInv(q)) /\ SharedInv
    BY Facts DEF IInv
<1>3. {r} \in SUBSET Request /\ UNCHANGED <<size, ask>>
    BY <1>1
<1>4. ResponsesTyped' /\ (\A q \in Request : OneInv(q))'
    BY <1>1, <1>2, <1>3, RefusesInv
<1>5. Fetching' = Fetching
    BY <1>1, <1>2 DEF Refuses, Fetching, ResponsesTyped
<1>6. SharedInv'
    BY <1>1, <1>2, <1>5 DEF SharedInv
<1>7. QED
    BY <1>1, <1>4, <1>6, Together DEF IInv, TypeOK

\* Everyone who waits for the download is to have the whole object.
LEMMA WaitersWantAll ==
    ASSUME DeliveryAssumption, IInv
    PROVE  /\ Fetching \in SUBSET Request
           /\ \A r \in Fetching : pc[r] \in Early /\ ~Proper(ask[r].range)
BY DEF IInv, OneInv, Fetching, Early

LEMMA FetchOpensInv == ASSUME DeliveryAssumption, IInv, FetchOpens PROVE IInv'
<1>1. /\ size \in Nat /\ MaxBuffered \in Nat /\ ResponsesTyped
      /\ (\A q \in Request : OneInv(q)) /\ SharedInv
    BY Facts DEF IInv
<1>2. fetch = "opening" /\ UNCHANGED <<size, cached, ask, gone, heard>>
    BY DEF FetchOpens
<1>3. CASE size > MaxBuffered /\ StreamsAll(Fetching) /\ fetch' = "none"
  <2>1. ResponsesTyped' /\ (\A q \in Request : OneInv(q))'
      BY <1>1, <1>2, <1>3, WaitersWantAll, StreamsAllInv
  <2>2. Fetching' = {}
      BY <1>1, <1>3 DEF StreamsAll, Fetching, ResponsesTyped
  <2>3. SharedInv'
      BY <1>1, <1>2, <1>3, <2>2 DEF SharedInv
  <2>4. QED
      BY <1>2, <1>3, <2>1, <2>3, Together DEF IInv, TypeOK
<1>4. CASE ~(size > MaxBuffered) /\ fetch' = "reading"
           /\ UNCHANGED <<pc, window, status, sent, body>>
  <2>1. ResponsesTyped'
      BY <1>1, <1>4 DEF ResponsesTyped
  <2>2. ASSUME NEW q \in Request PROVE OneInv(q)'
      BY <1>1, <1>2, <1>4, <2>2, Frame
  <2>3. Fetching' = Fetching
      BY <1>4 DEF Fetching
  <2>4. SharedInv'
      BY <1>1, <1>2, <1>4, <2>3 DEF SharedInv
  <2>5. QED
      BY <1>2, <1>4, <2>1, <2>2, <2>4, Together DEF IInv, TypeOK
<1>5. QED
    BY <1>3, <1>4 DEF FetchOpens

LEMMA FetchReadsInv == ASSUME DeliveryAssumption, IInv, FetchReads PROVE IInv'
<1>1. /\ size \in Nat /\ ResponsesTyped /\ (\A q \in Request : OneInv(q)) /\ SharedInv
    BY Facts DEF IInv
<1>2. /\ fetch = "reading" /\ fetch' = "none" /\ cached' = TRUE
      /\ Completes(Fetching, 200, All) /\ UNCHANGED <<size, ask, gone, heard>>
    BY DEF FetchReads
<1>3. All \in Windows /\ Length(All) = size
    BY <1>1, AllIsWindow
<1>4. Fetching \in SUBSET Request /\ \A q \in Fetching : Complete(q, 200, All)
    BY <1>3, WaitersWantAll DEF Complete
<1>5. ResponsesTyped' /\ (\A q \in Request : OneInv(q))'
  <2>1. 200 \in Statuses /\ Length(All) \in Nat /\ UNCHANGED <<size, ask>>
      BY <1>1, <1>2, <1>3 DEF Statuses
  <2>2. QED
      BY <1>1, <1>2, <1>3, <1>4, <2>1, CompletesInv
<1>6. Fetching' = {}
    BY <1>1, <1>2 DEF Completes, Fetching, ResponsesTyped
<1>7. SharedInv'
    BY <1>1, <1>2, <1>6 DEF SharedInv
<1>8. QED
    BY <1>2, <1>5, <1>7, Together DEF IInv, TypeOK

LEMMA FetchFailsInv == ASSUME DeliveryAssumption, IInv, FetchFails PROVE IInv'
<1>1. ResponsesTyped /\ (\A q \in Request : OneInv(q)) /\ SharedInv
    BY Facts DEF IInv
<1>2. /\ fetch # "none" /\ fetch' = "none" /\ Refuses(Fetching, 502)
      /\ UNCHANGED <<size, cached, ask, gone, heard>>
    BY DEF FetchFails
<1>3. Fetching \in SUBSET Request /\ UNCHANGED <<size, ask>>
    BY <1>2 DEF Fetching
<1>4. ResponsesTyped' /\ (\A q \in Request : OneInv(q))'
    BY <1>1, <1>2, <1>3, RefusesInv
<1>5. Fetching' = {}
    BY <1>1, <1>2 DEF Refuses, Fetching, ResponsesTyped
<1>6. SharedInv'
    BY <1>1, <1>2, <1>5 DEF SharedInv
<1>7. QED
    BY <1>2, <1>4, <1>6, Together DEF IInv, TypeOK

LEMMA EvictInv == ASSUME DeliveryAssumption, IInv, Evict PROVE IInv'
<1>1. ResponsesTyped /\ (\A q \in Request : OneInv(q)) /\ SharedInv
    BY Facts DEF IInv
<1>2. /\ cached' = FALSE
      /\ UNCHANGED <<size, fetch, ask, pc, window, status, sent, body, gone, heard>>
    BY DEF Evict
<1>3. ResponsesTyped'
    BY <1>1, <1>2 DEF ResponsesTyped
<1>4. ASSUME NEW q \in Request PROVE OneInv(q)'
    BY <1>1, <1>2, <1>4, Frame
<1>5. SharedInv'
    BY <1>1, <1>2 DEF SharedInv, Fetching
<1>6. QED
    BY <1>2, <1>3, <1>4, <1>5, Together DEF IInv, TypeOK

----------------------------------------------------------------------------
(***************************************************************************)
(* The steps of a stream.                                                  *)
(***************************************************************************)

\* A step of one handler that streams, or whose client goes away: it is right if the
\* handler's own part is.
LEMMA StreamStep ==
    ASSUME DeliveryAssumption, IInv, NEW r \in Request,
           UNCHANGED <<size, cached, fetch, ask, window>>,
           \A q \in Request \ {r} :
              /\ pc'[q] = pc[q] /\ status'[q] = status[q]
              /\ sent'[q] = sent[q] /\ body'[q] = body[q],
           ResponsesTyped', OneInv(r)',
           pc'[r] = pc[r] \/ (pc[r] # "fetching" /\ pc'[r] # "fetching"),
           gone' \in [Request -> BOOLEAN], heard' \in [Request -> BOOLEAN]
    PROVE  IInv'
<1>1. ResponsesTyped /\ (\A q \in Request : OneInv(q)) /\ SharedInv
    BY Facts DEF IInv
<1>2. ASSUME NEW q \in Request PROVE OneInv(q)'
  <2>1. CASE q = r
      BY <2>1
  <2>2. CASE q # r
      BY <1>1, <2>2, Frame
  <2>3. QED
      BY <2>1, <2>2
<1>3. \A q \in Request : (pc'[q] = "fetching") <=> (pc[q] = "fetching")
    OBVIOUS
<1>4. Fetching' = Fetching
    BY <1>3 DEF Fetching
<1>5. SharedInv'
    BY <1>1, <1>4 DEF SharedInv
<1>6. QED
    BY <1>2, <1>5, Together DEF IInv, TypeOK

LEMMA ReadChunkInv ==
    ASSUME DeliveryAssumption, IInv, NEW r \in Request, NEW n \in 1 .. Chunk, ReadChunk(r, n)
    PROVE  IInv'
<1>1. /\ ResponsesTyped /\ OneInv(r) /\ n \in Nat /\ n > 0
      /\ pc[r] \in {"first", "reading"} /\ pc[r] \in Streams
      /\ window[r] \in Windows /\ Length(window[r]) \in Int
    BY Facts DEF ReadChunk, Streaming, Streams, DeliveryAssumption, ResponsesTyped, Length, Windows
<1>2. /\ UNCHANGED <<size, cached, fetch, ask, window, gone>>
      /\ heard' \in [Request -> BOOLEAN]
      /\ status' = [status EXCEPT ![r] = IF window[r].kind = "whole" THEN 200 ELSE 206]
    BY DEF ReadChunk, Listens, Answered, IInv, TypeOK
<1>3. CASE CutsOff(r) /\ UNCHANGED sent
  <2>1. ResponsesTyped'
      BY <1>1, <1>2, <1>3 DEF CutsOff, ResponsesTyped, Places, Statuses
  <2>2. OneInv(r)'
      BY <1>1, <1>2, <1>3 DEF CutsOff, ResponsesTyped, OneInv, Early, Streams
  <2>3. QED
      BY <1>1, <1>2, <1>3, <2>1, <2>2, StreamStep DEF CutsOff, ResponsesTyped, IInv, TypeOK
<1>4. ASSUME NEW next \in {"reading", "blocked"},
             ~(sent[r] + n > Length(window[r])),
             sent' = [sent EXCEPT ![r] = @ + n], pc' = [pc EXCEPT ![r] = next], UNCHANGED body
      PROVE  IInv'
  <2>1. ResponsesTyped'
      BY <1>1, <1>2, <1>4 DEF ResponsesTyped, Places, Statuses
  <2>2. OneInv(r)'
    <3>1. /\ pc'[r] = next /\ sent'[r] = sent[r] + n /\ body'[r] = "open"
          /\ sent[r] \in Nat /\ sent'[r] <= Length(window[r])
        BY <1>1, <1>4 DEF ResponsesTyped, OneInv
    <3>2. Proceeds(r, window[r])
        BY <1>1 DEF OneInv
    <3>3. Proceeds(r, window[r])' /\ (sent[r] <= Length(window[r]))'
        BY <1>2, <3>1, <3>2 DEF Proceeds, All, Length, Proper, Wanted
    <3>4. QED
        BY <3>1, <3>3 DEF OneInv, Early, Streams
  <2>3. QED
      BY <1>1, <1>2, <1>4, <2>1, <2>2, StreamStep DEF ResponsesTyped, IInv, TypeOK
<1>5. QED
    BY <1>3, <1>4 DEF ReadChunk

LEMMA ReadEndInv == ASSUME DeliveryAssumption, IInv, NEW r \in Request, ReadEnd(r) PROVE IInv'
<1>1. /\ ResponsesTyped /\ OneInv(r) /\ size \in Nat
      /\ pc[r] \in {"first", "reading"} /\ pc[r] \in Streams
      /\ window[r] \in Windows
    BY Facts DEF ReadEnd, Streaming, Streams, ResponsesTyped
<1>2. /\ UNCHANGED <<size, cached, fetch, ask, window, sent, gone>>
      /\ heard' \in [Request -> BOOLEAN]
      /\ status' = [status EXCEPT ![r] = IF window[r].kind = "whole" THEN 200 ELSE 206]
      /\ pc' = [pc EXCEPT ![r] = "over"]
      /\ body' = [body EXCEPT ![r] = IF sent[r] = Length(window[r]) THEN "ended" ELSE "cut"]
    BY DEF ReadEnd, Listens, Answered, IInv, TypeOK
<1>3. ResponsesTyped'
    BY <1>1, <1>2 DEF ResponsesTyped, Places, Statuses
<1>4. /\ pc'[r] = "over" /\ status'[r] = IF window[r].kind = "whole" THEN 200 ELSE 206
      /\ body'[r] = "ended" => sent[r] = Length(window[r])
    BY <1>1, <1>2 DEF ResponsesTyped
<1>5. Proceeds(r, window[r])
    BY <1>1 DEF OneInv
<1>6. body'[r] = "ended" => Exact(r)'
  <2>1. SUFFICES ASSUME body'[r] = "ended" PROVE Exact(r)'
      OBVIOUS
  <2>2. CASE window[r] = All /\ ~Proper(ask[r].range)
    <3>1. status'[r] = 200 /\ sent'[r] = size
        BY <1>1, <1>2, <1>4, <2>1, <2>2, AllIsWindow
    <3>2. QED
        BY <1>2, <2>2, <3>1 DEF Exact, Proper
  <2>3. CASE /\ window[r].kind = "part" /\ window[r].start <= window[r].end
             /\ Proper(ask[r].range)
             /\ Wanted(ask[r].range, size) = window[r].start .. window[r].end
    <3>1. status'[r] = 206 /\ sent'[r] = Length(window[r]) /\ Length(window[r]) > 0
        BY <1>1, <1>2, <1>4, <2>1, <2>3 DEF Length, Windows
    <3>2. QED
        BY <1>2, <2>3, <3>1 DEF Exact, Proper, Wanted, Length
  <2>4. QED
      BY <1>5, <2>2, <2>3 DEF Proceeds
<1>7. OneInv(r)'
    BY <1>4, <1>6 DEF OneInv, Early, Streams
<1>8. QED
    BY <1>1, <1>2, <1>3, <1>7, StreamStep DEF ResponsesTyped, IInv, TypeOK

LEMMA ReadFailsInv == ASSUME DeliveryAssumption, IInv, NEW r \in Request, ReadFails(r) PROVE IInv'
<1>1. /\ ResponsesTyped /\ (\A q \in Request : OneInv(q))
      /\ UNCHANGED <<size, cached, fetch, ask, gone, heard>>
      /\ pc[r] \in {"first", "reading"}
    BY Facts DEF ReadFails
<1>2. CASE Refuses({r}, 502)
  <2>1. {r} \in SUBSET Request /\ UNCHANGED <<size, ask>>
      BY <1>1
  <2>2. ResponsesTyped' /\ (\A q \in Request : OneInv(q))'
      BY <1>1, <1>2, <2>1, RefusesInv
  <2>3. QED
      BY <1>1, <1>2, <2>2, StreamStep DEF Refuses, ResponsesTyped, IInv, TypeOK
<1>3. CASE pc[r] = "reading" /\ CutsOff(r) /\ UNCHANGED <<window, status, sent>>
  <2>1. ResponsesTyped'
      BY <1>1, <1>3 DEF CutsOff, ResponsesTyped, Places
  <2>2. OneInv(r)'
      BY <1>1, <1>3 DEF CutsOff, ResponsesTyped, OneInv, Early, Streams
  <2>3. QED
      BY <1>1, <1>3, <2>1, <2>2, StreamStep DEF CutsOff, ResponsesTyped, IInv, TypeOK
<1>4. QED
    BY <1>2, <1>3 DEF ReadFails

LEMMA DrainInv == ASSUME DeliveryAssumption, IInv, NEW r \in Request, Drain(r) PROVE IInv'
<1>1. /\ ResponsesTyped /\ OneInv(r)
      /\ UNCHANGED <<size, cached, fetch, ask, window, status, sent, body, gone, heard>>
      /\ pc[r] = "blocked" /\ pc' = [pc EXCEPT ![r] = "reading"]
    BY Facts DEF Drain
<1>2. ResponsesTyped'
    BY <1>1 DEF ResponsesTyped, Places
<1>3. OneInv(r)'
  <2>1. pc'[r] = "reading" /\ body[r] = "open"
      BY <1>1 DEF ResponsesTyped, OneInv, Streams
  <2>2. Proceeds(r, window[r])' /\ (sent[r] <= Length(window[r]))'
      BY <1>1 DEF OneInv, Streams, Proceeds, All, Length, Proper, Wanted
  <2>3. QED
      BY <1>1, <2>1, <2>2 DEF OneInv, Early, Streams
<1>4. QED
    BY <1>1, <1>2, <1>3, StreamStep DEF ResponsesTyped, IInv, TypeOK

\* The client of a request that has started goes away. A handler listens only while it
\* streams, so never while it waits for a shared download.
LEMMA CloseInv ==
    ASSUME DeliveryAssumption, IInv, NEW r \in Request, Close(r),
           heard[r] => pc[r] # "fetching"
    PROVE  IInv'
<1>1. /\ ResponsesTyped /\ OneInv(r)
      /\ UNCHANGED <<size, cached, fetch, ask, window, status, sent, heard>>
      /\ gone' \in [Request -> BOOLEAN] /\ heard' \in [Request -> BOOLEAN]
    BY Facts DEF Close, IInv, TypeOK
<1>2. CASE heard[r] /\ CutsOff(r)
  <2>1. ResponsesTyped'
      BY <1>1, <1>2 DEF CutsOff, ResponsesTyped, Places
  <2>2. OneInv(r)'
      BY <1>1, <1>2 DEF CutsOff, ResponsesTyped, OneInv, Early, Streams
  <2>3. QED
      BY <1>1, <1>2, <2>1, <2>2, StreamStep DEF CutsOff, ResponsesTyped
<1>3. CASE UNCHANGED <<pc, body>>
  <2>1. ResponsesTyped'
      BY <1>1, <1>3 DEF ResponsesTyped
  <2>2. OneInv(r)'
      BY <1>1, <1>3, Frame
  <2>3. QED
      BY <1>1, <1>3, <2>1, <2>2, StreamStep
<1>4. QED
    BY <1>2, <1>3 DEF Close

----------------------------------------------------------------------------
(***************************************************************************)
(* A handler listens for its client only once it streams.                  *)
(***************************************************************************)
HeardInv == \A r \in Request : heard[r] => pc[r] \notin Early

\* No handler goes back to where it does not listen.
LEMMA NoWayBack ==
    ASSUME IInv, UNCHANGED heard, HeardInv,
           \A r \in Request : pc'[r] \in Early => pc[r] \in Early
    PROVE  HeardInv'
BY DEF HeardInv, Early

LEMMA HeardStep == ASSUME DeliveryAssumption, IInv, HeardInv, Next PROVE HeardInv'
<1>1. pc \in [Request -> Places] /\ heard \in [Request -> BOOLEAN]
    BY DEF IInv, TypeOK
<1>2. ASSUME NEW r \in Request, NEW opened \in BOOLEAN, pc[r] \in Early,
             ServeWhole(r, opened) \/ ServeRange(r, opened), UNCHANGED heard
      PROVE  HeardInv'
  <2>1. ASSUME ServeWhole(r, opened) PROVE \A q \in Request : q # r => pc'[q] = pc[q]
      BY <1>1, <2>1 DEF ServeWhole, Completes, Goes, StreamsAll
  <2>2. ASSUME ServeRange(r, opened), ParseRange(ask[r].range, size).kind # "whole"
        PROVE  \A q \in Request : q # r => pc'[q] = pc[q]
    <3> DEFINE p == ParseRange(ask[r].range, size)
    <3>1. size \in Nat /\ ask[r].range \in Headers
        BY Facts
    <3>2. p.kind \in {"unsatisfiable", "part"}
        BY <2>2, <3>1, RangeIsRight DEF RightRange, Whole, Unsatisfiable
    <3>3. \/ Refuses({r}, 416)
          \/ Goes({r}, "first", p)
          \/ Completes({r}, 206, p)
        BY <2>2, <3>2 DEF ServeRange
    <3> HIDE DEF p
    <3>4. QED
        BY <1>1, <3>3 DEF Refuses, Goes, Completes
  <2>3. ASSUME ServeRange(r, opened), ParseRange(ask[r].range, size).kind = "whole"
        PROVE  ServeWhole(r, opened)
      BY <2>3 DEF ServeRange
  <2>4. \A q \in Request : q # r => pc'[q] = pc[q]
      BY <1>2, <2>1, <2>2, <2>3
  <2>5. QED
      BY <1>2, <2>4, NoWayBack
<1>3. ASSUME NEW r \in Request, Start(r) PROVE HeardInv'
  <2>1. CASE Goes({r}, "sizing", window[r])
      BY <1>1, <1>3, <2>1, NoWayBack DEF Start, Goes, Early
  <2>2. CASE ServeWhole(r, FALSE) \/ ServeRange(r, FALSE)
      BY <1>2, <1>3, <2>2 DEF Start, Early
  <2>3. QED
      BY <1>3, <2>1, <2>2 DEF Start
<1>4. ASSUME NEW r \in Request, Sized(r) PROVE HeardInv'
    BY <1>2, <1>4 DEF Sized, Early
<1>5. ASSUME NEW r \in Request, SizeFails(r) PROVE HeardInv'
    BY <1>1, <1>5, NoWayBack DEF SizeFails, Refuses, Early
<1>6. ASSUME NEW r \in Request, NEW n \in 1 .. Chunk, ReadChunk(r, n) PROVE HeardInv'
  <2>1. /\ \A q \in Request : q # r => pc'[q] = pc[q] /\ heard'[q] = heard[q]
        /\ pc'[r] \in {"over", "reading", "blocked"}
      BY <1>1, <1>6 DEF ReadChunk, Listens, CutsOff
  <2>2. QED
      BY <1>6, <2>1 DEF HeardInv, Early
<1>7. ASSUME NEW r \in Request, ReadEnd(r) PROVE HeardInv'
  <2>1. /\ \A q \in Request : q # r => pc'[q] = pc[q] /\ heard'[q] = heard[q]
        /\ pc'[r] = "over"
      BY <1>1, <1>7 DEF ReadEnd, Listens
  <2>2. QED
      BY <1>7, <2>1 DEF HeardInv, Early
<1>8. ASSUME NEW r \in Request, ReadFails(r) PROVE HeardInv'
    BY <1>1, <1>8, NoWayBack DEF ReadFails, Refuses, CutsOff, Early
<1>9. ASSUME NEW r \in Request, Drain(r) \/ Close(r) PROVE HeardInv'
    BY <1>1, <1>9, NoWayBack DEF Drain, Close, CutsOff, Early
<1>10. CASE FetchOpens \/ FetchReads \/ FetchFails \/ Evict
    BY <1>1, <1>10, NoWayBack
    DEF FetchOpens, FetchReads, FetchFails, Evict, StreamsAll, Completes, Refuses, Fetching, Early
<1>11. QED
    BY <1>3, <1>4, <1>5, <1>6, <1>7, <1>8, <1>9, <1>10 DEF Next

----------------------------------------------------------------------------
(***************************************************************************)
(* The theorems.                                                           *)
(***************************************************************************)
LEMMA NextInv ==
    ASSUME DeliveryAssumption, IInv, HeardInv, [Next]_vars
    PROVE  IInv' /\ HeardInv'
<1>1. CASE Next
  <2>1. ASSUME NEW r \in Request, Close(r) PROVE IInv'
    <3>1. heard[r] => pc[r] # "fetching"
        BY DEF HeardInv, Early
    <3>2. QED
        BY <2>1, <3>1, CloseInv
  <2>2. HeardInv'
      BY <1>1, HeardStep
  <2>3. IInv'
      BY <1>1, <2>1, StartInv, SizedInv, SizeFailsInv, ReadChunkInv, ReadEndInv, ReadFailsInv,
         DrainInv, FetchOpensInv, FetchReadsInv, FetchFailsInv, EvictInv
      DEF Next
  <2>4. QED
      BY <2>2, <2>3
<1>2. CASE UNCHANGED vars
  <2>1. \A q \in Request : OneInv(q)'
      BY <1>2, Frame DEF vars, IInv
  <2>2. QED
      BY <1>2, <2>1 DEF vars, IInv, TypeOK, SharedInv, Fetching, HeardInv, Early
<1>3. QED
    BY <1>1, <1>2

LEMMA InvExact == ASSUME DeliveryAssumption, IInv PROVE GatewayIsExact
<1>1. AnswersAreExact
    BY DEF IInv, OneInv, Streams, AnswersAreExact
<1>2. DownloadsAreShared
    BY DEF IInv, SharedInv, DownloadsAreShared
<1>3. QED
    BY <1>1, <1>2 DEF GatewayIsExact

\* Every variable keeps its type.
THEOREM TypeCorrect == ASSUME DeliveryAssumption PROVE Spec => []TypeOK
<1>1. Init => IInv /\ HeardInv
    BY InitInv DEF Init, HeardInv
<1>2. IInv /\ HeardInv /\ [Next]_vars => IInv' /\ HeardInv'
    BY NextInv
<1>3. IInv => TypeOK
    BY DEF IInv
<1>4. QED
    BY <1>1, <1>2, <1>3, PTL DEF Spec

\* A response that ends is exactly what was asked for, and a download is shared by all
\* who wait for it.
THEOREM GatewayExact == ASSUME DeliveryAssumption PROVE Spec => []GatewayIsExact
<1>1. Init => IInv /\ HeardInv
    BY InitInv DEF Init, HeardInv
<1>2. IInv /\ HeardInv /\ [Next]_vars => IInv' /\ HeardInv'
    BY NextInv
<1>3. IInv => GatewayIsExact
    BY InvExact
<1>4. QED
    BY <1>1, <1>2, <1>3, PTL DEF Spec

----------------------------------------------------------------------------
(***************************************************************************)
(* UploadSessions: what a completed upload stored is kept.                 *)
(*                                                                         *)
(* Nothing that removes the file may be under way once the upload is       *)
(* completed, unless it judged the session before (a race) or the asset    *)
(* needs the source no more. So the invariant follows, for each of them,   *)
(* what it found when it began, and, while the finish hook is between its  *)
(* look at the file and its write of the session, that the file it saw is  *)
(* still there.                                                            *)
(***************************************************************************)

Raced == "race" \in slips

\* The asset still needs its source.
Needed == asset \in U!Live \ {"ready"}

\* Nobody reads or writes the bytes before the creation is over, and the session is there
\* from its third step on.
CreationIsFirst ==
    /\ creating # "over" =>
          ~receiving /\ finishing = "idle" /\ rest = "idle" /\ session # "completed"
    /\ creating \in {"asset", "session"} =>
          session = "none" /\ sweep \notin {"remove", "close", "discard"}
    /\ creating = "asset" => asset = "none"

\* What is past its write of the session has ended it; a sweep's write ends it too.
JudgedIsEnded ==
    /\ rest \in {"remove", "discard"} => session # "uploading"
    /\ sweep = "discard" => session # "uploading"

\* Removals that are under way found a file that is not finished, or an asset that
\* needs it no more.
RemovalsAreDue ==
    /\ sweep = "drop" /\ file = "full" => Raced
    /\ sweep = "source" /\ asset \notin {"ready", "deleted", "gone"} => Raced
    /\ deletion # "idle" => asset \in {"deleted", "gone"}

\* The hook still has the file it looked at, if nobody judged the session.
SeenIsThere == finishing = "complete" /\ ~U!JudgedOpen /\ Needed /\ ~Raced => file = "full"

\* A completed upload has its file, and no cancel or sweep that is to remove it.
CompletedIsSafe ==
    session = "completed" /\ ~Raced =>
        /\ rest \notin {"remove", "discard"} /\ sweep \notin {"remove", "close", "discard"}
        /\ Needed => file = "full"

UploadInv ==
    U!TypeOK /\ CreationIsFirst /\ JudgedIsEnded /\ RemovalsAreDue /\ SeenIsThere
             /\ CompletedIsSafe

----------------------------------------------------------------------------
\* It begins with nothing there.
LEMMA UploadInit == U!UploadAssumption /\ U!Init => UploadInv
<1> SUFFICES ASSUME U!UploadAssumption, U!Init PROVE UploadInv
    OBVIOUS
<1>1. uploadFaults \in 0 .. MaxUploadFaults
    BY DEF U!Init, U!UploadAssumption
<1>2. U!TypeOK
    BY <1>1 DEF U!Init, U!TypeOK, U!AssetStatuses
<1>3. CreationIsFirst /\ JudgedIsEnded /\ RemovalsAreDue /\ SeenIsThere /\ CompletedIsSafe
    BY DEF U!Init, CreationIsFirst, JudgedIsEnded, RemovalsAreDue, SeenIsThere, CompletedIsSafe
<1> QED BY <1>2, <1>3 DEF UploadInv

\* A fault is counted and noted.
LEMMA FaultTyped ==
    ASSUME U!UploadAssumption, uploadFaults \in 0 .. MaxUploadFaults,
           slips \subseteq {"fault", "race"}, U!Fault \/ U!NoFault
    PROVE  uploadFaults' \in 0 .. MaxUploadFaults /\ slips' \subseteq {"fault", "race"}
<1>1. uploadFaults' \in 0 .. MaxUploadFaults
    BY DEF U!UploadAssumption, U!Fault, U!NoFault
<1>2. slips' = slips \cup {"fault"} \/ slips' = slips
    BY DEF U!Fault, U!NoFault
<1> QED BY <1>1, <1>2

\* Its creation is the first thing that happens to an upload.
LEMMA CreateKeeps ==
    ASSUME U!UploadAssumption, UploadInv,
           U!CreateAsset \/ U!CreateSession \/ U!StoreFile \/ U!Abandon
    PROVE  UploadInv'
<1> USE DEF U!UploadAssumption, UploadInv, U!TypeOK, U!AssetStatuses, U!Live, U!rowVars,
           U!requestVars, U!sweepVars, Needed, Raced
<1>1. CASE U!CreateAsset
  <2>1. U!TypeOK'
    BY <1>1 DEF U!CreateAsset
  <2>2. CreationIsFirst' /\ JudgedIsEnded' /\ RemovalsAreDue'
    BY <1>1 DEF U!CreateAsset, CreationIsFirst, JudgedIsEnded, RemovalsAreDue
  <2>3. SeenIsThere' /\ CompletedIsSafe'
    BY <1>1 DEF U!CreateAsset, CreationIsFirst, JudgedIsEnded, RemovalsAreDue,
       SeenIsThere, CompletedIsSafe, U!JudgedOpen
  <2> QED BY <2>1, <2>2, <2>3
<1>2. CASE U!CreateSession
  <2>1. U!TypeOK'
    <3>1. past' \in BOOLEAN /\ receiving' \in BOOLEAN /\ job' \in BOOLEAN
      BY <1>2 DEF U!CreateSession, U!NoFault, U!Fault, U!DeleteAsset, U!Live
    <3>2. uploadFaults' \in 0 .. MaxUploadFaults /\ slips' \subseteq {"fault", "race"}
      <4>1. U!Fault \/ U!NoFault
        BY <1>2 DEF U!CreateSession
      <4> QED BY <4>1, FaultTyped
    <3>3. /\ session' \in {"none", "uploading", "completed", "cancelled", "failed"}
          /\ asset' \in U!AssetStatuses /\ file' \in {"none", "partial", "full"}
      BY <1>2 DEF U!CreateSession, U!NoFault, U!Fault, U!DeleteAsset, U!Live
    <3>4. /\ creating' \in {"asset", "session", "store", "abandon", "over"}
          /\ finishing' \in {"idle", "hash", "complete", "queue", "fail"}
          /\ rest' \in {"idle", "write", "remove", "discard"}
          /\ tus' \in {"idle", "read", "write", "discard", "terminate"}
      BY <1>2 DEF U!CreateSession, U!NoFault, U!Fault, U!DeleteAsset, U!Live
    <3>5. /\ sweep' \in {"idle", "drop", "list", "remove", "close", "discard", "states",
                        "source", "forget"}
          /\ listed' \in U!AssetStatuses
          /\ listed' # "none" => sweep' \in {"remove", "close", "discard"}
          /\ deletion' \in {"idle", "remove", "row"}
      BY <1>2 DEF U!CreateSession, U!NoFault, U!Fault, U!DeleteAsset, U!Live
    <3> QED BY <3>1, <3>2, <3>3, <3>4, <3>5
  <2>2. CreationIsFirst' /\ JudgedIsEnded' /\ RemovalsAreDue'
    BY <1>2 DEF U!CreateSession, U!NoFault, U!Fault, U!DeleteAsset, U!Live,
       CreationIsFirst, JudgedIsEnded, RemovalsAreDue
  <2>3. SeenIsThere' /\ CompletedIsSafe'
    BY <1>2 DEF U!CreateSession, U!NoFault, U!Fault, U!DeleteAsset, U!Live,
       CreationIsFirst, JudgedIsEnded, RemovalsAreDue, SeenIsThere, CompletedIsSafe,
       U!JudgedOpen
  <2> QED BY <2>1, <2>2, <2>3
<1>3. CASE U!StoreFile
  <2>1. U!TypeOK'
    <3>1. past' \in BOOLEAN /\ receiving' \in BOOLEAN /\ job' \in BOOLEAN
      BY <1>3 DEF U!StoreFile, U!NoFault, U!Fault, U!SetSession
    <3>2. uploadFaults' \in 0 .. MaxUploadFaults /\ slips' \subseteq {"fault", "race"}
      <4>1. U!Fault \/ U!NoFault
        BY <1>3 DEF U!StoreFile
      <4> QED BY <4>1, FaultTyped
    <3>3. /\ session' \in {"none", "uploading", "completed", "cancelled", "failed"}
          /\ asset' \in U!AssetStatuses /\ file' \in {"none", "partial", "full"}
      BY <1>3 DEF U!StoreFile, U!NoFault, U!Fault, U!SetSession
    <3>4. /\ creating' \in {"asset", "session", "store", "abandon", "over"}
          /\ finishing' \in {"idle", "hash", "complete", "queue", "fail"}
          /\ rest' \in {"idle", "write", "remove", "discard"}
          /\ tus' \in {"idle", "read", "write", "discard", "terminate"}
      BY <1>3 DEF U!StoreFile, U!NoFault, U!Fault, U!SetSession
    <3>5. /\ sweep' \in {"idle", "drop", "list", "remove", "close", "discard", "states",
                        "source", "forget"}
          /\ listed' \in U!AssetStatuses
          /\ listed' # "none" => sweep' \in {"remove", "close", "discard"}
          /\ deletion' \in {"idle", "remove", "row"}
      BY <1>3 DEF U!StoreFile, U!NoFault, U!Fault, U!SetSession
    <3> QED BY <3>1, <3>2, <3>3, <3>4, <3>5
  <2>2. CreationIsFirst' /\ JudgedIsEnded' /\ RemovalsAreDue'
    BY <1>3 DEF U!StoreFile, U!NoFault, U!Fault, U!SetSession, CreationIsFirst,
       JudgedIsEnded, RemovalsAreDue
  <2>3. SeenIsThere' /\ CompletedIsSafe'
    BY <1>3 DEF U!StoreFile, U!NoFault, U!Fault, U!SetSession, CreationIsFirst,
       JudgedIsEnded, RemovalsAreDue, SeenIsThere, CompletedIsSafe, U!JudgedOpen
  <2> QED BY <2>1, <2>2, <2>3
<1>4. CASE U!Abandon
  <2>1. U!TypeOK'
    BY <1>4 DEF U!Abandon, U!DeleteAsset
  <2>2. CreationIsFirst' /\ JudgedIsEnded' /\ RemovalsAreDue'
    BY <1>4 DEF U!Abandon, U!DeleteAsset, CreationIsFirst, JudgedIsEnded, RemovalsAreDue
  <2>3. SeenIsThere' /\ CompletedIsSafe'
    BY <1>4 DEF U!Abandon, U!DeleteAsset, CreationIsFirst, JudgedIsEnded, RemovalsAreDue,
       SeenIsThere, CompletedIsSafe, U!JudgedOpen
  <2> QED BY <2>1, <2>2, <2>3
<1> QED BY <1>1, <1>2, <1>3, <1>4

\* The last byte is the only step that finishes the file; a race is noted if the sweep is
\* about to remove it.
LEMMA PatchKeeps ==
    ASSUME U!UploadAssumption, UploadInv,
           U!Expire \/ U!StartPatch \/ U!MarkUploading \/ U!EndPatch
    PROVE  UploadInv'
<1> USE DEF U!UploadAssumption, UploadInv, U!TypeOK, U!AssetStatuses, U!Live, U!rowVars,
           U!requestVars, U!sweepVars, Needed, Raced
<1>1. CASE U!Expire
  <2>1. U!TypeOK'
    BY <1>1 DEF U!Expire
  <2>2. CreationIsFirst' /\ JudgedIsEnded' /\ RemovalsAreDue'
    BY <1>1 DEF U!Expire, CreationIsFirst, JudgedIsEnded, RemovalsAreDue
  <2>3. SeenIsThere' /\ CompletedIsSafe'
    BY <1>1 DEF U!Expire, CreationIsFirst, JudgedIsEnded, RemovalsAreDue, SeenIsThere,
       CompletedIsSafe, U!JudgedOpen
  <2> QED BY <2>1, <2>2, <2>3
<1>2. CASE U!StartPatch
  <2>1. U!TypeOK'
    BY <1>2 DEF U!StartPatch
  <2>2. CreationIsFirst' /\ JudgedIsEnded' /\ RemovalsAreDue'
    BY <1>2 DEF U!StartPatch, CreationIsFirst, JudgedIsEnded, RemovalsAreDue
  <2>3. SeenIsThere' /\ CompletedIsSafe'
    BY <1>2 DEF U!StartPatch, CreationIsFirst, JudgedIsEnded, RemovalsAreDue, SeenIsThere,
       CompletedIsSafe, U!JudgedOpen
  <2> QED BY <2>1, <2>2, <2>3
<1>3. CASE U!MarkUploading
  <2>1. U!TypeOK'
    BY <1>3 DEF U!MarkUploading
  <2>2. CreationIsFirst' /\ JudgedIsEnded' /\ RemovalsAreDue'
    BY <1>3 DEF U!MarkUploading, CreationIsFirst, JudgedIsEnded, RemovalsAreDue
  <2>3. SeenIsThere' /\ CompletedIsSafe'
    BY <1>3 DEF U!MarkUploading, CreationIsFirst, JudgedIsEnded, RemovalsAreDue,
       SeenIsThere, CompletedIsSafe, U!JudgedOpen
  <2> QED BY <2>1, <2>2, <2>3
<1>4. CASE U!EndPatch
  <2>1. U!TypeOK'
    <3>1. past' \in BOOLEAN /\ receiving' \in BOOLEAN /\ job' \in BOOLEAN
      BY <1>4 DEF U!EndPatch, U!NoFault, U!Race
    <3>2. uploadFaults' \in 0 .. MaxUploadFaults /\ slips' \subseteq {"fault", "race"}
      BY <1>4 DEF U!EndPatch, U!NoFault, U!Race
    <3>3. /\ session' \in {"none", "uploading", "completed", "cancelled", "failed"}
          /\ asset' \in U!AssetStatuses /\ file' \in {"none", "partial", "full"}
      BY <1>4 DEF U!EndPatch, U!NoFault, U!Race
    <3>4. /\ creating' \in {"asset", "session", "store", "abandon", "over"}
          /\ finishing' \in {"idle", "hash", "complete", "queue", "fail"}
          /\ rest' \in {"idle", "write", "remove", "discard"}
          /\ tus' \in {"idle", "read", "write", "discard", "terminate"}
      BY <1>4 DEF U!EndPatch, U!NoFault, U!Race
    <3>5. /\ sweep' \in {"idle", "drop", "list", "remove", "close", "discard", "states",
                        "source", "forget"}
          /\ listed' \in U!AssetStatuses
          /\ listed' # "none" => sweep' \in {"remove", "close", "discard"}
          /\ deletion' \in {"idle", "remove", "row"}
      BY <1>4 DEF U!EndPatch, U!NoFault, U!Race
    <3> QED BY <3>1, <3>2, <3>3, <3>4, <3>5
  <2>2. CreationIsFirst' /\ JudgedIsEnded' /\ RemovalsAreDue'
    BY <1>4 DEF U!EndPatch, U!NoFault, U!Race, CreationIsFirst, JudgedIsEnded,
       RemovalsAreDue
  <2>3. SeenIsThere' /\ CompletedIsSafe'
    BY <1>4 DEF U!EndPatch, U!NoFault, U!Race, CreationIsFirst, JudgedIsEnded,
       RemovalsAreDue, SeenIsThere, CompletedIsSafe, U!JudgedOpen
  <2> QED BY <2>1, <2>2, <2>3
<1> QED BY <1>1, <1>2, <1>3, <1>4

\* The hook completes the session it saw open, or notes the race.
LEMMA FinishKeeps ==
    ASSUME U!UploadAssumption, UploadInv,
           U!FinishHash \/ U!FinishComplete \/ U!FinishQueue \/ U!FinishFault \/ U!FinishFail
    PROVE  UploadInv'
<1> USE DEF U!UploadAssumption, UploadInv, U!TypeOK, U!AssetStatuses, U!Live, U!rowVars,
           U!requestVars, U!sweepVars, Needed, Raced
<1>1. CASE U!FinishHash
  <2>1. U!TypeOK'
    BY <1>1 DEF U!FinishHash
  <2>2. CreationIsFirst' /\ JudgedIsEnded' /\ RemovalsAreDue'
    BY <1>1 DEF U!FinishHash, CreationIsFirst, JudgedIsEnded, RemovalsAreDue
  <2>3. SeenIsThere' /\ CompletedIsSafe'
    BY <1>1 DEF U!FinishHash, CreationIsFirst, JudgedIsEnded, RemovalsAreDue, SeenIsThere,
       CompletedIsSafe, U!JudgedOpen
  <2> QED BY <2>1, <2>2, <2>3
<1>2. CASE U!FinishComplete
  <2>1. U!TypeOK'
    BY <1>2 DEF U!FinishComplete, U!SetSession, U!Race
  <2>2. CreationIsFirst' /\ JudgedIsEnded' /\ RemovalsAreDue'
    BY <1>2 DEF U!FinishComplete, U!SetSession, U!Race, CreationIsFirst, JudgedIsEnded,
       RemovalsAreDue
  <2>3. SeenIsThere' /\ CompletedIsSafe'
    BY <1>2 DEF U!FinishComplete, U!SetSession, U!Race, CreationIsFirst, JudgedIsEnded,
       RemovalsAreDue, SeenIsThere, CompletedIsSafe, U!JudgedOpen
  <2> QED BY <2>1, <2>2, <2>3
<1>3. CASE U!FinishQueue
  <2>1. U!TypeOK'
    <3>1. past' \in BOOLEAN /\ receiving' \in BOOLEAN /\ job' \in BOOLEAN
      BY <1>3 DEF U!FinishQueue
    <3>2. uploadFaults' \in 0 .. MaxUploadFaults /\ slips' \subseteq {"fault", "race"}
      BY <1>3 DEF U!FinishQueue
    <3>3. /\ session' \in {"none", "uploading", "completed", "cancelled", "failed"}
          /\ asset' \in U!AssetStatuses /\ file' \in {"none", "partial", "full"}
      BY <1>3 DEF U!FinishQueue
    <3>4. /\ creating' \in {"asset", "session", "store", "abandon", "over"}
          /\ finishing' \in {"idle", "hash", "complete", "queue", "fail"}
          /\ rest' \in {"idle", "write", "remove", "discard"}
          /\ tus' \in {"idle", "read", "write", "discard", "terminate"}
      BY <1>3 DEF U!FinishQueue
    <3>5. /\ sweep' \in {"idle", "drop", "list", "remove", "close", "discard", "states",
                        "source", "forget"}
          /\ listed' \in U!AssetStatuses
          /\ listed' # "none" => sweep' \in {"remove", "close", "discard"}
          /\ deletion' \in {"idle", "remove", "row"}
      BY <1>3 DEF U!FinishQueue
    <3> QED BY <3>1, <3>2, <3>3, <3>4, <3>5
  <2>2. CreationIsFirst' /\ JudgedIsEnded' /\ RemovalsAreDue'
    BY <1>3 DEF U!FinishQueue, CreationIsFirst, JudgedIsEnded, RemovalsAreDue
  <2>3. SeenIsThere' /\ CompletedIsSafe'
    BY <1>3 DEF U!FinishQueue, CreationIsFirst, JudgedIsEnded, RemovalsAreDue,
       SeenIsThere, CompletedIsSafe, U!JudgedOpen
  <2> QED BY <2>1, <2>2, <2>3
<1>4. CASE U!FinishFault
  <2>1. U!TypeOK'
    <3>1. past' \in BOOLEAN /\ receiving' \in BOOLEAN /\ job' \in BOOLEAN
      BY <1>4 DEF U!FinishFault, U!Fault, U!SetSession
    <3>2. uploadFaults' \in 0 .. MaxUploadFaults /\ slips' \subseteq {"fault", "race"}
      <4>1. U!Fault \/ U!NoFault
        BY <1>4 DEF U!FinishFault
      <4> QED BY <4>1, FaultTyped
    <3>3. /\ session' \in {"none", "uploading", "completed", "cancelled", "failed"}
          /\ asset' \in U!AssetStatuses /\ file' \in {"none", "partial", "full"}
      BY <1>4 DEF U!FinishFault, U!Fault, U!SetSession
    <3>4. /\ creating' \in {"asset", "session", "store", "abandon", "over"}
          /\ finishing' \in {"idle", "hash", "complete", "queue", "fail"}
          /\ rest' \in {"idle", "write", "remove", "discard"}
          /\ tus' \in {"idle", "read", "write", "discard", "terminate"}
      BY <1>4 DEF U!FinishFault, U!Fault, U!SetSession
    <3>5. /\ sweep' \in {"idle", "drop", "list", "remove", "close", "discard", "states",
                        "source", "forget"}
          /\ listed' \in U!AssetStatuses
          /\ listed' # "none" => sweep' \in {"remove", "close", "discard"}
          /\ deletion' \in {"idle", "remove", "row"}
      BY <1>4 DEF U!FinishFault, U!Fault, U!SetSession
    <3> QED BY <3>1, <3>2, <3>3, <3>4, <3>5
  <2>2. CreationIsFirst' /\ JudgedIsEnded' /\ RemovalsAreDue'
    BY <1>4 DEF U!FinishFault, U!Fault, U!SetSession, CreationIsFirst, JudgedIsEnded,
       RemovalsAreDue
  <2>3. SeenIsThere' /\ CompletedIsSafe'
    BY <1>4 DEF U!FinishFault, U!Fault, U!SetSession, CreationIsFirst, JudgedIsEnded,
       RemovalsAreDue, SeenIsThere, CompletedIsSafe, U!JudgedOpen
  <2> QED BY <2>1, <2>2, <2>3
<1>5. CASE U!FinishFail
  <2>1. U!TypeOK'
    BY <1>5 DEF U!FinishFail, U!Race
  <2>2. CreationIsFirst' /\ JudgedIsEnded' /\ RemovalsAreDue'
    BY <1>5 DEF U!FinishFail, U!Race, CreationIsFirst, JudgedIsEnded, RemovalsAreDue
  <2>3. SeenIsThere' /\ CompletedIsSafe'
    BY <1>5 DEF U!FinishFail, U!Race, CreationIsFirst, JudgedIsEnded, RemovalsAreDue,
       SeenIsThere, CompletedIsSafe, U!JudgedOpen
  <2> QED BY <2>1, <2>2, <2>3
<1> QED BY <1>1, <1>2, <1>3, <1>4, <1>5

\* A cancel removes the file after it ended the session.
LEMMA CancelKeeps ==
    ASSUME U!UploadAssumption, UploadInv,
           U!RestRead \/ U!RestWrite \/ U!RestRemove \/ U!RestDiscard \/ U!TusLook
               \/ U!TusRead \/ U!TusWrite \/ U!TusDiscard \/ U!TusTerminate
    PROVE  UploadInv'
<1> USE DEF U!UploadAssumption, UploadInv, U!TypeOK, U!AssetStatuses, U!Live, U!rowVars,
           U!requestVars, U!sweepVars, Needed, Raced
<1>1. CASE U!RestRead
  <2>1. U!TypeOK'
    BY <1>1 DEF U!RestRead, U!InProgress
  <2>2. CreationIsFirst' /\ JudgedIsEnded' /\ RemovalsAreDue'
    BY <1>1 DEF U!RestRead, U!InProgress, CreationIsFirst, JudgedIsEnded, RemovalsAreDue
  <2>3. SeenIsThere' /\ CompletedIsSafe'
    BY <1>1 DEF U!RestRead, U!InProgress, CreationIsFirst, JudgedIsEnded, RemovalsAreDue,
       SeenIsThere, CompletedIsSafe, U!JudgedOpen
  <2> QED BY <2>1, <2>2, <2>3
<1>2. CASE U!RestWrite
  <2>1. U!TypeOK'
    BY <1>2 DEF U!RestWrite, U!SetSession
  <2>2. CreationIsFirst' /\ JudgedIsEnded' /\ RemovalsAreDue'
    BY <1>2 DEF U!RestWrite, U!SetSession, CreationIsFirst, JudgedIsEnded, RemovalsAreDue
  <2>3. SeenIsThere' /\ CompletedIsSafe'
    BY <1>2 DEF U!RestWrite, U!SetSession, CreationIsFirst, JudgedIsEnded, RemovalsAreDue,
       SeenIsThere, CompletedIsSafe, U!JudgedOpen
  <2> QED BY <2>1, <2>2, <2>3
<1>3. CASE U!RestRemove
  <2>1. U!TypeOK'
    <3>1. past' \in BOOLEAN /\ receiving' \in BOOLEAN /\ job' \in BOOLEAN
      BY <1>3 DEF U!RestRemove, U!NoFault, U!Fault
    <3>2. uploadFaults' \in 0 .. MaxUploadFaults /\ slips' \subseteq {"fault", "race"}
      <4>1. U!Fault \/ U!NoFault
        BY <1>3 DEF U!RestRemove
      <4> QED BY <4>1, FaultTyped
    <3>3. /\ session' \in {"none", "uploading", "completed", "cancelled", "failed"}
          /\ asset' \in U!AssetStatuses /\ file' \in {"none", "partial", "full"}
      BY <1>3 DEF U!RestRemove, U!NoFault, U!Fault
    <3>4. /\ creating' \in {"asset", "session", "store", "abandon", "over"}
          /\ finishing' \in {"idle", "hash", "complete", "queue", "fail"}
          /\ rest' \in {"idle", "write", "remove", "discard"}
          /\ tus' \in {"idle", "read", "write", "discard", "terminate"}
      BY <1>3 DEF U!RestRemove, U!NoFault, U!Fault
    <3>5. /\ sweep' \in {"idle", "drop", "list", "remove", "close", "discard", "states",
                        "source", "forget"}
          /\ listed' \in U!AssetStatuses
          /\ listed' # "none" => sweep' \in {"remove", "close", "discard"}
          /\ deletion' \in {"idle", "remove", "row"}
      BY <1>3 DEF U!RestRemove, U!NoFault, U!Fault
    <3> QED BY <3>1, <3>2, <3>3, <3>4, <3>5
  <2>2. CreationIsFirst' /\ JudgedIsEnded' /\ RemovalsAreDue'
    BY <1>3 DEF U!RestRemove, U!NoFault, U!Fault, CreationIsFirst, JudgedIsEnded,
       RemovalsAreDue
  <2>3. SeenIsThere' /\ CompletedIsSafe'
    BY <1>3 DEF U!RestRemove, U!NoFault, U!Fault, CreationIsFirst, JudgedIsEnded,
       RemovalsAreDue, SeenIsThere, CompletedIsSafe, U!JudgedOpen
  <2> QED BY <2>1, <2>2, <2>3
<1>4. CASE U!RestDiscard
  <2>1. U!TypeOK'
    BY <1>4 DEF U!RestDiscard, U!DeleteAsset
  <2>2. CreationIsFirst' /\ JudgedIsEnded' /\ RemovalsAreDue'
    BY <1>4 DEF U!RestDiscard, U!DeleteAsset, CreationIsFirst, JudgedIsEnded, RemovalsAreDue
  <2>3. SeenIsThere' /\ CompletedIsSafe'
    BY <1>4 DEF U!RestDiscard, U!DeleteAsset, CreationIsFirst, JudgedIsEnded,
       RemovalsAreDue, SeenIsThere, CompletedIsSafe, U!JudgedOpen
  <2> QED BY <2>1, <2>2, <2>3
<1>5. CASE U!TusLook
  <2>1. U!TypeOK'
    BY <1>5 DEF U!TusLook
  <2>2. CreationIsFirst' /\ JudgedIsEnded' /\ RemovalsAreDue'
    BY <1>5 DEF U!TusLook, CreationIsFirst, JudgedIsEnded, RemovalsAreDue
  <2>3. SeenIsThere' /\ CompletedIsSafe'
    BY <1>5 DEF U!TusLook, CreationIsFirst, JudgedIsEnded, RemovalsAreDue, SeenIsThere,
       CompletedIsSafe, U!JudgedOpen
  <2> QED BY <2>1, <2>2, <2>3
<1>6. CASE U!TusRead
  <2>1. U!TypeOK'
    BY <1>6 DEF U!TusRead, U!InProgress
  <2>2. CreationIsFirst' /\ JudgedIsEnded' /\ RemovalsAreDue'
    BY <1>6 DEF U!TusRead, U!InProgress, CreationIsFirst, JudgedIsEnded, RemovalsAreDue
  <2>3. SeenIsThere' /\ CompletedIsSafe'
    BY <1>6 DEF U!TusRead, U!InProgress, CreationIsFirst, JudgedIsEnded, RemovalsAreDue,
       SeenIsThere, CompletedIsSafe, U!JudgedOpen
  <2> QED BY <2>1, <2>2, <2>3
<1>7. CASE U!TusWrite
  <2>1. U!TypeOK'
    BY <1>7 DEF U!TusWrite, U!SetSession
  <2>2. CreationIsFirst' /\ JudgedIsEnded' /\ RemovalsAreDue'
    BY <1>7 DEF U!TusWrite, U!SetSession, CreationIsFirst, JudgedIsEnded, RemovalsAreDue
  <2>3. SeenIsThere' /\ CompletedIsSafe'
    BY <1>7 DEF U!TusWrite, U!SetSession, CreationIsFirst, JudgedIsEnded, RemovalsAreDue,
       SeenIsThere, CompletedIsSafe, U!JudgedOpen
  <2> QED BY <2>1, <2>2, <2>3
<1>8. CASE U!TusDiscard
  <2>1. U!TypeOK'
    BY <1>8 DEF U!TusDiscard, U!DeleteAsset
  <2>2. CreationIsFirst' /\ JudgedIsEnded' /\ RemovalsAreDue'
    BY <1>8 DEF U!TusDiscard, U!DeleteAsset, CreationIsFirst, JudgedIsEnded, RemovalsAreDue
  <2>3. SeenIsThere' /\ CompletedIsSafe'
    BY <1>8 DEF U!TusDiscard, U!DeleteAsset, CreationIsFirst, JudgedIsEnded,
       RemovalsAreDue, SeenIsThere, CompletedIsSafe, U!JudgedOpen
  <2> QED BY <2>1, <2>2, <2>3
<1>9. CASE U!TusTerminate
  <2>1. U!TypeOK'
    <3>1. past' \in BOOLEAN /\ receiving' \in BOOLEAN /\ job' \in BOOLEAN
      BY <1>9 DEF U!TusTerminate
    <3>2. uploadFaults' \in 0 .. MaxUploadFaults /\ slips' \subseteq {"fault", "race"}
      BY <1>9 DEF U!TusTerminate
    <3>3. /\ session' \in {"none", "uploading", "completed", "cancelled", "failed"}
          /\ asset' \in U!AssetStatuses /\ file' \in {"none", "partial", "full"}
      BY <1>9 DEF U!TusTerminate
    <3>4. /\ creating' \in {"asset", "session", "store", "abandon", "over"}
          /\ finishing' \in {"idle", "hash", "complete", "queue", "fail"}
          /\ rest' \in {"idle", "write", "remove", "discard"}
          /\ tus' \in {"idle", "read", "write", "discard", "terminate"}
      BY <1>9 DEF U!TusTerminate
    <3>5. /\ sweep' \in {"idle", "drop", "list", "remove", "close", "discard", "states",
                        "source", "forget"}
          /\ listed' \in U!AssetStatuses
          /\ listed' # "none" => sweep' \in {"remove", "close", "discard"}
          /\ deletion' \in {"idle", "remove", "row"}
      BY <1>9 DEF U!TusTerminate
    <3> QED BY <3>1, <3>2, <3>3, <3>4, <3>5
  <2>2. CreationIsFirst' /\ JudgedIsEnded' /\ RemovalsAreDue'
    BY <1>9 DEF U!TusTerminate, CreationIsFirst, JudgedIsEnded, RemovalsAreDue
  <2>3. SeenIsThere' /\ CompletedIsSafe'
    BY <1>9 DEF U!TusTerminate, CreationIsFirst, JudgedIsEnded, RemovalsAreDue,
       SeenIsThere, CompletedIsSafe, U!JudgedOpen
  <2> QED BY <2>1, <2>2, <2>3
<1> QED BY <1>1, <1>2, <1>3, <1>4, <1>5, <1>6, <1>7, <1>8, <1>9

\* The sweep removes what it judged, and a source only once nobody needs it.
LEMMA SweepKeeps ==
    ASSUME U!UploadAssumption, UploadInv,
           U!SweepStart \/ U!SweepDrop \/ U!SweepList \/ U!SweepRemove \/ U!SweepClose
               \/ U!SweepDiscard \/ U!SweepStates \/ U!SweepSource \/ U!SweepForget
    PROVE  UploadInv'
<1> USE DEF U!UploadAssumption, UploadInv, U!TypeOK, U!AssetStatuses, U!Live, U!rowVars,
           U!requestVars, U!sweepVars, Needed, Raced
<1>1. CASE U!SweepStart
  <2>1. U!TypeOK'
    BY <1>1 DEF U!SweepStart, U!GoSweep, U!Unfinished
  <2>2. CreationIsFirst' /\ JudgedIsEnded' /\ RemovalsAreDue'
    BY <1>1 DEF U!SweepStart, U!GoSweep, U!Unfinished, CreationIsFirst, JudgedIsEnded,
       RemovalsAreDue
  <2>3. SeenIsThere' /\ CompletedIsSafe'
    BY <1>1 DEF U!SweepStart, U!GoSweep, U!Unfinished, CreationIsFirst, JudgedIsEnded,
       RemovalsAreDue, SeenIsThere, CompletedIsSafe, U!JudgedOpen
  <2> QED BY <2>1, <2>2, <2>3
<1>2. CASE U!SweepDrop
  <2>1. U!TypeOK'
    BY <1>2 DEF U!SweepDrop, U!GoSweep
  <2>2. CreationIsFirst' /\ JudgedIsEnded' /\ RemovalsAreDue'
    BY <1>2 DEF U!SweepDrop, U!GoSweep, CreationIsFirst, JudgedIsEnded, RemovalsAreDue
  <2>3. SeenIsThere' /\ CompletedIsSafe'
    BY <1>2 DEF U!SweepDrop, U!GoSweep, CreationIsFirst, JudgedIsEnded, RemovalsAreDue,
       SeenIsThere, CompletedIsSafe, U!JudgedOpen
  <2> QED BY <2>1, <2>2, <2>3
<1>3. CASE U!SweepList
  <2>1. U!TypeOK'
    BY <1>3 DEF U!SweepList, U!GoSweep, U!Expired
  <2>2. CreationIsFirst' /\ JudgedIsEnded' /\ RemovalsAreDue'
    BY <1>3 DEF U!SweepList, U!GoSweep, U!Expired, CreationIsFirst, JudgedIsEnded,
       RemovalsAreDue
  <2>3. SeenIsThere' /\ CompletedIsSafe'
    BY <1>3 DEF U!SweepList, U!GoSweep, U!Expired, CreationIsFirst, JudgedIsEnded,
       RemovalsAreDue, SeenIsThere, CompletedIsSafe, U!JudgedOpen
  <2> QED BY <2>1, <2>2, <2>3
<1>4. CASE U!SweepRemove
  <2>1. U!TypeOK'
    BY <1>4 DEF U!SweepRemove, U!GoSweep
  <2>2. CreationIsFirst' /\ JudgedIsEnded' /\ RemovalsAreDue'
    BY <1>4 DEF U!SweepRemove, U!GoSweep, CreationIsFirst, JudgedIsEnded, RemovalsAreDue
  <2>3. SeenIsThere' /\ CompletedIsSafe'
    BY <1>4 DEF U!SweepRemove, U!GoSweep, CreationIsFirst, JudgedIsEnded, RemovalsAreDue,
       SeenIsThere, CompletedIsSafe, U!JudgedOpen
  <2> QED BY <2>1, <2>2, <2>3
<1>5. CASE U!SweepClose
  <2>1. U!TypeOK'
    BY <1>5 DEF U!SweepClose, U!GoSweep, U!SetSession
  <2>2. CreationIsFirst' /\ JudgedIsEnded' /\ RemovalsAreDue'
    BY <1>5 DEF U!SweepClose, U!GoSweep, U!SetSession, CreationIsFirst, JudgedIsEnded,
       RemovalsAreDue
  <2>3. SeenIsThere' /\ CompletedIsSafe'
    BY <1>5 DEF U!SweepClose, U!GoSweep, U!SetSession, CreationIsFirst, JudgedIsEnded,
       RemovalsAreDue, SeenIsThere, CompletedIsSafe, U!JudgedOpen
  <2> QED BY <2>1, <2>2, <2>3
<1>6. CASE U!SweepDiscard
  <2>1. U!TypeOK'
    BY <1>6 DEF U!SweepDiscard, U!GoSweep, U!DeleteAsset
  <2>2. CreationIsFirst' /\ JudgedIsEnded' /\ RemovalsAreDue'
    BY <1>6 DEF U!SweepDiscard, U!GoSweep, U!DeleteAsset, CreationIsFirst, JudgedIsEnded,
       RemovalsAreDue
  <2>3. SeenIsThere' /\ CompletedIsSafe'
    BY <1>6 DEF U!SweepDiscard, U!GoSweep, U!DeleteAsset, CreationIsFirst, JudgedIsEnded,
       RemovalsAreDue, SeenIsThere, CompletedIsSafe, U!JudgedOpen
  <2> QED BY <2>1, <2>2, <2>3
<1>7. CASE U!SweepStates
  <2>1. U!TypeOK'
    BY <1>7 DEF U!SweepStates, U!GoSweep, U!Unneeded
  <2>2. CreationIsFirst' /\ JudgedIsEnded' /\ RemovalsAreDue'
    BY <1>7 DEF U!SweepStates, U!GoSweep, U!Unneeded, CreationIsFirst, JudgedIsEnded,
       RemovalsAreDue
  <2>3. SeenIsThere' /\ CompletedIsSafe'
    BY <1>7 DEF U!SweepStates, U!GoSweep, U!Unneeded, CreationIsFirst, JudgedIsEnded,
       RemovalsAreDue, SeenIsThere, CompletedIsSafe, U!JudgedOpen
  <2> QED BY <2>1, <2>2, <2>3
<1>8. CASE U!SweepSource
  <2>1. U!TypeOK'
    BY <1>8 DEF U!SweepSource, U!GoSweep
  <2>2. CreationIsFirst' /\ JudgedIsEnded' /\ RemovalsAreDue'
    BY <1>8 DEF U!SweepSource, U!GoSweep, CreationIsFirst, JudgedIsEnded, RemovalsAreDue
  <2>3. SeenIsThere' /\ CompletedIsSafe'
    BY <1>8 DEF U!SweepSource, U!GoSweep, CreationIsFirst, JudgedIsEnded, RemovalsAreDue,
       SeenIsThere, CompletedIsSafe, U!JudgedOpen
  <2> QED BY <2>1, <2>2, <2>3
<1>9. CASE U!SweepForget
  <2>1. U!TypeOK'
    BY <1>9 DEF U!SweepForget, U!GoSweep
  <2>2. CreationIsFirst' /\ JudgedIsEnded' /\ RemovalsAreDue'
    BY <1>9 DEF U!SweepForget, U!GoSweep, CreationIsFirst, JudgedIsEnded, RemovalsAreDue
  <2>3. SeenIsThere' /\ CompletedIsSafe'
    BY <1>9 DEF U!SweepForget, U!GoSweep, CreationIsFirst, JudgedIsEnded, RemovalsAreDue,
       SeenIsThere, CompletedIsSafe, U!JudgedOpen
  <2> QED BY <2>1, <2>2, <2>3
<1> QED BY <1>1, <1>2, <1>3, <1>4, <1>5, <1>6, <1>7, <1>8, <1>9

\* The source goes with a ready asset or a deleted one; a restart ends what was under way.
LEMMA AssetKeeps ==
    ASSUME U!UploadAssumption, UploadInv,
           U!Transcode \/ U!CleanSource \/ U!Retry \/ U!SoftDelete
               \/ U!DeletionList \/ U!DeletionRemove \/ U!DeletionRow \/ U!Restart
    PROVE  UploadInv'
<1> USE DEF U!UploadAssumption, UploadInv, U!TypeOK, U!AssetStatuses, U!Live, U!rowVars,
           U!requestVars, U!sweepVars, Needed, Raced
<1>1. CASE U!Transcode
  <2>1. U!TypeOK'
    <3>1. past' \in BOOLEAN /\ receiving' \in BOOLEAN /\ job' \in BOOLEAN
      BY <1>1 DEF U!Transcode, U!Empty
    <3>2. uploadFaults' \in 0 .. MaxUploadFaults /\ slips' \subseteq {"fault", "race"}
      BY <1>1 DEF U!Transcode, U!Empty
    <3>3. /\ session' \in {"none", "uploading", "completed", "cancelled", "failed"}
          /\ asset' \in U!AssetStatuses /\ file' \in {"none", "partial", "full"}
      BY <1>1 DEF U!Transcode, U!Empty
    <3>4. /\ creating' \in {"asset", "session", "store", "abandon", "over"}
          /\ finishing' \in {"idle", "hash", "complete", "queue", "fail"}
          /\ rest' \in {"idle", "write", "remove", "discard"}
          /\ tus' \in {"idle", "read", "write", "discard", "terminate"}
      BY <1>1 DEF U!Transcode, U!Empty
    <3>5. /\ sweep' \in {"idle", "drop", "list", "remove", "close", "discard", "states",
                        "source", "forget"}
          /\ listed' \in U!AssetStatuses
          /\ listed' # "none" => sweep' \in {"remove", "close", "discard"}
          /\ deletion' \in {"idle", "remove", "row"}
      BY <1>1 DEF U!Transcode, U!Empty
    <3> QED BY <3>1, <3>2, <3>3, <3>4, <3>5
  <2>2. CreationIsFirst' /\ JudgedIsEnded' /\ RemovalsAreDue'
    BY ZenonT(30), <1>1 DEF U!Transcode, U!Empty, CreationIsFirst, JudgedIsEnded, RemovalsAreDue
  <2>3. SeenIsThere' /\ CompletedIsSafe'
    BY <1>1 DEF U!Transcode, U!Empty, CreationIsFirst, JudgedIsEnded, RemovalsAreDue,
       SeenIsThere, CompletedIsSafe, U!JudgedOpen
  <2> QED BY <2>1, <2>2, <2>3
<1>2. CASE U!CleanSource
  <2>1. U!TypeOK'
    BY <1>2 DEF U!CleanSource
  <2>2. CreationIsFirst' /\ JudgedIsEnded' /\ RemovalsAreDue'
    BY <1>2 DEF U!CleanSource, CreationIsFirst, JudgedIsEnded, RemovalsAreDue
  <2>3. SeenIsThere' /\ CompletedIsSafe'
    BY <1>2 DEF U!CleanSource, CreationIsFirst, JudgedIsEnded, RemovalsAreDue,
       SeenIsThere, CompletedIsSafe, U!JudgedOpen
  <2> QED BY <2>1, <2>2, <2>3
<1>3. CASE U!Retry
  <2>1. U!TypeOK'
    BY <1>3 DEF U!Retry, U!CanRetry
  <2>2. CreationIsFirst' /\ JudgedIsEnded' /\ RemovalsAreDue'
    BY <1>3 DEF U!Retry, U!CanRetry, CreationIsFirst, JudgedIsEnded, RemovalsAreDue
  <2>3. SeenIsThere' /\ CompletedIsSafe'
    BY <1>3 DEF U!Retry, U!CanRetry, CreationIsFirst, JudgedIsEnded, RemovalsAreDue,
       SeenIsThere, CompletedIsSafe, U!JudgedOpen
  <2> QED BY <2>1, <2>2, <2>3
<1>4. CASE U!SoftDelete
  <2>1. U!TypeOK'
    BY <1>4 DEF U!SoftDelete, U!DeleteAsset
  <2>2. CreationIsFirst' /\ JudgedIsEnded' /\ RemovalsAreDue'
    BY <1>4 DEF U!SoftDelete, U!DeleteAsset, CreationIsFirst, JudgedIsEnded, RemovalsAreDue
  <2>3. SeenIsThere' /\ CompletedIsSafe'
    BY <1>4 DEF U!SoftDelete, U!DeleteAsset, CreationIsFirst, JudgedIsEnded,
       RemovalsAreDue, SeenIsThere, CompletedIsSafe, U!JudgedOpen
  <2> QED BY <2>1, <2>2, <2>3
<1>5. CASE U!DeletionList
  <2>1. U!TypeOK'
    BY <1>5 DEF U!DeletionList
  <2>2. CreationIsFirst' /\ JudgedIsEnded' /\ RemovalsAreDue'
    BY <1>5 DEF U!DeletionList, CreationIsFirst, JudgedIsEnded, RemovalsAreDue
  <2>3. SeenIsThere' /\ CompletedIsSafe'
    BY <1>5 DEF U!DeletionList, CreationIsFirst, JudgedIsEnded, RemovalsAreDue,
       SeenIsThere, CompletedIsSafe, U!JudgedOpen
  <2> QED BY <2>1, <2>2, <2>3
<1>6. CASE U!DeletionRemove
  <2>1. U!TypeOK'
    <3>1. past' \in BOOLEAN /\ receiving' \in BOOLEAN /\ job' \in BOOLEAN
      BY <1>6 DEF U!DeletionRemove, U!NoFault, U!Fault
    <3>2. uploadFaults' \in 0 .. MaxUploadFaults /\ slips' \subseteq {"fault", "race"}
      <4>1. U!Fault \/ U!NoFault
        BY <1>6 DEF U!DeletionRemove
      <4> QED BY <4>1, FaultTyped
    <3>3. /\ session' \in {"none", "uploading", "completed", "cancelled", "failed"}
          /\ asset' \in U!AssetStatuses /\ file' \in {"none", "partial", "full"}
      BY <1>6 DEF U!DeletionRemove, U!NoFault, U!Fault
    <3>4. /\ creating' \in {"asset", "session", "store", "abandon", "over"}
          /\ finishing' \in {"idle", "hash", "complete", "queue", "fail"}
          /\ rest' \in {"idle", "write", "remove", "discard"}
          /\ tus' \in {"idle", "read", "write", "discard", "terminate"}
      BY <1>6 DEF U!DeletionRemove, U!NoFault, U!Fault
    <3>5. /\ sweep' \in {"idle", "drop", "list", "remove", "close", "discard", "states",
                        "source", "forget"}
          /\ listed' \in U!AssetStatuses
          /\ listed' # "none" => sweep' \in {"remove", "close", "discard"}
          /\ deletion' \in {"idle", "remove", "row"}
      BY <1>6 DEF U!DeletionRemove, U!NoFault, U!Fault
    <3> QED BY <3>1, <3>2, <3>3, <3>4, <3>5
  <2>2. CreationIsFirst' /\ JudgedIsEnded' /\ RemovalsAreDue'
    BY <1>6 DEF U!DeletionRemove, U!NoFault, U!Fault, CreationIsFirst, JudgedIsEnded,
       RemovalsAreDue
  <2>3. SeenIsThere' /\ CompletedIsSafe'
    BY <1>6 DEF U!DeletionRemove, U!NoFault, U!Fault, CreationIsFirst, JudgedIsEnded,
       RemovalsAreDue, SeenIsThere, CompletedIsSafe, U!JudgedOpen
  <2> QED BY <2>1, <2>2, <2>3
<1>7. CASE U!DeletionRow
  <2>1. U!TypeOK'
    BY <1>7 DEF U!DeletionRow
  <2>2. CreationIsFirst' /\ JudgedIsEnded' /\ RemovalsAreDue'
    BY <1>7 DEF U!DeletionRow, CreationIsFirst, JudgedIsEnded, RemovalsAreDue
  <2>3. SeenIsThere' /\ CompletedIsSafe'
    BY <1>7 DEF U!DeletionRow, CreationIsFirst, JudgedIsEnded, RemovalsAreDue,
       SeenIsThere, CompletedIsSafe, U!JudgedOpen
  <2> QED BY <2>1, <2>2, <2>3
<1>8. CASE U!Restart
  <2>1. U!TypeOK'
    <3>1. past' \in BOOLEAN /\ receiving' \in BOOLEAN /\ job' \in BOOLEAN
      BY <1>8 DEF U!Restart, U!Fault
    <3>2. uploadFaults' \in 0 .. MaxUploadFaults /\ slips' \subseteq {"fault", "race"}
      BY <1>8 DEF U!Restart, U!Fault
    <3>3. /\ session' \in {"none", "uploading", "completed", "cancelled", "failed"}
          /\ asset' \in U!AssetStatuses /\ file' \in {"none", "partial", "full"}
      BY <1>8 DEF U!Restart, U!Fault
    <3>4. /\ creating' \in {"asset", "session", "store", "abandon", "over"}
          /\ finishing' \in {"idle", "hash", "complete", "queue", "fail"}
          /\ rest' \in {"idle", "write", "remove", "discard"}
          /\ tus' \in {"idle", "read", "write", "discard", "terminate"}
      BY <1>8 DEF U!Restart, U!Fault
    <3>5. /\ sweep' \in {"idle", "drop", "list", "remove", "close", "discard", "states",
                        "source", "forget"}
          /\ listed' \in U!AssetStatuses
          /\ listed' # "none" => sweep' \in {"remove", "close", "discard"}
          /\ deletion' \in {"idle", "remove", "row"}
      BY <1>8 DEF U!Restart, U!Fault
    <3> QED BY <3>1, <3>2, <3>3, <3>4, <3>5
  <2>2. CreationIsFirst' /\ JudgedIsEnded' /\ RemovalsAreDue'
    BY <1>8 DEF U!Restart, U!Fault, CreationIsFirst, JudgedIsEnded, RemovalsAreDue
  <2>3. SeenIsThere' /\ CompletedIsSafe'
    BY <1>8 DEF U!Restart, U!Fault, CreationIsFirst, JudgedIsEnded, RemovalsAreDue,
       SeenIsThere, CompletedIsSafe, U!JudgedOpen
  <2> QED BY <2>1, <2>2, <2>3
<1> QED BY <1>1, <1>2, <1>3, <1>4, <1>5, <1>6, <1>7, <1>8

LEMMA UploadStep == ASSUME U!UploadAssumption, UploadInv, [U!Next]_(U!vars) PROVE UploadInv'
<1>1. CASE U!Next
    BY <1>1, CreateKeeps, PatchKeeps, FinishKeeps, CancelKeeps, SweepKeeps, AssetKeeps
    DEF U!Next, U!CreateStep, U!FinishStep, U!RestStep, U!TusStep, U!SweepStep, U!DeletionStep
<1>2. CASE UNCHANGED U!vars
  <2> USE <1>2 DEF U!vars, U!rowVars, U!requestVars, U!sweepVars
  <2>1. U!TypeOK'
      BY DEF UploadInv, U!TypeOK
  <2>2. CreationIsFirst' /\ JudgedIsEnded' /\ RemovalsAreDue'
      BY DEF UploadInv, CreationIsFirst, JudgedIsEnded, RemovalsAreDue, Raced
  <2>3. SeenIsThere' /\ CompletedIsSafe'
      BY DEF UploadInv, SeenIsThere, CompletedIsSafe, Raced, Needed, U!JudgedOpen
  <2> QED BY <2>1, <2>2, <2>3 DEF UploadInv
<1> QED BY <1>1, <1>2

LEMMA FinishedIsSafe == UploadInv => U!FinishedIsKept
BY DEF UploadInv, CompletedIsSafe, Needed, Raced, U!FinishedIsKept

\* What a completed upload stored is kept until its asset is ready or deleted, whatever
\* cancels, sweeps, deletions, retries, failures and restarts there are (complete,
\* deleteExpired).
THEOREM UploadsAreKept == ASSUME U!UploadAssumption PROVE U!Spec => []U!FinishedIsKept
<1>1. U!Init => UploadInv
    BY UploadInit
<1>2. UploadInv /\ [U!Next]_(U!vars) => UploadInv'
    BY UploadStep
<1> QED BY <1>1, <1>2, FinishedIsSafe, PTL DEF U!Spec

----------------------------------------------------------------------------
(***************************************************************************)
(* WebhookDelivery: the invariant of BackendProofs, for this instance.     *)
(***************************************************************************)
LEMMA WebhookCounts == \A T : W!Cardinality(T) = B!W!Cardinality(T)
BY DEF W!Cardinality, B!W!Cardinality

LEMMA WebhookInit == W!WebhookAssumption /\ W!Init => B!WebhookInv
<1>1. W!Init => B!W!Init
    BY DEF W!Init, W!Idle, B!W!Init, B!W!Idle
<1> QED BY <1>1, B!WebhookInit DEF W!WebhookAssumption, B!W!WebhookAssumption

LEMMA WebhookStep ==
    ASSUME W!WebhookAssumption, B!WebhookInv, [W!Next]_webhookVars PROVE B!WebhookInv'
<1>1. W!Next => B!W!Next
    BY WebhookCounts DEF
     W!Next, W!SetActive, W!queueVars, W!historyVars, W!RotateSecret, W!DeleteEndpoint,
     W!FindEndpoints, W!endpointVars, W!AddBulk, W!Add, W!NoFault, W!Fault, W!ResendRead,
     W!ResendAdd, W!ExecutionStep, W!ReadEndpoint, W!Goes, W!Idle, W!SettleJob, W!Post,
     W!Record, W!Settle, W!Take, W!Stall, W!Restart, B!W!Next, B!W!SetActive,
     B!W!queueVars, B!W!historyVars, B!W!RotateSecret, B!W!DeleteEndpoint,
     B!W!FindEndpoints, B!W!endpointVars, B!W!AddBulk, B!W!Add, B!W!NoFault, B!W!Fault,
     B!W!ResendRead, B!W!ResendAdd, B!W!ExecutionStep, B!W!ReadEndpoint, B!W!Goes,
     B!W!Idle, B!W!SettleJob, B!W!Post, B!W!Record, B!W!Settle, B!W!Take, B!W!Stall,
     B!W!Restart, W!Retried, B!W!Retried
<1>2. UNCHANGED webhookVars => UNCHANGED B!W!vars
    BY DEF webhookVars, B!W!vars, B!W!endpointVars, B!W!queueVars, B!W!historyVars
<1> QED
    BY <1>1, <1>2, B!WebhookStep DEF W!WebhookAssumption, B!W!WebhookAssumption

LEMMA WebhookTyped == B!WebhookInv => W!TypeOK
<1>1. B!WebhookInv => B!W!TypeOK
    BY DEF B!WebhookInv
<1>2. B!W!TypeOK => W!TypeOK
    BY DEF W!TypeOK, W!Idle, B!W!TypeOK, B!W!Idle
<1> QED BY <1>1, <1>2

----------------------------------------------------------------------------
(***************************************************************************)
(* The parts side by side. What does not move keeps its invariant, so each *)
(* holds in every behaviour.                                               *)
(***************************************************************************)
LiveInv == IInv /\ HeardInv /\ UploadInv /\ B!WebhookInv

LEMMA LiveInit == AllInit => LiveInv
<1> SUFFICES ASSUME AllInit PROVE LiveInv
    OBVIOUS
<1>1. Init
    BY DEF AllInit, NoRequests
<1>2. IInv /\ HeardInv
    BY <1>1, LiveAssumption, InitInv DEF Init, HeardInv
<1>3. UploadInv /\ B!WebhookInv
    BY LiveAssumption, UploadInit, WebhookInit DEF AllInit
<1> QED BY <1>2, <1>3 DEF LiveInv

LEMMA LiveStep == ASSUME LiveInv, [AllNext]_<<part, vars, otherVars>> PROVE LiveInv'
<1>1. [Next]_vars /\ [U!Next]_uploadVars /\ [W!Next]_webhookVars
    BY DEF AllNext, otherVars
<1>2. IInv' /\ HeardInv'
    BY <1>1, LiveAssumption, NextInv DEF LiveInv
<1>3. uploadVars' = uploadVars => UNCHANGED U!vars
    BY DEF uploadVars, U!vars, U!rowVars, U!requestVars, U!sweepVars
<1>4. UploadInv'
    BY <1>1, <1>3, LiveAssumption, UploadStep DEF LiveInv
<1>5. B!WebhookInv'
    BY <1>1, LiveAssumption, WebhookStep DEF LiveInv
<1> QED BY <1>2, <1>4, <1>5 DEF LiveInv

\* Every variable of the gateway, of an upload and of webhook deliveries keeps its type.
THEOREM LivePartsAreTyped == AllSpec => []AllTypeOK
<1>1. LiveInv => AllTypeOK
    BY WebhookTyped DEF LiveInv, IInv, UploadInv, AllTypeOK
<1> QED BY LiveInit, LiveStep, <1>1, PTL DEF AllSpec

\* A response of the gateway that ends is exactly what was asked for (aggregator.ts).
THEOREM AnswersAreAlwaysExact == AllSpec => []GatewayIsExact
<1>1. LiveInv => GatewayIsExact
    BY LiveAssumption, InvExact DEF LiveInv
<1> QED BY LiveInit, LiveStep, <1>1, PTL DEF AllSpec

\* What a completed upload stored is kept for its asset (complete, deleteExpired).
THEOREM FinishedIsAlwaysKept == AllSpec => []FinishedIsKept
<1>1. LiveInv => FinishedIsKept
    BY FinishedIsSafe DEF LiveInv, FinishedIsKept
<1> QED BY LiveInit, LiveStep, <1>1, PTL DEF AllSpec
=============================================================================
