--------------------------- MODULE LimiterProofs ---------------------------
(***************************************************************************)
(* The limiter, for any addresses, any number of calls in flight and any   *)
(* limits: no window counts more calls than it allows, the table never     *)
(* holds more sources than it may, even for infinitely many addresses, no  *)
(* second admits more than its windows allow, and no call is refused       *)
(* without as many calls admitted shortly before.                          *)
(*                                                                         *)
(* The types and the table are inductive together: that a source in the    *)
(* table stays in it as it grows older follows from its count, which is    *)
(* not zero.  The rate rests on what a window says of the history, Told.   *)
(***************************************************************************)
EXTENDS Limiter, FiniteSetTheorems, TLAPS

TableInv == LimiterTypeOK /\ IsFiniteSet(Known(sources)) /\ TableBounded

\* The numbers the ages are compared with.
LEMMA Bounds ==
    /\ Minute \in Nat /\ MaxDelay \in Nat /\ Second \in Nat /\ PerSecond \in Nat
    /\ PerSource \in Nat /\ TableSize \in Nat
    /\ PerSecond > 0 /\ PerSource > 0 /\ TableSize > 0
    /\ Forever \in Nat /\ Forever > 0 /\ MaxDelay <= Forever
BY LimiterAssumption DEF Forever

\* Histories stay histories.
LEMMA HistoryType ==
    ASSUME NEW h \in [Spans -> Nat]
    PROVE  OneMore(h) \in [Spans -> Nat] /\ Later(h) \in [Spans -> Nat]
<1>1. ASSUME NEW j \in Spans, j # 0 PROVE j - 1 \in Spans
  BY <1>1, Bounds DEF Spans
<1>2. \A j \in Spans : h[j] \in Nat
  OBVIOUS
<1>3. OneMore(h) \in [Spans -> Nat]
  BY <1>2 DEF OneMore
<1>4. Later(h) \in [Spans -> Nat]
  BY <1>1, <1>2 DEF Later
<1> QED
  BY <1>3, <1>4

\* The global window stays one when a call restarts it, and when the call is
\* counted in it.
LEMMA GlobalType ==
    ASSUME LimiterTypeOK, NEW late \in 0..MaxDelay
    PROVE  /\ Current(global, late) \in [age : Ages, count : 0..PerSecond]
           /\ GlobalLeft(Current(global, late)) =>
                 Counted(Current(global, late)) \in [age : Ages, count : 0..PerSecond]
<1>1. Current(global, late) \in [age : Ages, count : 0..PerSecond]
  BY Bounds DEF LimiterTypeOK, Current, Ages
<1>2. ASSUME NEW b \in [age : Ages, count : 0..PerSecond], b.count < PerSecond
      PROVE  Counted(b) \in [age : Ages, count : 0..PerSecond]
  <2>1. b.count + 1 \in 0..PerSecond
    BY <1>2, Bounds
  <2> QED
    BY <2>1 DEF Counted
<1> QED
  BY <1>1, <1>2 DEF GlobalLeft

\* Forgetting the sources that are a minute old leaves a smaller table.
LEMMA PrunedType ==
    ASSUME TableInv, NEW late \in 0..MaxDelay
    PROVE  /\ Pruned(late) \in [Source -> {Unknown} \cup [age : Ages, count : 1..PerSource]]
           /\ Known(Pruned(late)) \subseteq Known(sources)
           /\ IsFiniteSet(Known(Pruned(late)))
           /\ Cardinality(Known(Pruned(late))) <= TableSize
<1>1. Pruned(late) \in [Source -> {Unknown} \cup [age : Ages, count : 1..PerSource]]
  BY DEF Pruned, TableInv, LimiterTypeOK
<1>2. Known(Pruned(late)) \subseteq Known(sources)
  BY DEF Pruned, Known
<1>3. /\ IsFiniteSet(Known(Pruned(late)))
      /\ Cardinality(Known(Pruned(late))) <= Cardinality(Known(sources))
  BY <1>2, FS_Subset DEF TableInv
<1>4. Cardinality(Known(Pruned(late))) \in Nat /\ Cardinality(Known(sources)) \in Nat
  BY <1>3, FS_CardinalityType DEF TableInv
<1> QED
  BY <1>1, <1>2, <1>3, <1>4, Bounds DEF TableInv, TableBounded

\* A call that is let in adds its own source to the table at most, and only
\* when there is room.
LEMMA AllowKeepsInv == ASSUME TableInv, NEW c \in Call, Allow(c) PROVE TableInv'
<1> DEFINE late == calls[c].late
           s == calls[c].source
           table == Pruned(late)
           row == Counted(Current(table[s], late))
<1>1. late \in 0..MaxDelay /\ s \in Source
  BY DEF Allow, TableInv, LimiterTypeOK
<1>2. /\ table \in [Source -> {Unknown} \cup [age : Ages, count : 1..PerSource]]
      /\ IsFiniteSet(Known(table)) /\ Cardinality(Known(table)) <= TableSize
  BY <1>1, PrunedType
<1>3. sources' = [table EXCEPT ![s] = row]
  BY DEF Allow
<1>4. row \in [age : Ages, count : 1..PerSource]
  <2>1. table[s] \in [age : Ages, count : 0..PerSource]
    BY <1>1, <1>2, Bounds DEF Unknown, Ages
  <2>2. Current(table[s], late) \in [age : Ages, count : 0..PerSource]
    BY <1>1, <2>1, Bounds DEF Current, Ages
  <2>3. Current(table[s], late).count < PerSource
    BY DEF Allow, SourceLeft
  <2>4. Current(table[s], late).count + 1 \in 1..PerSource
    BY <2>2, <2>3, Bounds
  <2> QED
    BY <2>2, <2>4 DEF Counted
<1> HIDE DEF row, table
<1>5. Known(sources') = Known(table) \cup {s}
  <2>1. row # Unknown
    BY <1>4 DEF Unknown
  <2> QED
    BY <1>1, <1>2, <1>3, <2>1 DEF Known
<1>6. /\ IsFiniteSet(Known(sources'))
      /\ Cardinality(Known(sources')) <= TableSize
  <2>1. CASE s \in Known(table)
    <3>1. Known(sources') = Known(table)
      BY <1>5, <2>1
    <3> QED
      BY <1>2, <3>1
  <2>2. CASE s \notin Known(table)
    <3>1. Cardinality(Known(table)) < TableSize
      BY <1>1, <2>2 DEF Allow, HasRoom, Known, table
    <3>2. /\ IsFiniteSet(Known(sources'))
          /\ Cardinality(Known(sources')) = Cardinality(Known(table)) + 1
      BY <1>2, <1>5, <2>2, FS_AddElement
    <3>3. Cardinality(Known(table)) \in Nat
      BY <1>2, FS_CardinalityType
    <3> QED
      BY <3>1, <3>2, <3>3, Bounds
  <2> QED
    BY <2>1, <2>2
<1>7. LimiterTypeOK'
  <2>1. global' \in [age : Ages, count : 0..PerSecond]
    BY <1>1, GlobalType DEF Allow, TableInv
  <2>2. sources' \in [Source -> {Unknown} \cup [age : Ages, count : 1..PerSource]]
    BY <1>2, <1>3, <1>4
  <2>3. calls' \in [Call -> {Idle} \cup [source : Source, late : 0..MaxDelay]]
    BY DEF Allow, Return, TableInv, LimiterTypeOK
  <2>4. admitted' \in [Source -> [Spans -> Nat]] /\ total' \in [Spans -> Nat]
    BY <1>1, HistoryType DEF Allow, TableInv, LimiterTypeOK
  <2> QED
    BY <2>1, <2>2, <2>3, <2>4 DEF LimiterTypeOK
<1> QED
  BY <1>6, <1>7 DEF TableInv, TableBounded, Known

\* A tick makes nobody known or unknown.
LEMMA TickKeepsInv == ASSUME TableInv, Tick PROVE TableInv'
<1>1. \A a \in Ages : Older(a) \in Ages
  BY Bounds DEF Older, Ages
<1>2. global' \in [age : Ages, count : 0..PerSecond]
  BY <1>1 DEF Tick, TableInv, LimiterTypeOK
<1>3. ASSUME NEW s \in Source
      PROVE  /\ sources'[s] \in {Unknown} \cup [age : Ages, count : 1..PerSource]
             /\ sources'[s] = Unknown <=> sources[s] = Unknown
  <2>1. sources'[s] = [sources[s] EXCEPT !.age = Older(sources[s].age)]
    BY DEF Tick
  <2>2. CASE sources[s] = Unknown
    <3>1. Older(Forever) = Forever
      BY DEF Older
    <3> QED
      BY <2>1, <2>2, <3>1 DEF Unknown
  <2>3. CASE sources[s] \in [age : Ages, count : 1..PerSource]
    <3>1. sources'[s] \in [age : Ages, count : 1..PerSource]
      BY <1>1, <2>1, <2>3
    <3>2. \A b \in [age : Ages, count : 1..PerSource] : b # Unknown
      BY DEF Unknown
    <3> QED
      BY <2>3, <3>1, <3>2
  <2> QED
    BY <2>2, <2>3 DEF TableInv, LimiterTypeOK
<1>4. Known(sources') = Known(sources)
  BY <1>3 DEF Known
<1>5. sources' \in [Source -> {Unknown} \cup [age : Ages, count : 1..PerSource]]
  BY <1>3 DEF Tick
<1>6. calls' \in [Call -> {Idle} \cup [source : Source, late : 0..MaxDelay]]
  <2>1. ASSUME NEW c \in Call, calls[c] # Idle
        PROVE  [calls[c] EXCEPT !.late = @ + 1] \in [source : Source, late : 0..MaxDelay]
    <3>1. calls[c] \in [source : Source, late : 0..MaxDelay] /\ calls[c].late < MaxDelay
      BY <2>1 DEF Tick, TableInv, LimiterTypeOK
    <3>2. calls[c].late + 1 \in 0..MaxDelay
      BY <3>1, Bounds
    <3> QED
      BY <3>1, <3>2
  <2> QED
    BY <2>1 DEF Tick
<1>7. admitted' \in [Source -> [Spans -> Nat]] /\ total' \in [Spans -> Nat]
  BY HistoryType DEF Tick, TableInv, LimiterTypeOK
<1> QED
  BY <1>2, <1>4, <1>5, <1>6, <1>7 DEF TableInv, LimiterTypeOK, TableBounded, Known

\* A call that arrives or is refused lets nobody in.
LEMMA OtherCallsKeepInv ==
    ASSUME TableInv, NEW c \in Call,
           RefuseGlobal(c) \/ RefuseSource(c) \/ \E s \in Source : Arrive(c, s)
    PROVE  TableInv'
<1>1. ASSUME NEW s \in Source, Arrive(c, s) PROVE TableInv'
  <2>1. [source |-> s, late |-> 0] \in [source : Source, late : 0..MaxDelay]
    BY Bounds
  <2> QED
    BY <1>1, <2>1 DEF Arrive, TableInv, LimiterTypeOK, TableBounded, Known
<1>2. ASSUME RefuseGlobal(c) \/ RefuseSource(c) PROVE TableInv'
  <2>1. calls[c].late \in 0..MaxDelay
    BY <1>2 DEF RefuseGlobal, RefuseSource, TableInv, LimiterTypeOK
  <2>2. global' \in [age : Ages, count : 0..PerSecond]
    BY <1>2, <2>1, GlobalType DEF RefuseGlobal, RefuseSource, TableInv
  <2>3. calls' \in [Call -> {Idle} \cup [source : Source, late : 0..MaxDelay]]
    BY <1>2 DEF RefuseGlobal, RefuseSource, Return, TableInv, LimiterTypeOK
  <2>4. \/ UNCHANGED sources
        \/ sources' = Pruned(calls[c].late)
    BY <1>2 DEF RefuseGlobal, RefuseSource
  <2>5. /\ sources' \in [Source -> {Unknown} \cup [age : Ages, count : 1..PerSource]]
        /\ IsFiniteSet(Known(sources')) /\ Cardinality(Known(sources')) <= TableSize
    BY <2>1, <2>4, PrunedType DEF TableInv, LimiterTypeOK, TableBounded
  <2>6. UNCHANGED <<admitted, total>>
    BY <1>2 DEF RefuseGlobal, RefuseSource
  <2> QED
    BY <2>2, <2>3, <2>5, <2>6 DEF TableInv, LimiterTypeOK, TableBounded, Known
<1> QED
  BY <1>1, <1>2

\* The invariant holds in every reachable state.
LEMMA LimiterInvariant == LimiterSpec => []TableInv
<1>1. LimiterInit => TableInv
  <2> SUFFICES ASSUME LimiterInit PROVE TableInv
    OBVIOUS
  <2>1. Known(sources) = {}
    BY DEF LimiterInit, Known
  <2>2. LimiterTypeOK
    BY Bounds DEF LimiterInit, LimiterTypeOK, Unknown, Ages, Spans
  <2> QED
    BY <2>1, <2>2, FS_EmptySet, Bounds DEF TableInv, TableBounded
<1>2. TableInv /\ [LimiterNext]_limiterVars => TableInv'
  <2> SUFFICES ASSUME TableInv, [LimiterNext]_limiterVars PROVE TableInv'
    OBVIOUS
  <2>1. ASSUME UNCHANGED limiterVars PROVE TableInv'
    BY <2>1 DEF limiterVars, TableInv, LimiterTypeOK, TableBounded, Known
  <2> QED
    BY <2>1, AllowKeepsInv, TickKeepsInv, OtherCallsKeepInv DEF LimiterNext
<1> QED
  BY <1>1, <1>2, PTL DEF LimiterSpec

\* No window counts more calls than it allows, of all sources or of one, and
\* every count is of a window of its source (limiter.allow).
THEOREM WindowsCount == LimiterSpec => []LimiterTypeOK
<1>1. TableInv => LimiterTypeOK
  BY DEF TableInv
<1> QED
  BY <1>1, LimiterInvariant, PTL

\* The table never outgrows its limit, whoever calls (limiter.allow).
THEOREM TableStaysBounded == LimiterSpec => []TableBounded
<1>1. TableInv => TableBounded
  BY DEF TableInv
<1> QED
  BY <1>1, LimiterInvariant, PTL

-----------------------------------------------------------------------------
(* What a window says of the history.  Windows of one budget start at least *)
(* a second apart, and a call is counted in a window at most MaxDelay after *)
(* it is over.  So when the last one started a ticks ago and counts n, the  *)
(* last j ticks admitted n, and what k windows admit for the k before it    *)
(* that reach into them, or nothing when it does not reach into them itself.*)

Fits(h, a, n, most) ==
    \A j \in Spans :
        /\ a >= j + Second + MaxDelay - 1 => h[j] = 0
        /\ \A k \in Nat : a + k * Second >= j + MaxDelay - 1 => h[j] <= k * most + n

\* All that a window counts was admitted since it started.
Covers(h, a, n) == \A j \in Spans : j > a => n <= h[j]

LEMMA FitsLess ==
    ASSUME NEW h \in [Spans -> Nat], NEW a \in Nat, NEW n \in Nat, NEW most \in Nat,
           NEW b \in Nat, NEW m \in Nat, Fits(h, a, n, most), b <= a, n <= m
    PROVE  Fits(h, b, m, most)
<1> SUFFICES ASSUME NEW j \in Spans
             PROVE  /\ b >= j + Second + MaxDelay - 1 => h[j] = 0
                    /\ \A k \in Nat : b + k * Second >= j + MaxDelay - 1
                                        => h[j] <= k * most + m
  BY DEF Fits
<1>1. j \in Int /\ h[j] \in Nat
  BY Bounds DEF Spans
<1>2. b >= j + Second + MaxDelay - 1 => h[j] = 0
  BY <1>1, Bounds DEF Fits
<1>3. ASSUME NEW k \in Nat, b + k * Second >= j + MaxDelay - 1
      PROVE  h[j] <= k * most + m
  <2>1. k * Second \in Nat /\ k * most \in Nat
    BY Bounds
  <2>2. a + k * Second >= j + MaxDelay - 1
    BY <1>1, <1>3, <2>1, Bounds
  <2>3. h[j] <= k * most + n
    BY <2>2 DEF Fits
  <2> QED
    BY <1>1, <2>1, <2>3
<1> QED
  BY <1>2, <1>3

\* A window that is over makes room for one that starts now, or late ticks ago.
LEMMA FitsRestart ==
    ASSUME NEW h \in [Spans -> Nat], NEW a \in Nat, NEW n \in Nat, NEW most \in Nat,
           NEW late \in 0..MaxDelay, Fits(h, a, n, most), n <= most, a >= Second + late,
           h[0] = 0
    PROVE  Fits(h, late, 0, most)
<1> SUFFICES ASSUME NEW j \in Spans
             PROVE  /\ late >= j + Second + MaxDelay - 1 => h[j] = 0
                    /\ \A k \in Nat : late + k * Second >= j + MaxDelay - 1
                                        => h[j] <= k * most + 0
  BY DEF Fits
<1>1. j \in Nat /\ h[j] \in Nat
  BY Bounds DEF Spans
<1>2. late >= j + Second + MaxDelay - 1 => j = 0
  BY <1>1, LimiterAssumption
<1>3. ASSUME late + 0 * Second >= j + MaxDelay - 1 PROVE h[j] <= 0 * most + 0
  <2>1. j = 0 \/ a >= j + Second + MaxDelay - 1
    BY <1>1, <1>3, Bounds
  <2> QED
    BY <1>1, <2>1 DEF Fits
<1>4. ASSUME NEW k \in Nat, k # 0, late + k * Second >= j + MaxDelay - 1
      PROVE  h[j] <= k * most + 0
  <2>1. PICK i \in Nat : k = i + 1
    BY <1>4
  <2>2. k * Second = i * Second + Second /\ k * most = i * most + most
    BY <2>1, Bounds
  <2>3. i * Second \in Nat /\ i * most \in Nat
    BY Bounds
  <2>4. a + i * Second >= j + MaxDelay - 1
    BY <1>1, <1>4, <2>2, <2>3, Bounds
  <2>5. h[j] <= i * most + n
    BY <2>4 DEF Fits
  <2> QED
    BY <1>1, <2>2, <2>3, <2>5
<1> QED
  BY <1>2, <1>3, <1>4

\* One more call is counted in a window that is not over.
LEMMA FitsCount ==
    ASSUME NEW h \in [Spans -> Nat], NEW a \in Nat, NEW n \in Nat, NEW most \in Nat,
           Fits(h, a, n, most), a < Second + MaxDelay
    PROVE  Fits(OneMore(h), a, n + 1, most)
<1> DEFINE g == OneMore(h)
<1> SUFFICES ASSUME NEW j \in Spans
             PROVE  /\ a >= j + Second + MaxDelay - 1 => g[j] = 0
                    /\ \A k \in Nat : a + k * Second >= j + MaxDelay - 1
                                        => g[j] <= k * most + (n + 1)
  BY DEF Fits
<1>1. j \in Nat /\ h[j] \in Nat /\ g[j] = IF j = 0 THEN 0 ELSE h[j] + 1
  BY Bounds DEF Spans, OneMore
<1>2. a >= j + Second + MaxDelay - 1 => j = 0
  BY <1>1, Bounds
<1>3. ASSUME NEW k \in Nat, a + k * Second >= j + MaxDelay - 1
      PROVE  g[j] <= k * most + (n + 1)
  <2>1. h[j] <= k * most + n /\ k * most \in Nat
    BY <1>3 DEF Fits
  <2> QED
    BY <1>1, <2>1
<1> QED
  BY <1>1, <1>2, <1>3

\* A tick makes the window and the history older together.
LEMMA FitsTick ==
    ASSUME NEW h \in [Spans -> Nat], NEW a \in Ages, NEW n \in Nat, NEW most \in Nat,
           Fits(h, a, n, most)
    PROVE  Fits(Later(h), Older(a), n, most)
<1> DEFINE g == Later(h)
<1> SUFFICES ASSUME NEW j \in Spans
             PROVE  /\ Older(a) >= j + Second + MaxDelay - 1 => g[j] = 0
                    /\ \A k \in Nat : Older(a) + k * Second >= j + MaxDelay - 1
                                        => g[j] <= k * most + n
  BY DEF Fits
<1>1. j \in Nat /\ a \in Nat /\ g[j] = IF j = 0 THEN 0 ELSE h[j - 1]
  BY Bounds DEF Spans, Ages, Later
<1>2. Older(a) \in Nat /\ Older(a) <= a + 1
  BY <1>1, Bounds DEF Older
<1>3. CASE j = 0
  BY <1>1, <1>3
<1>4. CASE j # 0
  <2>1. j - 1 \in Spans /\ h[j - 1] \in Nat
    BY <1>1, <1>4, Bounds DEF Spans
  <2>2. Older(a) >= j + Second + MaxDelay - 1 => a >= (j - 1) + Second + MaxDelay - 1
    BY <1>1, <1>2, Bounds
  <2>3. ASSUME NEW k \in Nat, Older(a) + k * Second >= j + MaxDelay - 1
        PROVE  h[j - 1] <= k * most + n
    <3>1. k * Second \in Nat
      BY Bounds
    <3>2. a + k * Second >= (j - 1) + MaxDelay - 1
      BY <1>1, <1>2, <2>3, <3>1, Bounds
    <3> QED
      BY <2>1, <3>2 DEF Fits
  <2> QED
    BY <1>1, <1>4, <2>1, <2>2, <2>3 DEF Fits
<1> QED
  BY <1>3, <1>4

\* So a second admits no more than the windows it can touch.
LEMMA FitsBound ==
    ASSUME NEW h \in [Spans -> Nat], NEW a \in Nat, NEW n \in Nat, NEW most \in Nat,
           Fits(h, a, n, most), n <= most
    PROVE  h[Second] <= Windows * most
<1> DEFINE k == (2 * Second - 2 + MaxDelay) \div Second
<1>1. 2 * Second - 2 + MaxDelay \in Nat /\ Second \in Nat /\ Second > 0
  BY LimiterAssumption
<1>2. k \in Nat /\ 2 * Second - 2 + MaxDelay < (k + 1) * Second
  BY <1>1
<1>3. Windows = k + 1
  BY <1>2 DEF Windows
<1> HIDE DEF k
<1>4. Second \in Spans /\ h[Second] \in Nat
  BY LimiterAssumption DEF Spans, Forever
<1>5. (k + 1) * Second = k * Second + Second /\ k * Second \in Nat
  BY <1>1, <1>2
<1>6. a + k * Second >= Second + MaxDelay - 1
  BY <1>1, <1>2, <1>5, Bounds
<1>7. h[Second] <= k * most + n
  BY <1>2, <1>4, <1>6 DEF Fits
<1>8. (k + 1) * most = k * most + most /\ k * most \in Nat
  BY <1>2
<1> QED
  BY <1>3, <1>4, <1>7, <1>8

LEMMA CoversCount ==
    ASSUME NEW h \in [Spans -> Nat], NEW a \in Nat, NEW n \in Nat, Covers(h, a, n)
    PROVE  Covers(OneMore(h), a, n + 1)
<1> SUFFICES ASSUME NEW j \in Spans, j > a PROVE n + 1 <= OneMore(h)[j]
  BY DEF Covers
<1>1. j \in Nat /\ j # 0 /\ h[j] \in Nat /\ n <= h[j]
  BY Bounds DEF Spans, Covers
<1>2. OneMore(h)[j] = h[j] + 1
  BY <1>1 DEF OneMore
<1> QED
  BY <1>1, <1>2

LEMMA CoversTick ==
    ASSUME NEW h \in [Spans -> Nat], NEW a \in Ages, NEW n \in Nat, Covers(h, a, n)
    PROVE  Covers(Later(h), Older(a), n)
<1> SUFFICES ASSUME NEW j \in Spans, j > Older(a) PROVE n <= Later(h)[j]
  BY DEF Covers
<1>1. j \in Nat /\ a \in Nat /\ j <= Forever /\ a <= Forever
  BY Bounds DEF Spans, Ages
<1>2. a # Forever /\ j > a + 1
  BY <1>1, Bounds DEF Older
<1>3. j # 0 /\ j - 1 \in Spans /\ j - 1 > a
  BY <1>1, <1>2, Bounds DEF Spans
<1>4. Later(h)[j] = h[j - 1]
  BY <1>3 DEF Later
<1> QED
  BY <1>3, <1>4 DEF Covers

-----------------------------------------------------------------------------
(* What a budget says of its history.  A budget that is not known had its  *)
(* last window a minute ago, or never.                                     *)

Told(h, b, most) ==
    /\ h[0] = 0
    /\ Covers(h, b.age, b.count)
    /\ IF b = Unknown THEN Fits(h, Minute, most, most) ELSE Fits(h, b.age, b.count, most)

Budget(most) == [age : Ages, count : 0..most]

LEMMA ToldCurrent ==
    ASSUME NEW h \in [Spans -> Nat], NEW most \in Nat, NEW b \in Budget(most),
           NEW late \in 0..MaxDelay, Told(h, b, most)
    PROVE  /\ Current(b, late) \in Budget(most)
           /\ Current(b, late) # Unknown
           /\ Current(b, late).age < Second + late
           /\ Told(h, Current(b, late), most)
<1>1. /\ late \in Nat /\ late <= MaxDelay /\ late < Forever /\ late \in Ages
      /\ Forever >= Second + late /\ Minute >= Second + late /\ Second > 0
  BY LimiterAssumption DEF Ages, Forever
<1>2. b.age \in Nat /\ b.count \in 0..most /\ b.count \in Nat
  BY Bounds DEF Budget, Ages
<1>3. CASE ~Over(b, Second, late)
  <2>1. Current(b, late) = b /\ b.age < Second + late
    BY <1>1, <1>2, <1>3, Bounds DEF Current, Over
  <2>2. b # Unknown
    BY <1>1, <2>1, Bounds DEF Unknown
  <2> QED
    BY <2>1, <2>2
<1>4. CASE Over(b, Second, late)
  <2> DEFINE new == [age |-> late, count |-> 0]
  <2>1. Current(b, late) = new /\ b.age >= Second + late
    BY <1>4 DEF Current, Over
  <2>2. new.age = late /\ new.count = 0 /\ new # Unknown /\ new \in Budget(most)
    BY <1>1 DEF Unknown, Budget
  <2>3. Fits(h, late, 0, most)
    <3>1. CASE b = Unknown
      BY <1>1, <3>1, FitsRestart, Bounds DEF Told
    <3>2. CASE b # Unknown
      BY <1>2, <2>1, <3>2, FitsRestart DEF Told
    <3> QED
      BY <3>1, <3>2
  <2>4. Covers(h, late, 0)
    BY DEF Covers
  <2>5. Told(h, new, most)
    BY <2>2, <2>3, <2>4 DEF Told
  <2> QED
    BY <1>1, <2>1, <2>2, <2>5, Bounds
<1> QED
  BY <1>3, <1>4

\* A call that is admitted is counted in the window it was compared with.
LEMMA ToldCounted ==
    ASSUME NEW h \in [Spans -> Nat], NEW most \in Nat, NEW b \in Budget(most),
           NEW late \in 0..MaxDelay, Told(h, b, most)
    PROVE  Told(OneMore(h), Counted(Current(b, late)), most)
<1>1. PICK c \in Budget(most) : c = Current(b, late)
  BY ToldCurrent
<1>2. c # Unknown /\ c.age < Second + late /\ Told(h, c, most)
  BY <1>1, ToldCurrent
<1>3. c.age \in Nat /\ c.count \in Nat /\ c.age < Second + MaxDelay
  BY <1>2, Bounds DEF Budget, Ages
<1>4. Fits(OneMore(h), c.age, c.count + 1, most) /\ Covers(OneMore(h), c.age, c.count + 1)
  BY <1>2, <1>3, FitsCount, CoversCount DEF Told
<1>5. Counted(c).age = c.age /\ Counted(c).count = c.count + 1
  BY DEF Counted, Budget
<1>6. Counted(c) # Unknown
  BY <1>3, <1>5 DEF Unknown
<1>7. OneMore(h)[0] = 0
  BY Bounds DEF OneMore, Spans
<1> QED
  BY <1>1, <1>4, <1>5, <1>6, <1>7 DEF Told

LEMMA ToldTick ==
    ASSUME NEW h \in [Spans -> Nat], NEW most \in Nat, NEW b \in Budget(most), Told(h, b, most)
    PROVE  Told(Later(h), [b EXCEPT !.age = Older(@)], most)
<1> DEFINE c == [b EXCEPT !.age = Older(b.age)]
<1>1. b.age \in Ages /\ b.count \in Nat /\ b.count <= most
  BY DEF Budget
<1>2. c.age = Older(b.age) /\ c.count = b.count
  BY DEF Budget
<1>3. Covers(Later(h), c.age, c.count)
  BY <1>1, <1>2, CoversTick DEF Told
<1>4. Later(h)[0] = 0
  BY Bounds DEF Later, Spans
<1>5. CASE b = Unknown
  <2>1. c = Unknown
    BY <1>5 DEF Unknown, Older
  <2>2. Minute \in Ages /\ Minute \in Nat /\ Older(Minute) \in Nat /\ Older(Minute) >= Minute
    BY Bounds DEF Ages, Older, Forever
  <2>3. Fits(Later(h), Older(Minute), most, most)
    BY <1>5, <2>2, FitsTick DEF Told
  <2>4. Later(h) \in [Spans -> Nat]
    BY HistoryType
  <2>5. Fits(Later(h), Minute, most, most)
    BY <2>2, <2>3, <2>4, FitsLess
  <2> QED
    BY <1>3, <1>4, <2>1, <2>5 DEF Told
<1>6. CASE b # Unknown
  <2>1. Fits(Later(h), c.age, c.count, most)
    BY <1>1, <1>2, <1>6, FitsTick DEF Told
  <2>2. CASE c # Unknown
    BY <1>3, <1>4, <2>1, <2>2 DEF Told
  <2>3. CASE c = Unknown
    <3>1. Fits(Later(h), Forever, 0, most)
      BY <2>1, <2>3 DEF Unknown
    <3>2. Forever \in Nat /\ Minute \in Nat /\ Forever >= Minute /\ Later(h) \in [Spans -> Nat]
      BY Bounds, HistoryType DEF Forever
    <3>3. Fits(Later(h), Minute, most, most)
      BY <3>1, <3>2, FitsLess
    <3> QED
      BY <1>3, <1>4, <2>3, <3>3 DEF Told
  <2> QED
    BY <2>2, <2>3
<1> QED
  BY <1>5, <1>6

\* A budget whose window is a minute old can be forgotten.
LEMMA ToldForgotten ==
    ASSUME NEW h \in [Spans -> Nat], NEW most \in Nat, NEW b \in Budget(most),
           NEW late \in 0..MaxDelay, Told(h, b, most), Over(b, Minute, late)
    PROVE  Told(h, Unknown, most)
<1>1. b.age \in Nat /\ b.count \in Nat /\ b.count <= most /\ b.age >= Minute
  BY Bounds DEF Budget, Ages, Over
<1>2. Fits(h, Minute, most, most)
  BY <1>1, FitsLess, Bounds DEF Told
<1>3. Covers(h, Unknown.age, Unknown.count)
  BY Bounds DEF Covers, Unknown, Spans
<1> QED
  BY <1>2, <1>3 DEF Told

\* What the properties need of a budget.
LEMMA ToldBound ==
    ASSUME NEW h \in [Spans -> Nat], NEW most \in Nat, NEW b \in Budget(most), Told(h, b, most)
    PROVE  h[Second] <= Windows * most
<1>1. b.age \in Nat /\ b.count \in Nat /\ b.count <= most
  BY Bounds DEF Budget, Ages
<1>2. CASE b = Unknown
  BY <1>2, FitsBound, Bounds DEF Told
<1>3. CASE b # Unknown
  BY <1>1, <1>3, FitsBound DEF Told
<1> QED
  BY <1>2, <1>3

LEMMA ToldRefusal ==
    ASSUME NEW h \in [Spans -> Nat], NEW most \in Nat, NEW b \in Budget(most),
           NEW late \in 0..MaxDelay, Told(h, b, most), ~(Current(b, late).count < most)
    PROVE  h[Second + MaxDelay] >= most
<1>1. PICK c \in Budget(most) : c = Current(b, late)
  BY ToldCurrent
<1>2. c.age < Second + late /\ Covers(h, c.age, c.count)
  BY <1>1, ToldCurrent DEF Told
<1>3. Second + MaxDelay \in Spans /\ Second + MaxDelay > c.age
  BY <1>2, LimiterAssumption DEF Spans, Forever, Budget, Ages
<1>4. c.count <= h[Second + MaxDelay]
  BY <1>2, <1>3 DEF Covers
<1>5. c.count \in Nat /\ c.count >= most /\ h[Second + MaxDelay] \in Nat
  BY <1>1, <1>3 DEF Budget
<1> QED
  BY <1>4, <1>5

-----------------------------------------------------------------------------
(* The limiter's steps.                                                    *)

Seen == {s \in Source : \E j \in Spans : admitted[s][j] # 0}

HistoryInv ==
    /\ Told(total, global, PerSecond)
    /\ \A s \in Source : Told(admitted[s], sources[s], PerSource)
    /\ IsFiniteSet(Seen)

LEMMA BudgetTypes ==
    ASSUME LimiterTypeOK
    PROVE  /\ total \in [Spans -> Nat] /\ global \in Budget(PerSecond)
           /\ \A s \in Source : /\ admitted[s] \in [Spans -> Nat]
                                /\ sources[s] \in Budget(PerSource)
           /\ Unknown \in Budget(PerSource)
<1>1. Unknown \in Budget(PerSource)
  BY Bounds DEF Unknown, Budget, Ages
<1>2. [age : Ages, count : 1..PerSource] \subseteq Budget(PerSource)
  BY Bounds DEF Budget
<1> QED
  BY <1>1, <1>2 DEF LimiterTypeOK, Budget

\* A call's reading is late, and the sources it does not find any more were told.
LEMMA PrunedTold ==
    ASSUME LimiterTypeOK, HistoryInv, NEW late \in 0..MaxDelay, NEW s \in Source
    PROVE  /\ Pruned(late)[s] \in Budget(PerSource)
           /\ Told(admitted[s], Pruned(late)[s], PerSource)
           /\ Pruned(late)[s] # Unknown => Pruned(late)[s] = sources[s]
                                           /\ ~Over(sources[s], Minute, late)
<1>1. Pruned(late)[s] = IF Over(sources[s], Minute, late) THEN Unknown ELSE sources[s]
  BY DEF Pruned
<1>2. CASE Over(sources[s], Minute, late)
  <2>1. Told(admitted[s], Unknown, PerSource)
    BY <1>2, BudgetTypes, ToldForgotten, Bounds DEF HistoryInv
  <2> QED
    BY <1>1, <1>2, <2>1, BudgetTypes
<1>3. CASE ~Over(sources[s], Minute, late)
  BY <1>1, <1>3, BudgetTypes DEF HistoryInv
<1> QED
  BY <1>2, <1>3

LEMMA RefuseHistory ==
    ASSUME LimiterTypeOK, HistoryInv, NEW c \in Call, RefuseGlobal(c) \/ RefuseSource(c)
    PROVE  HistoryInv'
<1>1. PICK late \in 0..MaxDelay : late = calls[c].late
  BY DEF RefuseGlobal, RefuseSource, LimiterTypeOK
<1>2. global' = Current(global, late) /\ UNCHANGED <<admitted, total>>
  BY <1>1 DEF RefuseGlobal, RefuseSource
<1>3. Told(total, global, PerSecond)'
  BY <1>2, BudgetTypes, ToldCurrent, Bounds DEF HistoryInv, Told
<1>4. ASSUME NEW s \in Source PROVE Told(admitted[s], sources'[s], PerSource)
  <2>1. sources' = sources \/ sources' = Pruned(late)
    BY <1>1 DEF RefuseGlobal, RefuseSource
  <2> QED
    BY <2>1, PrunedTold DEF HistoryInv
<1>5. Seen' = Seen
  BY <1>2 DEF Seen
<1> QED
  BY <1>2, <1>3, <1>4, <1>5 DEF HistoryInv, Told

LEMMA AllowHistory ==
    ASSUME LimiterTypeOK, HistoryInv, NEW c \in Call, Allow(c)
    PROVE  HistoryInv'
<1>1. PICK late \in 0..MaxDelay, u \in Source : late = calls[c].late /\ u = calls[c].source
  BY DEF Allow, LimiterTypeOK
<1>2. /\ global' = Counted(Current(global, late)) /\ total' = OneMore(total)
      /\ sources' = [Pruned(late) EXCEPT ![u] = Counted(Current(@, late))]
      /\ admitted' = [admitted EXCEPT ![u] = OneMore(@)]
  BY <1>1 DEF Allow
<1>3. Told(OneMore(total), Counted(Current(global, late)), PerSecond)
  BY BudgetTypes, ToldCounted, Bounds DEF HistoryInv
<1>4. ASSUME NEW s \in Source PROVE Told(admitted'[s], sources'[s], PerSource)
  <2>1. CASE s = u
    <3>1. Told(OneMore(admitted[u]), Counted(Current(Pruned(late)[u], late)), PerSource)
      BY BudgetTypes, PrunedTold, ToldCounted, Bounds
    <3>2. admitted'[u] = OneMore(admitted[u])
      BY <1>2 DEF LimiterTypeOK
    <3>3. sources'[u] = Counted(Current(Pruned(late)[u], late))
      BY <1>2 DEF Pruned
    <3> QED
      BY <2>1, <3>1, <3>2, <3>3
  <2>2. CASE s # u
    <3>1. admitted'[s] = admitted[s] /\ sources'[s] = Pruned(late)[s]
      BY <1>2, <2>2 DEF LimiterTypeOK, Pruned
    <3> QED
      BY <3>1, PrunedTold
  <2> QED
    BY <2>1, <2>2
<1>5. IsFiniteSet(Seen')
  <2>1. Seen' \subseteq Seen \cup {u}
    BY <1>2 DEF Seen, LimiterTypeOK
  <2>2. IsFiniteSet(Seen \cup {u})
    BY FS_AddElement DEF HistoryInv
  <2> QED
    BY <2>1, <2>2, FS_Subset
<1>6. Told(total, global, PerSecond)'
  BY <1>2, <1>3 DEF Told
<1>7. \A s \in Source : Told(admitted[s], sources[s], PerSource)'
  BY <1>4 DEF Told
<1> QED
  BY <1>5, <1>6, <1>7 DEF HistoryInv, Seen

LEMMA TickHistory ==
    ASSUME LimiterTypeOK, HistoryInv, Tick PROVE HistoryInv'
<1>1. Told(total, global, PerSecond)'
  <2>1. Told(Later(total), [global EXCEPT !.age = Older(@)], PerSecond)
    BY BudgetTypes, ToldTick, Bounds DEF HistoryInv
  <2> QED
    BY <2>1 DEF Tick, Told
<1>2. ASSUME NEW s \in Source PROVE Told(admitted[s], sources[s], PerSource)'
  <2>1. Told(Later(admitted[s]), [sources[s] EXCEPT !.age = Older(@)], PerSource)
    BY BudgetTypes, ToldTick, Bounds DEF HistoryInv
  <2>2. admitted'[s] = Later(admitted[s]) /\ sources'[s] = [sources[s] EXCEPT !.age = Older(@)]
    BY DEF Tick
  <2> QED
    BY <2>1, <2>2 DEF Told
<1>3. IsFiniteSet(Seen)'
  <2>1. ASSUME NEW s \in Source, NEW j \in Spans, admitted'[s][j] # 0
        PROVE  s \in Seen
    <3>1. admitted'[s][j] = IF j = 0 THEN 0 ELSE admitted[s][j - 1]
      BY DEF Tick, Later
    <3>2. j # 0 /\ j - 1 \in Spans /\ admitted[s][j - 1] # 0
      BY <2>1, <3>1, Bounds DEF Spans
    <3> QED
      BY <3>2 DEF Seen
  <2>2. Seen' \subseteq Seen
    BY <2>1 DEF Seen
  <2> QED
    BY <2>2, FS_Subset DEF HistoryInv
<1> QED
  BY <1>1, <1>2, <1>3 DEF HistoryInv

\* What the budgets say of the history holds in every reachable state.
LEMMA HistoryInvariant == LimiterSpec => []HistoryInv
<1>1. LimiterInit => HistoryInv
  <2> SUFFICES ASSUME LimiterInit PROVE HistoryInv
    OBVIOUS
  <2> DEFINE h == [n \in Spans |-> 0]
  <2>1. \A j \in Spans : h[j] = 0
    OBVIOUS
  <2>2. ASSUME NEW most \in Nat PROVE Told(h, Unknown, most)
    <3>1. \A k \in Nat : k * most + most >= 0
      OBVIOUS
    <3>2. Fits(h, Minute, most, most)
      BY <2>1, <3>1 DEF Fits
    <3>3. Covers(h, Unknown.age, Unknown.count)
      BY Bounds DEF Covers, Unknown, Spans
    <3>4. h[0] = 0
      BY Bounds DEF Spans
    <3> QED
      BY <3>2, <3>3, <3>4 DEF Told
  <2>3. total = h /\ global = Unknown
        /\ \A s \in Source : admitted[s] = h /\ sources[s] = Unknown
    BY DEF LimiterInit
  <2>4. Seen = {}
    BY <2>1, <2>3 DEF Seen
  <2> HIDE DEF h
  <2> QED
    BY <2>2, <2>3, <2>4, FS_EmptySet, Bounds DEF HistoryInv
<1>2. LimiterTypeOK /\ HistoryInv /\ [LimiterNext]_limiterVars => HistoryInv'
  <2> SUFFICES ASSUME LimiterTypeOK, HistoryInv, [LimiterNext]_limiterVars PROVE HistoryInv'
    OBVIOUS
  <2>1. CASE UNCHANGED <<global, sources, admitted, total>>
    BY <2>1 DEF HistoryInv, Told, Seen
  <2>2. ASSUME NEW c \in Call, NEW s \in Source, Arrive(c, s) PROVE HistoryInv'
    BY <2>1, <2>2 DEF Arrive
  <2>3. UNCHANGED limiterVars => HistoryInv'
    BY <2>1 DEF limiterVars
  <2> QED
    BY <2>2, <2>3, RefuseHistory, AllowHistory, TickHistory DEF LimiterNext
<1>3. TableInv => LimiterTypeOK
  BY DEF TableInv
<1> QED
  BY <1>1, <1>2, <1>3, LimiterInvariant, PTL DEF LimiterSpec

\* No second of real time admits more than the windows it can touch allow, of one
\* source and of all of them, however many sources and calls there are and however
\* late their readings of the clock (limiter.allow).
THEOREM RateIsBounded == LimiterSpec => []RateBounded
<1>1. LimiterTypeOK /\ HistoryInv => RateBounded
  BY BudgetTypes, ToldBound, Bounds DEF HistoryInv, RateBounded
<1>2. TableInv => LimiterTypeOK
  BY DEF TableInv
<1> QED
  BY <1>1, <1>2, LimiterInvariant, HistoryInvariant, PTL

Justified(c) ==
    \/ total[Second + MaxDelay] >= PerSecond
    \/ admitted[calls[c].source][Second + MaxDelay] >= PerSource
    \/ Cardinality({s \in Source : admitted[s][Forever] > 0}) >= TableSize

\* A call is refused because of calls admitted shortly before, and of nothing else.
LEMMA RefusedIsJustified ==
    ASSUME TableInv, HistoryInv, NEW c \in Call, RefuseGlobal(c) \/ RefuseSource(c)
    PROVE  Justified(c)
<1>1. LimiterTypeOK
  BY DEF TableInv
<1>2. PICK late \in 0..MaxDelay, u \in Source : late = calls[c].late /\ u = calls[c].source
  BY <1>1 DEF RefuseGlobal, RefuseSource, LimiterTypeOK
<1>3. CASE RefuseGlobal(c)
  <2>1. ~(Current(global, late).count < PerSecond)
    BY <1>2, <1>3 DEF RefuseGlobal, GlobalLeft
  <2>2. total[Second + MaxDelay] >= PerSecond
    BY <1>1, <2>1, BudgetTypes, ToldRefusal, Bounds DEF HistoryInv
  <2> QED
    BY <2>2 DEF Justified
<1>4. CASE RefuseSource(c) /\ ~SourceLeft(Current(Pruned(late)[u], late))
  <2>1. ~(Current(Pruned(late)[u], late).count < PerSource)
    BY <1>4 DEF SourceLeft
  <2>2. admitted[u][Second + MaxDelay] >= PerSource
    BY <1>1, <2>1, BudgetTypes, PrunedTold, ToldRefusal, Bounds
  <2> QED
    BY <1>2, <2>2 DEF Justified
<1>5. CASE RefuseSource(c) /\ ~HasRoom(Pruned(late), u)
  <2> DEFINE table == Pruned(late)
             recent == {s \in Source : admitted[s][Forever] > 0}
  <2>1. IsFiniteSet(Known(table)) /\ Cardinality(Known(table)) \in Nat
    BY PrunedType, FS_CardinalityType
  <2>2. Cardinality(Known(table)) >= TableSize
    BY <1>5, <2>1, Bounds DEF HasRoom
  <2>3. ASSUME NEW s \in Known(table) PROVE s \in recent
    <3>1. /\ s \in Source /\ sources[s] # Unknown /\ ~Over(sources[s], Minute, late)
          /\ Told(admitted[s], sources[s], PerSource)
      BY <1>1, PrunedTold DEF Known, HistoryInv
    <3>2. sources[s] \in [age : Ages, count : 1..PerSource]
      BY <1>1, <3>1 DEF LimiterTypeOK
    <3>3. Forever > sources[s].age /\ sources[s].count >= 1 /\ Forever \in Spans
      BY <3>1, <3>2, Bounds DEF Over, Ages, Forever, Spans
    <3>4. sources[s].count <= admitted[s][Forever]
      BY <3>1, <3>3 DEF Told, Covers
    <3>5. admitted[s][Forever] \in Nat /\ sources[s].count \in Nat
      BY <1>1, <3>1, <3>2, <3>3, BudgetTypes, Bounds
    <3> QED
      BY <3>1, <3>3, <3>4, <3>5
  <2>4. IsFiniteSet(recent)
    <3>1. recent \subseteq Seen
      BY Bounds DEF Seen, Spans
    <3> QED
      BY <3>1, FS_Subset DEF HistoryInv
  <2>5. Cardinality(Known(table)) <= Cardinality(recent) /\ Cardinality(recent) \in Nat
    BY <2>3, <2>4, FS_Subset, FS_CardinalityType
  <2>6. Cardinality(recent) >= TableSize
    BY <2>1, <2>2, <2>5, Bounds
  <2> QED
    BY <2>6 DEF Justified
<1> QED
  BY <1>2, <1>3, <1>4, <1>5 DEF RefuseSource

\* A call is refused only for as many admitted calls as a window allows, shortly
\* before, or for a full table of sources that called within a minute: nobody is
\* refused for having been refused (limiter.allow).
THEOREM RefusalsAreJustified == LimiterSpec => RefusalJustified
<1>1. ASSUME TableInv, HistoryInv, [LimiterNext]_limiterVars, NEW c \in Call,
             calls[c] # Idle, calls'[c] = Idle, admitted' = admitted
      PROVE  Justified(c)
  <2>1. ASSUME NEW e \in Call, RefuseGlobal(e) \/ RefuseSource(e) PROVE Justified(c)
    <3>1. e = c
      BY <1>1, <2>1 DEF RefuseGlobal, RefuseSource, Return, TableInv, LimiterTypeOK
    <3> QED
      BY <1>1, <2>1, <3>1, RefusedIsJustified
  <2>2. ASSUME NEW e \in Call, NEW s \in Source, Arrive(e, s) PROVE FALSE
    BY <1>1, <2>2 DEF Arrive, TableInv, LimiterTypeOK
  <2>3. ASSUME NEW e \in Call, Allow(e) PROVE FALSE
    <3>1. PICK u \in Source : u = calls[e].source
      BY <1>1, <2>3 DEF Allow, TableInv, LimiterTypeOK
    <3>2. admitted' = [admitted EXCEPT ![u] = OneMore(admitted[u])]
      BY <2>3, <3>1 DEF Allow
    <3>3. admitted \in [Source -> [Spans -> Nat]]
      BY <1>1 DEF TableInv, LimiterTypeOK
    <3>4. admitted'[u] = OneMore(admitted[u]) /\ admitted[u] \in [Spans -> Nat]
      BY <3>2, <3>3
    <3>5. 1 \in Spans /\ admitted[u][1] \in Nat
      BY <3>4, Bounds DEF Spans
    <3>6. OneMore(admitted[u])[1] = admitted[u][1] + 1
      BY <3>5 DEF OneMore
    <3>7. admitted'[u] = admitted[u]
      BY <1>1
    <3> QED
      BY <3>4, <3>5, <3>6, <3>7
  <2>4. ASSUME Tick PROVE FALSE
    <3>1. calls'[c] = [calls[c] EXCEPT !.late = @ + 1]
      BY <1>1, <2>4 DEF Tick
    <3>2. calls[c] \in [source : Source, late : 0..MaxDelay]
      BY <1>1 DEF TableInv, LimiterTypeOK
    <3>3. calls'[c].source \in Source
      BY <3>1, <3>2
    <3> QED
      BY <1>1, <3>3, LimiterAssumption DEF Idle
  <2>5. calls' # calls
    BY <1>1
  <2> QED
    BY <1>1, <2>1, <2>2, <2>3, <2>4, <2>5 DEF LimiterNext, limiterVars
<1>2. TableInv /\ HistoryInv /\ [LimiterNext]_limiterVars =>
         [\A c \in Call : calls[c] # Idle /\ calls'[c] = Idle /\ admitted' = admitted =>
            Justified(c)]_limiterVars
  BY <1>1
<1> QED
  BY <1>2, LimiterInvariant, HistoryInvariant, PTL DEF RefusalJustified, LimiterSpec, Justified
=============================================================================
