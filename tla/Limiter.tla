------------------------------ MODULE Limiter ------------------------------
(***************************************************************************)
(* The request limiter (limiter.allow in src/internal/coordinator/stun.go),*)
(* which every HTTPS request and, without the relay, every STUN datagram   *)
(* passes.                                                                 *)
(*                                                                         *)
(* A caller reads the time before it waits for the lock, so calls are      *)
(* served with readings that are late and out of order.  Times are kept as *)
(* ages: a tick makes every window and every reading one tick older, and   *)
(* nothing grows older than anything can tell, so the clock needs no bound.*)
(***************************************************************************)
EXTENDS Integers, FiniteSets

CONSTANTS
    Source,       \* addresses
    Call,         \* calls of allow that can be in flight at once
    None,         \* no source
    PerSecond,    \* calls allowed per window, all sources (1000)
    PerSource,    \* calls allowed per window and source (20)
    TableSize,    \* sources remembered at once (1024)
    Second,       \* length of a window, in ticks
    Minute,       \* a source whose window is this old is forgotten, in ticks
    MaxDelay      \* bound: how long a caller may wait for the lock, in ticks

ASSUME LimiterAssumption ==
    /\ None \notin Source
    /\ {PerSecond, PerSource, TableSize, Second} \subseteq Nat \ {0}
    /\ {Minute, MaxDelay} \subseteq Nat
    /\ Minute >= Second + MaxDelay

VARIABLES
    global,       \* limiter.global: age of the window's start, and its count
    sources,      \* limiter.sources: the same for every source remembered
    calls,        \* the calls waiting: their source, how old their reading is
    admitted,     \* history: source -> calls of it admitted in the last n ticks
    total         \* history: the same for all sources together

limiterVars == <<global, sources, calls, admitted, total>>

Forever == Minute + MaxDelay
Ages == 0..Forever
Spans == 0..Forever

Unknown == [age |-> Forever, count |-> 0]   \* sourceBudget{} is that old
Idle == [source |-> None, late |-> 0]

LimiterTypeOK ==
    /\ global \in [age : Ages, count : 0..PerSecond]
    /\ sources \in [Source -> {Unknown} \cup [age : Ages, count : 1..PerSource]]
    /\ calls \in [Call -> {Idle} \cup [source : Source, late : 0..MaxDelay]]
    /\ admitted \in [Source -> [Spans -> Nat]]
    /\ total \in [Spans -> Nat]

LimiterInit ==
    /\ global = Unknown
    /\ sources = [s \in Source |-> Unknown]
    /\ calls = [c \in Call |-> Idle]
    /\ admitted = [s \in Source |-> [n \in Spans |-> 0]]
    /\ total = [n \in Spans |-> 0]

-----------------------------------------------------------------------------
\* !b.at.Add(span).After(now), for a reading that is late ticks old.
Over(b, span, late) == b.age >= span + late

\* A window that is over starts again at the reading.
Current(b, late) ==
    IF Over(b, Second, late) THEN [age |-> late, count |-> 0] ELSE b

Known(table) == {s \in Source : table[s] # Unknown}

\* Mutant: the sources are never forgotten.
KeepAll(late) == sources

\* Sources whose window is a minute old are deleted.
Pruned(late) ==
    [s \in Source |-> IF Over(sources[s], Minute, late) THEN Unknown ELSE sources[s]]

\* Mutants: a source that is not in the table is let in when it is full; the
\* counts are compared one too late.
HasAnyRoom(table, s) == TRUE
SourceReached(b) == b.count <= PerSource
GlobalReached(b) == b.count <= PerSecond

HasRoom(table, s) == table[s] # Unknown \/ Cardinality(Known(table)) < TableSize
SourceLeft(b) == b.count < PerSource
GlobalLeft(b) == b.count < PerSecond

Counted(b) == [b EXCEPT !.count = @ + 1]

\* A history when one more call is admitted now, and when a tick has passed.
OneMore(history) == [n \in Spans |-> IF n = 0 THEN 0 ELSE history[n] + 1]
Later(history) == [n \in Spans |-> IF n = 0 THEN 0 ELSE history[n - 1]]

-----------------------------------------------------------------------------
\* The caller reads time.Now() and goes for the lock.
Arrive(c, s) ==
    /\ calls[c] = Idle
    /\ calls' = [calls EXCEPT ![c] = [source |-> s, late |-> 0]]
    /\ UNCHANGED <<global, sources, admitted, total>>

Return(c) == calls' = [calls EXCEPT ![c] = Idle]

RefuseGlobal(c) ==
    LET g == Current(global, calls[c].late) IN
    /\ calls[c] # Idle
    /\ ~GlobalLeft(g)
    /\ global' = g
    /\ Return(c)
    /\ UNCHANGED <<sources, admitted, total>>

\* A refused call is not counted, and a source it names is not remembered.
RefuseSource(c) ==
    LET late == calls[c].late
        s == calls[c].source
        table == Pruned(late)
    IN
    /\ calls[c] # Idle
    /\ GlobalLeft(Current(global, late))
    /\ ~HasRoom(table, s) \/ ~SourceLeft(Current(table[s], late))
    /\ global' = Current(global, late)
    /\ sources' = table
    /\ Return(c)
    /\ UNCHANGED <<admitted, total>>

Allow(c) ==
    LET late == calls[c].late
        s == calls[c].source
        table == Pruned(late)
    IN
    /\ calls[c] # Idle
    /\ GlobalLeft(Current(global, late))
    /\ HasRoom(table, s)
    /\ SourceLeft(Current(table[s], late))
    /\ global' = Counted(Current(global, late))
    /\ sources' = [table EXCEPT ![s] = Counted(Current(@, late))]
    /\ admitted' = [admitted EXCEPT ![s] = OneMore(@)]
    /\ total' = OneMore(total)
    /\ Return(c)

Older(age) == IF age = Forever THEN age ELSE age + 1

Tick ==
    /\ \A c \in Call : calls[c] # Idle => calls[c].late < MaxDelay
    /\ global' = [global EXCEPT !.age = Older(@)]
    /\ sources' = [s \in Source |-> [sources[s] EXCEPT !.age = Older(@)]]
    /\ calls' = [c \in Call |->
           IF calls[c] = Idle THEN Idle ELSE [calls[c] EXCEPT !.late = @ + 1]]
    /\ admitted' = [s \in Source |-> Later(admitted[s])]
    /\ total' = Later(total)

LimiterNext ==
    \/ \E c \in Call :
         \/ \E s \in Source : Arrive(c, s)
         \/ RefuseGlobal(c)
         \/ RefuseSource(c)
         \/ Allow(c)
    \/ Tick

LimiterSpec == LimiterInit /\ [][LimiterNext]_limiterVars

-----------------------------------------------------------------------------
(* Correctness.                                                            *)

\* The windows that calls admitted within a second can belong to: they begin a
\* second apart, and a late reading still counts in one that is over.
Windows == 1 + (2 * Second - 2 + MaxDelay) \div Second

\* However late and out of order the readings, no second of real time admits
\* more than the windows it can touch allow, of one source and of all of them.
RateBounded ==
    /\ \A s \in Source : admitted[s][Second] <= Windows * PerSource
    /\ total[Second] <= Windows * PerSecond

\* No caller can make the table grow without end.
TableBounded == Cardinality(Known(sources)) <= TableSize

\* A call is refused only because of calls that were admitted shortly before:
\* as many as a window allows within a second (of all sources or of its own),
\* or one each of as many sources as the table holds within a minute, and the
\* time a reading may be late.  So nobody is refused for having been refused.
RefusalJustified ==
    [][\A c \in Call : calls[c] # Idle /\ calls'[c] = Idle /\ admitted' = admitted =>
         \/ total[Second + MaxDelay] >= PerSecond
         \/ admitted[calls[c].source][Second + MaxDelay] >= PerSource
         \/ Cardinality({s \in Source : admitted[s][Forever] > 0}) >= TableSize
      ]_limiterVars
=============================================================================
