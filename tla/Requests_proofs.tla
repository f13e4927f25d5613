--------------------------- MODULE Requests_proofs ----------------------------
(***************************************************************************)
(* Proofs about the components a request goes through, for any addresses,  *)
(* keys, tools, models, clients and bounds.                                *)
(*                                                                         *)
(* Pipeline: a list of hits is ordered by age, so what is kept of it is    *)
(* its end, and what the limiter keeps agrees with what the observer saw;  *)
(* an entry that is not whole belongs to a request that is still capturing *)
(* it (PartsAreHeld), and what was answered within KeyTTL is stored        *)
(* (AnswersAreStored).                                                     *)
(*                                                                         *)
(* Tools: ApprovedOnce is inductive once it is known that only a token     *)
(* that has been used up has ever started a tool: an approval takes a      *)
(* pending token to a dropped one, and no step leads back.                 *)
(*                                                                         *)
(* ModelCatalog: while a response is remembered, the oldest list in it has *)
(* aged with it (AgesTogether), and no request collects a list that is out *)
(* of date (CollectsFresh).                                                *)
(*                                                                         *)
(* Compat: the client has what the provider has produced at every moment,  *)
(* not only at the end (RequestWhole).                                     *)
(***************************************************************************)
EXTENDS Pipeline, Tools, ModelCatalog, Compat, Selection_proofs, SequenceTheorems, TLAPS

-------------------------------------------------------------------------------
(* The request pipeline *)

Ages == 0..Forgotten

Window == 0..(HitWindow - 1)

\* The age after a tick.
Older(age) == IF age < Forgotten THEN age + 1 ELSE Forgotten

NotYounger == {p \in Ages \X Ages : p[1] >= p[2]}

LEMMA PipeNumbers ==
    /\ HitWindow \in Nat \ {0} /\ Forgotten = 2 * HitWindow /\ Forgotten \in Nat
    /\ Forgotten >= HitWindow /\ Long = KeyTTL + 1 /\ KeyTTL \in Nat /\ Long \in Nat
    /\ Chunks \in Nat \ {0} /\ MaxHits \in Nat \ {0}
BY PipelineAssumption DEF Forgotten, Long

-------------------------------------------------------------------------------
(* The request pipeline: lists of hits *)

LEMMA OlderAge ==
    ASSUME NEW age \in Ages
    PROVE  Older(age) \in Ages /\ (age \notin Window => Older(age) \notin Window)
BY PipeNumbers DEF Ages, Window, Older

LEMMA OlderKeepsOrder ==
    ASSUME NEW x \in Ages, NEW y \in Ages, x >= y
    PROVE  Older(x) >= Older(y)
BY PipeNumbers DEF Ages, Older

LEMMA AgedType ==
    ASSUME NEW list \in Seq(Ages)
    PROVE  /\ Aged(list) \in Seq(Ages) /\ Len(Aged(list)) = Len(list)
           /\ DOMAIN list = 1..Len(list)
           /\ \A i \in 1..Len(list) : Aged(list)[i] = Older(list[i])
<1>1. Len(list) \in Nat /\ DOMAIN list = 1..Len(list) /\ \A i \in 1..Len(list) : list[i] \in Ages
  BY LenProperties, ElementOfSeq
<1>2. Aged(list) = [i \in 1..Len(list) |-> Older(list[i])]
  BY <1>1 DEF Aged, Older
<1>3. Aged(list) \in [1..Len(list) -> Ages]
  BY <1>1, <1>2, OlderAge
<1>4. Aged(list) \in Seq(Ages)
  BY <1>1, <1>3, SeqDef
<1>5. Len(Aged(list)) = Len(list)
  BY <1>1, <1>2, <1>4, LenProperties
<1> QED
  BY <1>1, <1>2, <1>4, <1>5

LEMMA AgedAppend ==
    ASSUME NEW list \in Seq(Ages), NEW age \in Ages
    PROVE  Aged(Append(list, age)) = Append(Aged(list), Older(age))
<1> DEFINE long == Append(list, age)
           one == Aged(long)
           other == Append(Aged(list), Older(age))
<1>1. /\ long \in Seq(Ages) /\ Len(long) = Len(list) + 1 /\ Len(list) \in Nat
      /\ \A i \in 1..Len(list) : long[i] = list[i]
      /\ long[Len(list) + 1] = age
  BY AppendProperties, LenProperties
<1> HIDE DEF long
<1>2. /\ one \in Seq(Ages) /\ Len(one) = Len(list) + 1
      /\ \A i \in 1..(Len(list) + 1) : one[i] = Older(long[i])
  BY <1>1, AgedType
<1>3. /\ Aged(list) \in Seq(Ages) /\ Len(Aged(list)) = Len(list)
      /\ \A i \in 1..Len(list) : Aged(list)[i] = Older(list[i])
  BY AgedType
<1>4. /\ other \in Seq(Ages) /\ Len(other) = Len(list) + 1
      /\ \A i \in 1..Len(list) : other[i] = Older(list[i])
      /\ other[Len(list) + 1] = Older(age)
  BY <1>3, OlderAge, AppendProperties
<1> HIDE DEF one, other
<1>5. \A i \in 1..(Len(list) + 1) : one[i] = other[i]
  <2> SUFFICES ASSUME NEW i \in 1..(Len(list) + 1) PROVE one[i] = other[i]
    OBVIOUS
  <2>1. CASE i = Len(list) + 1
    BY <1>1, <1>2, <1>4, <2>1
  <2>2. CASE i \in 1..Len(list)
    BY <1>1, <1>2, <1>4, <2>2
  <2> QED
    BY <1>1, <2>1, <2>2
<1>6. one = other
  BY <1>2, <1>4, <1>5, SeqEqual
<1> QED
  BY <1>6 DEF one, other, long

LEMMA AgedEmpty == Aged(<<>>) = <<>>
<1>1. <<>> \in Seq(Ages) /\ Len(<<>>) = 0
  BY EmptySeq
<1>2. Aged(<<>>) \in Seq(Ages) /\ Len(Aged(<<>>)) = 0
  BY <1>1, AgedType
<1> QED
  BY <1>2, EmptySeq

LEMMA RecentType ==
    ASSUME NEW list \in Seq(Ages)
    PROVE  /\ Recent(list) \in Seq(Ages) /\ Len(Recent(list)) <= Len(list)
           /\ Elements(Recent(list)) = Elements(list) \intersect Window
           /\ Len(Recent(list)) \in Nat
<1>1. Recent(list) \in Seq(Ages) /\ Len(Recent(list)) <= Len(list)
  BY SelectType DEF Recent
<1>2. Elements(Recent(list)) = Elements(list) \intersect Window
  BY SelectElements DEF Recent, Window
<1> QED
  BY <1>1, <1>2, LenProperties

LEMMA RecentAppend ==
    ASSUME NEW list \in Seq(Ages), NEW age \in Ages
    PROVE  Recent(Append(list, age)) =
             IF age \in Window THEN Append(Recent(list), age) ELSE Recent(list)
BY SelectAppend DEF Recent, Window

\* Filtering twice is filtering once.
LEMMA RecentTwice ==
    ASSUME NEW list \in Seq(Ages)
    PROVE  Recent(Recent(list)) = Recent(list)
<1>1. Recent(list) \in Seq(Ages) /\ Elements(Recent(list)) \subseteq Window
  BY RecentType
<1> QED
  BY <1>1, SelectAll DEF Recent, Window

\* What has left the window stays out of it.
LEMMA RecentAged ==
    ASSUME NEW list \in Seq(Ages)
    PROVE  Recent(Aged(list)) = Recent(Aged(Recent(list)))
<1> DEFINE Good == {s \in Seq(Ages) : Recent(Aged(s)) = Recent(Aged(Recent(s)))}
<1>1. <<>> \in Good
  BY AgedEmpty, SelectEmpty, EmptySeq DEF Recent
<1>2. ASSUME NEW s \in Good, NEW age \in Ages
      PROVE  Append(s, age) \in Good
  <2>1. /\ Append(s, age) \in Seq(Ages)
        /\ Aged(Append(s, age)) = Append(Aged(s), Older(age))
        /\ Older(age) \in Ages /\ Aged(s) \in Seq(Ages)
    BY AppendProperties, AgedAppend, OlderAge, AgedType
  <2>2. Recent(Aged(Append(s, age))) =
          IF Older(age) \in Window THEN Append(Recent(Aged(s)), Older(age)) ELSE Recent(Aged(s))
    BY <2>1, RecentAppend
  <2>3. CASE age \in Window
    <3>1. Recent(s) \in Seq(Ages) /\ Recent(Append(s, age)) = Append(Recent(s), age)
      BY <2>3, RecentAppend, RecentType
    <3>2. Aged(Append(Recent(s), age)) = Append(Aged(Recent(s)), Older(age))
      BY <3>1, AgedAppend
    <3>3. Recent(Append(Aged(Recent(s)), Older(age))) =
            IF Older(age) \in Window THEN Append(Recent(Aged(Recent(s))), Older(age))
            ELSE Recent(Aged(Recent(s)))
      BY <2>1, <3>1, AgedType, RecentAppend
    <3>4. Recent(Aged(s)) = Recent(Aged(Recent(s)))
      OBVIOUS
    <3>5. Recent(Aged(Append(s, age))) = Recent(Aged(Recent(Append(s, age))))
      BY <2>2, <3>1, <3>2, <3>3, <3>4
    <3> QED
      BY <2>1, <3>5
  <2>4. CASE age \notin Window
    <3>1. Recent(Append(s, age)) = Recent(s) /\ Older(age) \notin Window
      BY <2>4, RecentAppend, OlderAge
    <3>2. Recent(Aged(Append(s, age))) = Recent(Aged(Recent(Append(s, age))))
      BY <2>2, <3>1
    <3> QED
      BY <2>1, <3>2
  <2> QED
    BY <2>3, <2>4
<1>3. Good = Seq(Ages)
  <2>1. Good \subseteq Seq(Ages)
    OBVIOUS
  <2> HIDE DEF Good
  <2> QED
    BY <1>1, <1>2, <2>1, ListInduction
<1> QED
  BY <1>3

LEMMA AgedOrdered ==
    ASSUME NEW list \in Seq(Ages), Ordered(list, NotYounger)
    PROVE  Ordered(Aged(list), NotYounger)
<1>1. /\ Aged(list) \in Seq(Ages) /\ Len(Aged(list)) = Len(list)
      /\ DOMAIN list = 1..Len(list) /\ DOMAIN Aged(list) = 1..Len(list)
      /\ \A i \in 1..Len(list) : Aged(list)[i] = Older(list[i]) /\ list[i] \in Ages
  BY AgedType, LenProperties, ElementOfSeq
<1> SUFFICES ASSUME NEW i \in 1..Len(list), NEW j \in 1..Len(list), i < j
             PROVE  <<Aged(list)[i], Aged(list)[j]>> \in NotYounger
  BY <1>1 DEF Ordered
<1>2. list[i] >= list[j]
  BY <1>1 DEF Ordered, NotYounger
<1>3. /\ Older(list[i]) \in Ages /\ Older(list[j]) \in Ages
      /\ Older(list[i]) >= Older(list[j])
  BY <1>1, <1>2, OlderAge, OlderKeepsOrder
<1> QED
  BY <1>1, <1>3 DEF NotYounger

\* A list that the sweep drops has no hit within the window: its last hit is
\* the youngest.
LEMMA StaleListIsOld ==
    ASSUME NEW list \in Seq(Ages), Ordered(list, NotYounger), ~Live(list)
    PROVE  Recent(list) = <<>>
<1>1. CASE list = <<>>
  BY <1>1, SelectEmpty DEF Recent
<1>2. CASE list # <<>>
  <2>1. Len(list) \in Nat \ {0} /\ DOMAIN list = 1..Len(list)
        /\ \A i \in 1..Len(list) : list[i] \in Ages
    BY <1>2, EmptySeq, LenProperties, ElementOfSeq
  <2>2. list[Len(list)] >= 2 * HitWindow
    BY <1>2, <2>1, PipeNumbers DEF Live, Ages
  <2>3. ASSUME NEW i \in 1..Len(list)
        PROVE  list[i] \notin Window
    <3>1. list[i] >= list[Len(list)]
      <4>1. CASE i = Len(list)
        BY <2>1, <4>1 DEF Ages
      <4>2. CASE i < Len(list)
        <5>1. <<list[i], list[Len(list)]>> \in NotYounger
          BY <2>1, <4>2 DEF Ordered
        <5> QED
          BY <2>1, <5>1 DEF NotYounger
      <4>3. i < Len(list) \/ i = Len(list)
        <5>1. Len(list) \in Nat /\ i \in Nat /\ i <= Len(list)
          BY <2>1
        <5> QED
          BY <5>1
      <4> QED
        BY <4>1, <4>2, <4>3
    <3>2. list[i] \in Nat /\ list[Len(list)] \in Nat
      BY <2>1, PipeNumbers DEF Ages
    <3> QED
      BY <2>2, <3>1, <3>2, PipeNumbers DEF Window
  <2>4. Elements(list) \intersect Window = {}
    BY <2>1, <2>3 DEF Elements
  <2> QED
    BY <2>4, SelectNone DEF Recent, Window
<1> QED
  BY <1>1, <1>2

-------------------------------------------------------------------------------
(* The request pipeline: the rate limit *)

Hits == [Addresses -> Seq(Ages)]

HitsTyped == counters \in Hits /\ admitted \in Hits

\* What matters of an address's list is what matters of all its requests.
HitsAgree ==
    \A a \in Addresses :
        /\ Recent(admitted[a]) = Recent(counters[a])
        /\ Len(Recent(counters[a])) <= MaxHits
        /\ Ordered(counters[a], NotYounger)

LimitInv == HitsTyped /\ HitsAgree

LEMMA LimitInit == PipeInit => LimitInv
<1> SUFFICES ASSUME PipeInit PROVE LimitInv
  OBVIOUS
<1>1. <<>> \in Seq(Ages) /\ Len(<<>>) = 0 /\ Recent(<<>>) = <<>>
  BY EmptySeq, SelectEmpty DEF Recent
<1>2. HitsTyped
  BY <1>1 DEF PipeInit, HitsTyped, Hits
<1>3. Ordered(<<>>, NotYounger)
  BY DEF Ordered
<1>4. HitsAgree
  <2> SUFFICES ASSUME NEW a \in Addresses
               PROVE  /\ Recent(admitted[a]) = Recent(counters[a])
                      /\ Len(Recent(counters[a])) <= MaxHits
                      /\ Ordered(counters[a], NotYounger)
    BY DEF HitsAgree
  <2>1. admitted[a] = <<>> /\ counters[a] = <<>>
    BY DEF PipeInit
  <2> QED
    BY <1>1, <1>3, <2>1, PipeNumbers
<1> QED
  BY <1>2, <1>4 DEF LimitInv

\* The list an admitted request leaves.
LEMMA CountedList ==
    ASSUME NEW list \in Seq(Ages), Ordered(list, NotYounger), Len(Recent(list)) < MaxHits
    PROVE  LET new == Append(Recent(list), 0)
           IN  /\ new \in Seq(Ages)
               /\ Recent(new) = new
               /\ Len(new) <= MaxHits
               /\ Ordered(new, NotYounger)
<1> DEFINE old == Recent(list)
           new == Append(old, 0)
<1>1. /\ old \in Seq(Ages) /\ Recent(old) = old /\ Len(old) \in Nat
      /\ Elements(old) \subseteq Ages
      /\ Ordered(old, NotYounger)
  BY RecentType, RecentTwice, SelectOrdered, ElementsType DEF Recent
<1>2. 0 \in Ages /\ 0 \in Window
  BY PipeNumbers DEF Ages, Window
<1> HIDE DEF old
<1>3. new \in Seq(Ages) /\ Len(new) = Len(old) + 1
  BY <1>1, <1>2, AppendProperties
<1>4. Recent(new) = new
  BY <1>1, <1>2, RecentAppend
<1>5. Len(new) <= MaxHits
  BY <1>1, <1>3, PipeNumbers DEF old
<1>6. \A x \in Elements(old) : <<x, 0>> \in NotYounger
  BY <1>1, <1>2 DEF NotYounger, Ages
<1>7. Ordered(new, NotYounger)
  BY <1>1, <1>2, <1>6, OrderedAppend
<1> QED
  BY <1>3, <1>4, <1>5, <1>7 DEF old

\* The sweep changes no list that still matters.
LEMMA SweptLists ==
    ASSUME NEW lists \in Hits, \A a \in Addresses : Ordered(lists[a], NotYounger)
    PROVE  /\ Swept(lists) \in Hits
           /\ \A a \in Addresses : /\ Recent(Swept(lists)[a]) = Recent(lists[a])
                                   /\ Ordered(Swept(lists)[a], NotYounger)
<1>1. <<>> \in Seq(Ages) /\ Recent(<<>>) = <<>> /\ Ordered(<<>>, NotYounger)
  BY EmptySeq, SelectEmpty DEF Recent, Ordered
<1>2. CASE Swept(lists) = lists
  BY <1>2
<1>3. CASE Swept(lists) = [a \in Addresses |-> IF Live(lists[a]) THEN lists[a] ELSE <<>>]
  <2>1. Swept(lists) \in Hits
    BY <1>1, <1>3 DEF Hits
  <2>2. ASSUME NEW a \in Addresses
        PROVE  /\ Recent(Swept(lists)[a]) = Recent(lists[a])
               /\ Ordered(Swept(lists)[a], NotYounger)
    <3>1. lists[a] \in Seq(Ages)
      BY DEF Hits
    <3>2. CASE Live(lists[a])
      BY <1>3, <3>2
    <3>3. CASE ~Live(lists[a])
      BY <1>1, <1>3, <3>1, <3>3, StaleListIsOld
    <3> QED
      BY <3>2, <3>3
  <2> QED
    BY <2>1, <2>2
<1> QED
  BY <1>2, <1>3 DEF Swept

LEMMA AdmitStep ==
    ASSUME LimitInv, NEW r \in Calls, NEW a \in Addresses, NEW key, Admit(r, a, key)
    PROVE  LimitInv'
<1> DEFINE new == Append(Recent(counters[a]), 0)
           lists == [counters EXCEPT ![a] = new]
<1>1. /\ counters[a] \in Seq(Ages) /\ Ordered(counters[a], NotYounger)
      /\ Recent(admitted[a]) = Recent(counters[a])
  BY DEF LimitInv, HitsTyped, HitsAgree, Hits
<1>2. Len(Recent(counters[a])) < MaxHits
  BY <1>1, RecentType, PipeNumbers DEF Admit, Limited
<1>3. /\ new \in Seq(Ages) /\ Recent(new) = new /\ Len(new) <= MaxHits
      /\ Ordered(new, NotYounger)
  BY <1>1, <1>2, CountedList
<1>4. /\ counters' = Swept(lists)
      /\ admitted' = [admitted EXCEPT ![a] = new]
  BY <1>1 DEF Admit
<1> HIDE DEF new
<1>5. /\ lists \in Hits /\ admitted' \in Hits
      /\ lists[a] = new /\ admitted'[a] = new
      /\ \A b \in Addresses \ {a} : lists[b] = counters[b] /\ admitted'[b] = admitted[b]
  BY <1>3, <1>4 DEF LimitInv, HitsTyped, Hits
<1> HIDE DEF lists
<1>6. ASSUME NEW b \in Addresses
      PROVE  /\ Recent(admitted'[b]) = Recent(lists[b])
             /\ Len(Recent(lists[b])) <= MaxHits
             /\ Ordered(lists[b], NotYounger)
  <2>1. CASE b = a
    BY <1>3, <1>5, <2>1
  <2>2. CASE b # a
    BY <1>5, <2>2 DEF LimitInv, HitsAgree
  <2> QED
    BY <2>1, <2>2
<1>7. /\ counters' \in Hits
      /\ \A b \in Addresses : /\ Recent(counters'[b]) = Recent(lists[b])
                              /\ Ordered(counters'[b], NotYounger)
  BY <1>4, <1>5, <1>6, SweptLists
<1> QED
  BY <1>5, <1>6, <1>7 DEF LimitInv, HitsTyped, HitsAgree

LEMMA LimitTick ==
    ASSUME LimitInv, PipeTick
    PROVE  LimitInv'
<1>1. /\ counters' = [a \in Addresses |-> Aged(counters[a])]
      /\ admitted' = [a \in Addresses |-> Aged(admitted[a])]
  BY DEF PipeTick
<1>2. ASSUME NEW a \in Addresses
      PROVE  /\ counters'[a] \in Seq(Ages) /\ admitted'[a] \in Seq(Ages)
             /\ Recent(admitted'[a]) = Recent(counters'[a])
             /\ Len(Recent(counters'[a])) <= MaxHits
             /\ Ordered(counters'[a], NotYounger)
  <2> DEFINE recent == Recent(counters[a])
  <2>1. /\ counters[a] \in Seq(Ages) /\ admitted[a] \in Seq(Ages)
        /\ Recent(admitted[a]) = recent /\ Len(recent) <= MaxHits
        /\ Ordered(counters[a], NotYounger)
    BY DEF LimitInv, HitsTyped, HitsAgree, Hits
  <2>2. recent \in Seq(Ages)
    BY <2>1, RecentType
  <2>3. /\ Recent(Aged(counters[a])) = Recent(Aged(recent))
        /\ Recent(Aged(admitted[a])) = Recent(Aged(recent))
    BY <2>1, RecentAged
  <2> HIDE DEF recent
  <2>4. Aged(recent) \in Seq(Ages) /\ Len(Aged(recent)) = Len(recent)
    BY <2>2, AgedType
  <2>5. Len(Recent(Aged(recent))) <= Len(recent) /\ Len(Recent(Aged(recent))) \in Nat
    BY <2>4, RecentType
  <2>6. Len(Recent(Aged(recent))) <= MaxHits
    BY <2>1, <2>2, <2>5, PipeNumbers
  <2>7. /\ Aged(counters[a]) \in Seq(Ages) /\ Aged(admitted[a]) \in Seq(Ages)
        /\ Ordered(Aged(counters[a]), NotYounger)
    BY <2>1, AgedType, AgedOrdered
  <2> QED
    BY <1>1, <2>3, <2>6, <2>7
<1> QED
  BY <1>1, <1>2 DEF LimitInv, HitsTyped, HitsAgree, Hits

LEMMA LimitNext ==
    ASSUME LimitInv, [PipeNext]_pipeVars
    PROVE  LimitInv'
<1>1. ASSUME NEW r \in Calls, NEW a \in Addresses, NEW key \in Keys \union {NoKey}, Admit(r, a, key)
      PROVE  LimitInv'
  BY <1>1, AdmitStep
<1>2. CASE PipeTick
  BY <1>2, LimitTick
<1>3. ASSUME UNCHANGED <<counters, admitted>>
      PROVE  LimitInv'
  BY <1>3 DEF LimitInv, HitsTyped, HitsAgree
<1>4. ASSUME NEW r \in Calls, Replay(r) \/ Run(r) \/ Body(r) \/ Break(r)
      PROVE  LimitInv'
  BY <1>3, <1>4 DEF Replay, Run, Body, Break
<1>5. CASE UNCHANGED pipeVars
  BY <1>3, <1>5 DEF pipeVars
<1> QED
  BY <1>1, <1>2, <1>4, <1>5 DEF PipeNext

\* However often the sweep of RateLimitMiddleware (dispatch of main.py) drops
\* lists, no address has more than MaxHits requests admitted within a window.
THEOREM NoAddressExceedsItsLimit == PipeSpec => []AtMostMaxHits
<1>1. LimitInv => AtMostMaxHits
  BY DEF LimitInv, HitsAgree, AtMostMaxHits
<1> QED
  BY <1>1, LimitInit, LimitNext, PTL DEF PipeSpec

-------------------------------------------------------------------------------
(* The request pipeline: idempotency keys *)

CallTyped ==
    \A r \in Calls :
        /\ call[r] \in [at : {"idle", "admitted", "handler"},
                        key : Keys \union {NoKey}, captured : 0..Chunks]
        /\ call[r].captured < Chunks
        /\ call[r].at # "handler" => call[r].captured = 0

KeyTyped ==
    \A k \in Keys :
        /\ stored[k] \in Entry \union {Nothing}
        /\ answered[k] \in 0..Long

KeyFunctions ==
    /\ DOMAIN call = Calls /\ call = [r \in Calls |-> call[r]]
    /\ DOMAIN stored = Keys /\ stored = [k \in Keys |-> stored[k]]
    /\ DOMAIN answered = Keys /\ answered = [k \in Keys |-> answered[k]]

\* What was answered within KeyTTL is stored, and as old as the answer.
AnswersAreStored ==
    \A k \in Keys :
        answered[k] <= KeyTTL => stored[k] # Nothing /\ stored[k].age = answered[k]

\* An entry that is not whole is its request's, which is still capturing.
PartsAreHeld ==
    \A k \in Keys :
        stored[k] # Nothing /\ ~stored[k].cut /\ stored[k].held < Chunks
            => /\ call[stored[k].by].key = k
               /\ call[stored[k].by].captured = stored[k].held

KeyInv ==
    /\ CallTyped
    /\ KeyTyped
    /\ KeyFunctions
    /\ AnswersAreStored
    /\ PartsAreHeld

\* Nothing is told from an entry by what it holds.
LEMMA EntryFields ==
    ASSUME NEW e \in Entry
    PROVE  /\ e # Nothing
           /\ e.age \in Nat /\ e.age <= Long
           /\ e.held \in Nat /\ e.held >= 1 /\ e.held <= Chunks
           /\ e.by \in Calls /\ e.cut \in BOOLEAN
BY PipeNumbers DEF Entry, Nothing

LEMMA KeyInit == PipeInit => KeyInv
<1> SUFFICES ASSUME PipeInit PROVE KeyInv
  OBVIOUS
<1>1. CallTyped
  BY PipeNumbers DEF PipeInit, CallTyped, NoCall
<1>2. KeyTyped /\ AnswersAreStored /\ PartsAreHeld
  BY PipeNumbers DEF PipeInit, KeyTyped, AnswersAreStored, PartsAreHeld
<1>3. KeyFunctions
  BY DEF PipeInit, KeyFunctions
<1> QED
  BY <1>1, <1>2, <1>3 DEF KeyInv

\* One request moves and no entry changes, but that an expired one may go.  It
\* held no part before.
LEMMA CallMoves ==
    ASSUME KeyInv, NEW r \in Calls, call[r].captured = 0,
           DOMAIN call' = Calls, call' = [s \in Calls |-> call'[s]],
           \A s \in Calls \ {r} : call'[s] = call[s],
           call'[r] \in [at : {"idle", "admitted", "handler"},
                         key : Keys \union {NoKey}, captured : {0}],
           KeyFunctions',
           \A k \in Keys : \/ stored'[k] = stored[k]
                           \/ stored'[k] = Nothing /\ ~Stored(k),
           answered' = answered
    PROVE  KeyInv'
<1>1. CallTyped'
  BY PipeNumbers DEF KeyInv, CallTyped
<1>2. KeyTyped'
  BY DEF KeyInv, KeyTyped
<1>3. AnswersAreStored'
  <2> SUFFICES ASSUME NEW k \in Keys, answered[k] <= KeyTTL
               PROVE  stored'[k] # Nothing /\ stored'[k].age = answered[k]
    BY DEF AnswersAreStored
  <2>1. stored[k] # Nothing /\ stored[k].age = answered[k]
    BY DEF KeyInv, AnswersAreStored
  <2>2. Stored(k)
    BY <2>1 DEF Stored
  <2> QED
    BY <2>1, <2>2
<1>4. PartsAreHeld'
  <2> SUFFICES ASSUME NEW k \in Keys, stored'[k] # Nothing,
                      ~stored'[k].cut, stored'[k].held < Chunks
               PROVE  /\ call'[stored'[k].by].key = k
                      /\ call'[stored'[k].by].captured = stored'[k].held
    BY DEF PartsAreHeld
  <2>1. stored'[k] = stored[k] /\ stored[k] \in Entry
    BY DEF KeyInv, KeyTyped
  <2>2. /\ call[stored[k].by].key = k
        /\ call[stored[k].by].captured = stored[k].held
    BY <2>1 DEF KeyInv, PartsAreHeld
  <2>3. stored[k].by \in Calls /\ stored[k].held >= 1
    BY <2>1, EntryFields
  <2>4. stored[k].by # r
    BY <2>2, <2>3
  <2> QED
    BY <2>1, <2>2, <2>3, <2>4
<1> QED
  BY <1>1, <1>2, <1>3, <1>4 DEF KeyInv

LEMMA BodyStep ==
    ASSUME KeyInv, NEW r \in Calls, Body(r)
    PROVE  KeyInv'
<1> DEFINE held == call[r].captured + 1
           mine == call[r].key
           entry == [age |-> 0, held |-> held, by |-> r, cut |-> FALSE]
<1>1. /\ call[r] \in [at : {"idle", "admitted", "handler"},
                      key : Keys \union {NoKey}, captured : 0..Chunks]
      /\ call[r].captured < Chunks /\ call[r].at = "handler"
  BY DEF KeyInv, CallTyped, Body
<1>2. held \in Nat /\ held >= 1 /\ held <= Chunks
  BY <1>1, PipeNumbers
<1>3. /\ call'[r] = IF held = Chunks THEN NoCall ELSE [call[r] EXCEPT !.captured = held]
      /\ \A s \in Calls \ {r} : call'[s] = call[s]
      /\ DOMAIN call' = Calls /\ call' = [s \in Calls |-> call'[s]]
  BY DEF Body, KeyInv, KeyFunctions
<1> HIDE DEF held
<1>4. /\ call'[r] \in [at : {"idle", "admitted", "handler"},
                       key : Keys \union {NoKey}, captured : 0..Chunks]
      /\ call'[r].captured < Chunks
      /\ call'[r].at # "handler" => call'[r].captured = 0
      /\ held # Chunks => call'[r].key = mine /\ call'[r].captured = held
  <2>1. CASE held = Chunks
    BY <1>3, <2>1, PipeNumbers DEF NoCall
  <2>2. CASE held # Chunks
    <3>1. call'[r] = [at |-> "handler", key |-> mine, captured |-> held]
      BY <1>1, <1>3, <2>2
    <3> QED
      BY <1>1, <1>2, <2>2, <3>1, PipeNumbers
  <2> QED
    BY <2>1, <2>2
<1>5. CallTyped'
  BY <1>3, <1>4 DEF KeyInv, CallTyped
<1>6. /\ KeyFunctions'
      /\ \A k \in Keys \ {mine} : stored'[k] = stored[k] /\ answered'[k] = answered[k]
      /\ mine \in Keys => stored'[mine] = entry /\ answered'[mine] = 0
  <2>1. CASE mine \in Keys
    <3>1. /\ stored' = [stored EXCEPT ![mine] = entry]
          /\ answered' = [answered EXCEPT ![mine] = 0]
      BY <2>1 DEF Body, Keep, held
    <3> QED
      BY <1>3, <2>1, <3>1 DEF KeyInv, KeyFunctions
  <2>2. CASE mine \notin Keys
    <3>1. stored' = stored /\ answered' = answered
      BY <2>2 DEF Body
    <3> QED
      BY <1>3, <2>2, <3>1 DEF KeyInv, KeyFunctions
  <2> QED
    BY <2>1, <2>2
<1>7. entry \in Entry
  BY <1>2, PipeNumbers DEF Entry
<1>8. entry # Nothing /\ entry.age = 0 /\ entry.held = held /\ entry.by = r
  BY <1>7, EntryFields
<1> HIDE DEF entry
<1>9. KeyTyped'
  <2> SUFFICES ASSUME NEW k \in Keys
               PROVE  stored'[k] \in Entry \union {Nothing} /\ answered'[k] \in 0..Long
    BY DEF KeyTyped
  <2>1. CASE k = mine
    BY <1>6, <1>7, <2>1, PipeNumbers
  <2>2. CASE k # mine
    BY <1>6, <2>2 DEF KeyInv, KeyTyped
  <2> QED
    BY <2>1, <2>2
<1>10. AnswersAreStored'
  <2> SUFFICES ASSUME NEW k \in Keys, answered'[k] <= KeyTTL
               PROVE  stored'[k] # Nothing /\ stored'[k].age = answered'[k]
    BY DEF AnswersAreStored
  <2>1. CASE k = mine
    BY <1>6, <1>8, <2>1
  <2>2. CASE k # mine
    BY <1>6, <2>2 DEF KeyInv, AnswersAreStored
  <2> QED
    BY <2>1, <2>2
<1>11. PartsAreHeld'
  <2> SUFFICES ASSUME NEW k \in Keys, stored'[k] # Nothing,
                      ~stored'[k].cut, stored'[k].held < Chunks
               PROVE  /\ call'[stored'[k].by].key = k
                      /\ call'[stored'[k].by].captured = stored'[k].held
    BY DEF PartsAreHeld
  <2>1. CASE k = mine
    BY <1>4, <1>6, <1>8, <2>1, PipeNumbers
  <2>2. CASE k # mine
    <3>1. stored'[k] = stored[k] /\ stored[k] \in Entry
      BY <1>6, <2>2 DEF KeyInv, KeyTyped
    <3>2. /\ call[stored[k].by].key = k
          /\ call[stored[k].by].captured = stored[k].held
          /\ stored[k].by \in Calls
      BY <3>1, EntryFields DEF KeyInv, PartsAreHeld
    <3>3. stored[k].by # r
      BY <2>2, <3>2
    <3> QED
      BY <1>3, <3>1, <3>2, <3>3
  <2> QED
    BY <2>1, <2>2
<1> QED
  BY <1>5, <1>6, <1>9, <1>10, <1>11 DEF KeyInv

LEMMA BreakStep ==
    ASSUME KeyInv, NEW r \in Calls, Break(r)
    PROVE  KeyInv'
<1>1. /\ call'[r] = NoCall /\ \A s \in Calls \ {r} : call'[s] = call[s]
      /\ DOMAIN call' = Calls /\ call' = [s \in Calls |-> call'[s]]
      /\ answered' = answered
      /\ DOMAIN stored' = Keys /\ stored' = [k \in Keys |-> stored'[k]]
  BY DEF Break, KeyInv, KeyFunctions
<1>2. CallTyped' /\ KeyFunctions'
  BY <1>1, PipeNumbers DEF KeyInv, CallTyped, KeyFunctions, NoCall
<1>3. ASSUME NEW k \in Keys
      PROVE  \/ stored'[k] = stored[k] /\ (stored[k] # Nothing /\ stored[k].by = r
                                             => call[r].captured = 0)
             \/ /\ stored[k] \in Entry /\ stored[k].by = r
                /\ stored'[k] \in Entry
                /\ stored'[k].age = stored[k].age /\ stored'[k].held = stored[k].held
                /\ stored'[k].by = r
                /\ stored'[k].cut = (stored[k].cut \/ call[r].key = k)
  <2>1. stored'[k] = IF stored[k] # Nothing /\ stored[k].by = r /\ call[r].captured > 0
                     THEN [stored[k] EXCEPT !.cut = @ \/ call[r].key = k] ELSE stored[k]
    BY DEF Break
  <2>2. call[r].captured \in Nat
    BY PipeNumbers DEF KeyInv, CallTyped
  <2>3. CASE stored[k] # Nothing /\ stored[k].by = r /\ call[r].captured > 0
    <3>1. stored[k] \in Entry
      BY <2>3 DEF KeyInv, KeyTyped
    <3> DEFINE cut == stored[k].cut \/ call[r].key = k
    <3>2. cut \in BOOLEAN
      OBVIOUS
    <3>3. stored'[k] = [stored[k] EXCEPT !.cut = cut]
      BY <2>1, <2>3
    <3> HIDE DEF cut
    <3>4. /\ stored'[k] \in Entry
          /\ stored'[k].age = stored[k].age /\ stored'[k].held = stored[k].held
          /\ stored'[k].by = stored[k].by /\ stored'[k].cut = cut
      BY <3>1, <3>2, <3>3 DEF Entry
    <3> QED
      BY <2>3, <3>1, <3>4 DEF cut
  <2>4. CASE ~(stored[k] # Nothing /\ stored[k].by = r /\ call[r].captured > 0)
    BY <2>1, <2>2, <2>4
  <2> QED
    BY <2>3, <2>4
<1>4. KeyTyped'
  <2> SUFFICES ASSUME NEW k \in Keys
               PROVE  stored'[k] \in Entry \union {Nothing} /\ answered'[k] \in 0..Long
    BY DEF KeyTyped
  <2> QED
    BY <1>1, <1>3 DEF KeyInv, KeyTyped
<1>5. AnswersAreStored'
  <2> SUFFICES ASSUME NEW k \in Keys, answered[k] <= KeyTTL
               PROVE  stored'[k] # Nothing /\ stored'[k].age = answered[k]
    BY <1>1 DEF AnswersAreStored
  <2>1. stored[k] # Nothing /\ stored[k].age = answered[k]
    BY DEF KeyInv, AnswersAreStored
  <2> QED
    BY <1>3, <2>1, EntryFields
<1>6. PartsAreHeld'
  <2> SUFFICES ASSUME NEW k \in Keys, stored'[k] # Nothing,
                      ~stored'[k].cut, stored'[k].held < Chunks
               PROVE  /\ call'[stored'[k].by].key = k
                      /\ call'[stored'[k].by].captured = stored'[k].held
    BY DEF PartsAreHeld
  <2>1. CASE stored'[k] = stored[k] /\ (stored[k] # Nothing /\ stored[k].by = r
                                          => call[r].captured = 0)
    <3>1. stored[k] \in Entry
      BY <2>1 DEF KeyInv, KeyTyped
    <3>2. /\ call[stored[k].by].key = k
          /\ call[stored[k].by].captured = stored[k].held
          /\ stored[k].by \in Calls /\ stored[k].held >= 1
      BY <2>1, <3>1, EntryFields DEF KeyInv, PartsAreHeld
    <3>3. stored[k].by # r
      BY <2>1, <3>2
    <3> QED
      BY <1>1, <2>1, <3>2, <3>3
  <2>2. CASE stored[k] \in Entry /\ stored[k].by = r
             /\ stored'[k].held = stored[k].held
             /\ stored'[k].cut = (stored[k].cut \/ call[r].key = k)
    <3>1. ~stored[k].cut /\ call[r].key # k
      BY <2>2
    <3>2. stored[k] # Nothing
      BY <2>2, EntryFields
    <3>3. call[r].key = k
      BY <2>2, <3>1, <3>2 DEF KeyInv, PartsAreHeld
    <3> QED
      BY <3>1, <3>3
  <2> QED
    BY <1>3, <2>1, <2>2
<1> QED
  BY <1>2, <1>4, <1>5, <1>6 DEF KeyInv

LEMMA KeyTick ==
    ASSUME KeyInv, PipeTick
    PROVE  KeyInv'
<1>1. /\ call' = call
      /\ DOMAIN stored' = Keys /\ stored' = [k \in Keys |-> stored'[k]]
      /\ DOMAIN answered' = Keys /\ answered' = [k \in Keys |-> answered'[k]]
      /\ \A k \in Keys : answered'[k] = IF answered[k] = Long THEN Long ELSE answered[k] + 1
  BY DEF PipeTick
<1>2. CallTyped' /\ KeyFunctions'
  BY <1>1 DEF KeyInv, CallTyped, KeyFunctions
<1>3. ASSUME NEW k \in Keys
      PROVE  \/ stored'[k] = stored[k] /\ (stored[k] = Nothing \/ stored[k].age = Long)
             \/ /\ stored[k] \in Entry /\ stored[k].age # Long
                /\ stored'[k] \in Entry
                /\ stored'[k].age = stored[k].age + 1 /\ stored'[k].held = stored[k].held
                /\ stored'[k].by = stored[k].by /\ stored'[k].cut = stored[k].cut
  <2>1. stored'[k] = IF stored[k] = Nothing \/ stored[k].age = Long THEN stored[k]
                     ELSE [stored[k] EXCEPT !.age = @ + 1]
    BY DEF PipeTick
  <2>2. CASE stored[k] = Nothing \/ stored[k].age = Long
    BY <2>1, <2>2
  <2>3. CASE ~(stored[k] = Nothing \/ stored[k].age = Long)
    <3>1. stored[k] \in Entry /\ stored'[k] = [stored[k] EXCEPT !.age = stored[k].age + 1]
      BY <2>1, <2>3 DEF KeyInv, KeyTyped
    <3>2. stored[k].age + 1 \in 0..Long
      BY <2>3, <3>1, EntryFields, PipeNumbers
    <3>3. /\ stored'[k] \in Entry
          /\ stored'[k].age = stored[k].age + 1 /\ stored'[k].held = stored[k].held
          /\ stored'[k].by = stored[k].by /\ stored'[k].cut = stored[k].cut
      BY <3>1, <3>2 DEF Entry
    <3> QED
      BY <2>3, <3>1, <3>3
  <2> QED
    BY <2>2, <2>3
<1>4. \A k \in Keys : answered[k] \in Nat /\ answered[k] <= Long
  BY PipeNumbers DEF KeyInv, KeyTyped
<1>5. KeyTyped'
  <2> SUFFICES ASSUME NEW k \in Keys
               PROVE  stored'[k] \in Entry \union {Nothing} /\ answered'[k] \in 0..Long
    BY DEF KeyTyped
  <2>1. answered'[k] \in 0..Long
    BY <1>1, <1>4, PipeNumbers
  <2>2. stored'[k] \in Entry \union {Nothing}
    BY <1>3 DEF KeyInv, KeyTyped
  <2> QED
    BY <2>1, <2>2
<1>6. AnswersAreStored'
  <2> SUFFICES ASSUME NEW k \in Keys, answered'[k] <= KeyTTL
               PROVE  stored'[k] # Nothing /\ stored'[k].age = answered'[k]
    BY DEF AnswersAreStored
  <2>1. answered[k] # Long /\ answered'[k] = answered[k] + 1 /\ answered[k] <= KeyTTL
    BY <1>1, <1>4, PipeNumbers
  <2>2. stored[k] # Nothing /\ stored[k].age = answered[k]
    BY <2>1 DEF KeyInv, AnswersAreStored
  <2> QED
    BY <1>3, <2>1, <2>2, EntryFields
<1>7. PartsAreHeld'
  <2> SUFFICES ASSUME NEW k \in Keys, stored'[k] # Nothing,
                      ~stored'[k].cut, stored'[k].held < Chunks
               PROVE  /\ call[stored'[k].by].key = k
                      /\ call[stored'[k].by].captured = stored'[k].held
    BY <1>1 DEF PartsAreHeld
  <2>1. /\ stored[k] # Nothing /\ stored'[k].held = stored[k].held
        /\ stored'[k].by = stored[k].by /\ stored'[k].cut = stored[k].cut
    BY <1>3, EntryFields
  <2> QED
    BY <2>1 DEF KeyInv, PartsAreHeld
<1> QED
  BY <1>2, <1>5, <1>6, <1>7 DEF KeyInv

LEMMA KeyNext ==
    ASSUME KeyInv, [PipeNext]_pipeVars
    PROVE  KeyInv'
<1>1. KeyFunctions /\ DOMAIN call = Calls
  BY DEF KeyInv, KeyFunctions
<1>2. \A r \in Calls : /\ call[r].at # "handler" => call[r].captured = 0
                       /\ call[r] \in [at : {"idle", "admitted", "handler"},
                                       key : Keys \union {NoKey}, captured : 0..Chunks]
  BY DEF KeyInv, CallTyped
<1>3. ASSUME NEW r \in Calls, NEW a \in Addresses, NEW key \in Keys \union {NoKey}, Admit(r, a, key)
      PROVE  KeyInv'
  <2>1. /\ call[r] = NoCall /\ stored' = stored /\ answered' = answered
        /\ call' = [call EXCEPT ![r] = [at |-> "admitted", key |-> key, captured |-> 0]]
    BY <1>3 DEF Admit
  <2>2. call[r].captured = 0 /\ KeyFunctions'
    BY <1>1, <2>1 DEF NoCall, KeyFunctions
  <2>3. call'[r] = [at |-> "admitted", key |-> key, captured |-> 0]
    BY <1>1, <2>1
  <2> QED
    BY <1>1, <2>1, <2>2, <2>3, CallMoves
<1>4. ASSUME NEW r \in Calls, Replay(r)
      PROVE  KeyInv'
  <2>1. /\ call[r].captured = 0 /\ stored' = stored /\ answered' = answered
        /\ call' = [call EXCEPT ![r] = NoCall]
    BY <1>2, <1>4 DEF Replay
  <2>2. KeyFunctions' /\ call'[r] = NoCall
    BY <1>1, <2>1 DEF KeyFunctions
  <2>3. NoCall \in [at : {"idle", "admitted", "handler"}, key : Keys \union {NoKey}, captured : {0}]
    BY DEF NoCall
  <2> QED
    BY <1>1, <2>1, <2>2, <2>3, CallMoves
<1>5. ASSUME NEW r \in Calls, Run(r)
      PROVE  KeyInv'
  <2>1. /\ call[r].captured = 0 /\ answered' = answered
        /\ call' = [call EXCEPT ![r].at = "handler"]
        /\ stored' = IF call[r].key \in Keys THEN [stored EXCEPT ![call[r].key] = Nothing]
                     ELSE stored
        /\ call[r].key \in Keys => ~Stored(call[r].key)
    BY <1>2, <1>5 DEF Run
  <2>2. /\ DOMAIN stored' = Keys /\ stored' = [k \in Keys |-> stored'[k]]
        /\ \A k \in Keys : \/ stored'[k] = stored[k]
                           \/ stored'[k] = Nothing /\ ~Stored(k)
    <3>1. CASE call[r].key \in Keys
      BY <1>1, <2>1, <3>1 DEF KeyFunctions
    <3>2. CASE call[r].key \notin Keys
      BY <1>1, <2>1, <3>2 DEF KeyFunctions
    <3> QED
      BY <3>1, <3>2
  <2>3. KeyFunctions'
    BY <1>1, <2>1, <2>2 DEF KeyFunctions
  <2>4. call'[r] \in [at : {"idle", "admitted", "handler"}, key : Keys \union {NoKey},
                     captured : {0}]
    BY <1>1, <1>2, <2>1
  <2> QED
    BY <1>1, <2>1, <2>2, <2>3, <2>4, CallMoves
<1>6. ASSUME NEW r \in Calls, Body(r)
      PROVE  KeyInv'
  BY <1>6, BodyStep
<1>7. ASSUME NEW r \in Calls, Break(r)
      PROVE  KeyInv'
  BY <1>7, BreakStep
<1>8. CASE PipeTick
  BY <1>8, KeyTick
<1>9. CASE UNCHANGED pipeVars
  <2>1. call' = call /\ stored' = stored /\ answered' = answered
    BY <1>9 DEF pipeVars
  <2> QED
    BY <2>1 DEF KeyInv, CallTyped, KeyTyped, KeyFunctions, AnswersAreStored, PartsAreHeld
<1> QED
  BY <1>3, <1>4, <1>5, <1>6, <1>7, <1>8, <1>9 DEF PipeNext

LEMMA KeyAlways == PipeSpec => []KeyInv
BY KeyInit, KeyNext, PTL DEF PipeSpec

\* While no request under a key is capturing and the last writer has not broken
\* off, the key replays a whole body (_capture_send of shared/idempotency.py).
THEOREM StoredBodiesAreWhole == PipeSpec => []StoredBodyIsWhole
<1>1. KeyInv => StoredBodyIsWhole
  <2> SUFFICES ASSUME KeyInv, NEW k \in Keys, stored[k] # Nothing, ~stored[k].cut,
                      \A r \in Calls : call[r].key = k => call[r].captured = 0
               PROVE  stored[k].held = Chunks
    BY DEF StoredBodyIsWhole
  <2>1. stored[k] \in Entry
    BY DEF KeyInv, KeyTyped
  <2>2. stored[k].held \in Nat /\ stored[k].held >= 1 /\ stored[k].held <= Chunks
        /\ stored[k].by \in Calls
    BY <2>1, EntryFields
  <2>3. ASSUME stored[k].held < Chunks
        PROVE  FALSE
    <3>1. /\ call[stored[k].by].key = k
          /\ call[stored[k].by].captured = stored[k].held
      BY <2>3 DEF KeyInv, PartsAreHeld
    <3> QED
      BY <2>2, <3>1
  <2> QED
    BY <2>2, <2>3, PipeNumbers
<1> QED
  BY <1>1, KeyAlways, PTL

\* Once anything was answered under a key, its handler is not entered again
\* before the time to live is over (IdempotencyMiddleware.dispatch).
THEOREM NoSecondRun == PipeSpec => NoRunAfterAnswer
<1>1. KeyInv /\ [PipeNext]_pipeVars =>
        [\A r \in Calls, k \in Keys :
            call[r].at = "admitted" /\ call[r].key = k /\ call'[r].at = "handler"
              => answered[k] > KeyTTL]_pipeVars
  <2> SUFFICES ASSUME KeyInv, PipeNext, NEW r \in Calls, NEW k \in Keys,
                      call[r].at = "admitted", call[r].key = k, call'[r].at = "handler"
               PROVE  answered[k] > KeyTTL
    OBVIOUS
  <2>1. DOMAIN call = Calls
    BY DEF KeyInv, KeyFunctions
  <2>2. Run(r)
    <3>1. ASSUME NEW s \in Calls, NEW a \in Addresses, NEW key \in Keys \union {NoKey},
                 Admit(s, a, key)
          PROVE  FALSE
      BY <2>1, <3>1 DEF Admit, NoCall
    <3>2. ASSUME NEW s \in Calls, Replay(s) \/ Break(s)
          PROVE  FALSE
      BY <2>1, <3>2 DEF Replay, Break, NoCall
    <3>3. ASSUME NEW s \in Calls, Body(s)
          PROVE  FALSE
      <4>1. s # r
        BY <3>3 DEF Body
      <4>2. call'[r] = call[r]
        BY <2>1, <3>3, <4>1 DEF Body
      <4> QED
        BY <4>2
    <3>4. ASSUME NEW s \in Calls, Run(s)
          PROVE  s = r
      BY <2>1, <3>4 DEF Run
    <3>5. ~PipeTick
      BY DEF PipeTick
    <3> QED
      BY <3>1, <3>2, <3>3, <3>4, <3>5 DEF PipeNext
  <2>3. ~Stored(k)
    BY <2>2 DEF Run
  <2>4. answered[k] \in Nat
    BY PipeNumbers DEF KeyInv, KeyTyped
  <2>5. ~(answered[k] <= KeyTTL)
    BY <2>3 DEF KeyInv, AnswersAreStored, Stored
  <2> QED
    BY <2>4, <2>5, PipeNumbers
<1> QED
  BY <1>1, KeyAlways, PTL DEF PipeSpec, NoRunAfterAnswer

\* Types of the pipeline's variables.
THEOREM PipelineWellTyped == PipeSpec => []PipeTypeOK
<1>1. LimitInv /\ KeyInv => PipeTypeOK
  <2> SUFFICES ASSUME LimitInv, KeyInv PROVE PipeTypeOK
    OBVIOUS
  <2>1. /\ counters \in [Addresses -> Seq(0..Forgotten)]
        /\ admitted \in [Addresses -> Seq(0..Forgotten)]
    BY DEF LimitInv, HitsTyped, Hits, Ages
  <2>2. stored \in [Keys -> Entry \union {Nothing}] /\ answered \in [Keys -> 0..Long]
    BY DEF KeyInv, KeyTyped, KeyFunctions
  <2>3. call \in [Calls -> [at : {"idle", "admitted", "handler"},
                            key : Keys \union {NoKey}, captured : 0..Chunks]]
    BY DEF KeyInv, CallTyped, KeyFunctions
  <2> QED
    BY <2>1, <2>2, <2>3 DEF PipeTypeOK
<1>2. PipeSpec => []LimitInv
  BY LimitInit, LimitNext, PTL DEF PipeSpec
<1> QED
  BY <1>1, <1>2, KeyAlways, PTL

-------------------------------------------------------------------------------
(* Tools and their approval *)

\* The tokens and the counts of what they started are of their types.
TokensTypeOK ==
    /\ pending \in [Tokens -> Pending \union Dropped \union {Unissued}]
    /\ runs \in [Tokens -> 0..2]

\* A token starts nothing before it is used up.
NotBefore == \A t \in Tokens : pending[t] \notin Dropped => runs[t] = 0

ToolIInv ==
    /\ TokensTypeOK
    /\ NotBefore
    /\ ApprovedOnce

LEMMA ToolInitially == ToolInit => ToolIInv
<1> SUFFICES ASSUME ToolInit PROVE ToolIInv
  OBVIOUS
<1>1. \A t \in Tokens : pending[t] = Unissued /\ runs[t] = 0
  BY DEF ToolInit
<1>2. TokensTypeOK
  BY <1>1 DEF ToolInit, TokensTypeOK
<1> QED
  BY <1>1, <1>2 DEF ToolIInv, NotBefore, ApprovedOnce

\* The three kinds of entries are told apart by their state.
LEMMA KindsOfTokens ==
    /\ \A p \in Pending : p.state = "pending" /\ p.age \in 0..PastLife /\ p.name \in ToolNames
    /\ \A p \in Dropped : p.state = "dropped" /\ p.age \in 0..PastLife
    /\ Unissued.state = "unissued"
BY DEF Pending, Dropped, Unissued

\* Most actions leave the tokens alone.
LEMMA SameTokens ==
    ASSUME ToolIInv, UNCHANGED <<pending, runs>>
    PROVE  ToolIInv'
BY DEF ToolIInv, TokensTypeOK, NotBefore, ApprovedOnce

\* A new token is pending and has started nothing.
LEMMA AskPreserves ==
    ASSUME ToolIInv, NEW name \in ToolNames, NEW t \in Tokens, AskApproval(name, t)
    PROVE  ToolIInv'
<1> DEFINE entry == [state |-> "pending", name |-> name, age |-> 0]
<1>1. pending' = [pending EXCEPT ![t] = entry] /\ runs' = runs /\ pending[t] = Unissued
  BY DEF AskApproval
<1>2. 0 \in 0..PastLife
  BY ToolAssumption DEF PastLife
<1>3. entry \in Pending
  BY <1>2 DEF Pending
<1>4. entry \notin Dropped /\ Unissued \notin Dropped
  BY KindsOfTokens, <1>3
<1>5. TokensTypeOK'
  BY <1>1, <1>3 DEF ToolIInv, TokensTypeOK
<1>6. runs[t] = 0
  BY <1>1, <1>4 DEF ToolIInv, NotBefore
<1>7. \A s \in Tokens : s # t => pending'[s] = pending[s]
  BY <1>1 DEF ToolIInv, TokensTypeOK
<1>8. NotBefore' /\ ApprovedOnce'
  BY <1>1, <1>6, <1>7 DEF ToolIInv, NotBefore, ApprovedOnce
<1> QED
  BY <1>5, <1>8 DEF ToolIInv

\* An approval uses the token up, and starts its tool when it is in time.
LEMMA ApprovePreserves ==
    ASSUME ToolIInv, NEW u \in Callers, NEW t \in Tokens, ApproveTool(u, t)
    PROVE  ToolIInv'
<1> DEFINE entry == [state |-> "dropped", age |-> pending[t].age]
<1>1. pending' = [pending EXCEPT ![t] = entry] /\ pending[t].state = "pending"
  BY DEF ApproveTool, Popped
<1>2. pending[t] \in Pending
  BY <1>1, KindsOfTokens DEF ToolIInv, TokensTypeOK
<1>3. pending[t] \notin Dropped /\ entry \in Dropped
  BY <1>1, <1>2, KindsOfTokens DEF Dropped
<1>4. runs[t] = 0
  BY <1>3 DEF ToolIInv, NotBefore
<1>5. \/ runs' = runs
      \/ pending[t].age <= ApprovalTTL /\ runs' = [runs EXCEPT ![t] = 1]
  <2>1. CASE pending[t].age > ApprovalTTL
    BY <2>1 DEF ApproveTool
  <2>2. CASE ~(pending[t].age > ApprovalTTL)
    <3>1. runs' = [runs EXCEPT ![t] = 1]
      BY <1>4, <2>2 DEF ApproveTool, ToolIInv, TokensTypeOK
    <3>2. pending[t].age <= ApprovalTTL
      BY <2>2, <1>2, KindsOfTokens, ToolAssumption DEF PastLife
    <3> QED
      BY <3>1, <3>2
  <2> QED
    BY <2>1, <2>2
<1>6. TokensTypeOK'
  BY <1>1, <1>3, <1>5 DEF ToolIInv, TokensTypeOK
<1>7. pending'[t] = entry /\ \A s \in Tokens : s # t => pending'[s] = pending[s]
  BY <1>1 DEF ToolIInv, TokensTypeOK
<1>8. /\ \A s \in Tokens : s # t => runs'[s] = runs[s]
      /\ runs'[t] \in {0, 1}
      /\ runs'[t] = 1 => pending[t].age <= ApprovalTTL
  BY <1>4, <1>5 DEF ToolIInv, TokensTypeOK
<1>9. NotBefore'
  BY <1>3, <1>7, <1>8 DEF ToolIInv, NotBefore
<1>10. ApprovedOnce'
  BY <1>3, <1>7, <1>8 DEF ToolIInv, ApprovedOnce
<1> QED
  BY <1>6, <1>9, <1>10 DEF ToolIInv

\* Time makes pending tokens older and leaves the others as they are.
LEMMA TokenTime ==
    ASSUME ToolIInv, ToolTime
    PROVE  ToolIInv'
<1>1. runs' = runs
  BY DEF ToolTime
<1>2. \A t \in Tokens :
        \/ pending'[t] = pending[t]
        \/ pending[t] \in Pending /\ pending'[t] \in Pending
  <2> SUFFICES ASSUME NEW t \in Tokens, pending'[t] # pending[t]
               PROVE  pending[t] \in Pending /\ pending'[t] \in Pending
    OBVIOUS
  <2>1. /\ pending[t].state = "pending"
        /\ pending[t].age < PastLife
        /\ pending'[t] = [pending[t] EXCEPT !.age = @ + 1]
    BY DEF ToolTime
  <2>2. pending[t] \in Pending
    BY <2>1, KindsOfTokens DEF ToolIInv, TokensTypeOK
  <2>3. pending[t].age + 1 \in 0..PastLife
    BY <2>1, <2>2, KindsOfTokens, ToolAssumption DEF PastLife
  <2> QED
    BY <2>1, <2>2, <2>3 DEF Pending
<1>3. pending' = [t \in Tokens |-> pending'[t]]
  BY DEF ToolTime
<1>4. TokensTypeOK'
  BY <1>1, <1>2, <1>3 DEF ToolIInv, TokensTypeOK
<1>5. \A t \in Tokens : pending[t] \in Pending => pending[t] \notin Dropped
  BY KindsOfTokens
<1>6. NotBefore' /\ ApprovedOnce'
  BY <1>1, <1>2, <1>5 DEF ToolIInv, NotBefore, ApprovedOnce
<1> QED
  BY <1>4, <1>6 DEF ToolIInv

LEMMA ToolStep == ToolIInv /\ [ToolNext]_toolVars => ToolIInv'
<1> SUFFICES ASSUME ToolIInv, [ToolNext]_toolVars PROVE ToolIInv'
  OBVIOUS
<1>1. CASE UNCHANGED toolVars
  BY <1>1, SameTokens DEF toolVars
<1>2. ASSUME NEW u \in Callers, NEW name \in ToolNames, ExecuteTool(u, name) PROVE ToolIInv'
  BY <1>2, SameTokens DEF ExecuteTool
<1>3. ASSUME NEW u \in Callers, NEW t \in Tokens, ApproveTool(u, t) PROVE ToolIInv'
  BY <1>3, ApprovePreserves
<1>4. ASSUME NEW u \in Callers, NEW calls, NEW kind, ExecuteMultiple(u, calls, kind) PROVE ToolIInv'
  BY <1>4, SameTokens DEF ExecuteMultiple
<1>5. ASSUME NEW u \in Callers, NEW i, HandlerEnds(u, i) PROVE ToolIInv'
  BY <1>5, SameTokens DEF HandlerEnds
<1>6. ASSUME NEW u \in Callers, Answer(u) \/ UnknownTool(u) \/ Sent(u) PROVE ToolIInv'
  BY <1>6, SameTokens DEF Answer, UnknownTool, Sent
<1>7. ASSUME NEW name \in ToolNames, NEW t \in Tokens, AskApproval(name, t) PROVE ToolIInv'
  BY <1>7, AskPreserves
<1>8. CASE ToolTime
  BY <1>8, TokenTime
<1> QED
  BY <1>1, <1>2, <1>3, <1>4, <1>5, <1>6, <1>7, <1>8 DEF ToolNext

\* Tokens of approval.py: whatever requests race, one token starts one tool at
\* most, and not after its time.
THEOREM ApprovedAtMostOnce == ToolSpec => []ApprovedOnce
<1>1. ToolIInv => ApprovedOnce
  BY DEF ToolIInv
<1> QED
  BY ToolInitially, ToolStep, <1>1, PTL DEF ToolSpec

-------------------------------------------------------------------------------
(* Tools and their approval: the types *)

CallersOK ==
    /\ caller \in [Callers -> Call]
    /\ gate \in BOOLEAN

LEMMA NoToolCallType == NoToolCall \in Call
BY EmptySeq DEF NoToolCall, Call

\* One request moves.
LEMMA CallerMoves ==
    ASSUME CallersOK, gate' = gate, NEW u \in Callers, NEW next \in Call,
           caller' = [caller EXCEPT ![u] = next]
    PROVE  CallersOK'
BY DEF CallersOK

LEMMA StartCallsTypes ==
    ASSUME CallersOK, gate' = gate, NEW u \in Callers, NEW n \in Nat,
           NEW calls \in [1..n -> ToolNames],
           NEW kind \in {"single", "sequential", "concurrent"}, StartCalls(u, kind, calls)
    PROVE  CallersOK'
<1> DEFINE outcome == [i \in 1..n |->
                        IF kind = "sequential" /\ i > 1 THEN "todo" ELSE Begun(calls[i])]
           next == [kind |-> kind, calls |-> calls, outcome |-> outcome]
<1>1. outcome \in Seq(Outcomes)
  <2>1. \A i \in 1..n : outcome[i] \in Outcomes
    BY DEF Begun, Outcomes
  <2> QED
    BY <2>1
<1>2. calls \in Seq(ToolNames)
  OBVIOUS
<1>3. caller' = [caller EXCEPT ![u] = next]
  BY DEF StartCalls
<1> HIDE DEF outcome
<1>4. next \in Call
  BY <1>1, <1>2 DEF Call
<1> HIDE DEF next
<1> QED
  BY <1>3, <1>4, CallerMoves

LEMMA HandlerEndsTypes ==
    ASSUME CallersOK, NEW u \in Callers, NEW i, HandlerEnds(u, i)
    PROVE  CallersOK'
<1> DEFINE before == caller[u].outcome
           outcome == [k \in DOMAIN before |->
               IF k = i THEN "result"
               ELSE IF caller[u].kind = "sequential" /\ k = i + 1 THEN Begun(caller[u].calls[k])
               ELSE before[k]]
           next == [caller[u] EXCEPT !.outcome = outcome]
<1>1. caller[u] \in Call /\ before \in Seq(Outcomes)
  BY DEF CallersOK, Call
<1>2. caller' = [caller EXCEPT ![u] = next] /\ gate' = gate
  BY DEF HandlerEnds
<1>3. outcome \in Seq(Outcomes)
  <2>1. DOMAIN before = 1..Len(before) /\ Len(before) \in Nat
        /\ \A k \in 1..Len(before) : before[k] \in Outcomes
    BY <1>1
  <2> HIDE DEF before
  <2>2. \A k \in 1..Len(before) : outcome[k] \in Outcomes
    BY <2>1 DEF Begun, Outcomes
  <2>3. outcome \in [1..Len(before) -> Outcomes]
    BY <2>1, <2>2
  <2> HIDE DEF outcome
  <2> QED
    BY <2>1, <2>3
<1> HIDE DEF outcome, before
<1>4. next \in Call
  BY <1>1, <1>3 DEF Call
<1> HIDE DEF next
<1> QED
  BY <1>2, <1>4, CallerMoves

LEMMA CallersStep ==
    ASSUME ToolIInv, CallersOK, [ToolNext]_toolVars
    PROVE  CallersOK'
<1>1. ASSUME UNCHANGED <<gate, caller>> PROVE CallersOK'
  BY <1>1 DEF CallersOK
<1>2. ASSUME NEW u \in Callers, NEW name \in ToolNames, gate' = gate,
             StartCalls(u, "single", <<name>>)
      PROVE  CallersOK'
  <2> DEFINE calls == <<name>>
  <2>1. calls \in [1..1 -> ToolNames]
    OBVIOUS
  <2> HIDE DEF calls
  <2>2. StartCalls(u, "single", calls)
    BY <1>2 DEF calls
  <2> QED
    BY <1>2, <2>1, <2>2, StartCallsTypes
<1>3. ASSUME NEW u \in Callers, NEW name \in ToolNames, ExecuteTool(u, name) PROVE CallersOK'
  BY <1>2, <1>3 DEF ExecuteTool
<1>4. ASSUME NEW u \in Callers, NEW t \in Tokens, ApproveTool(u, t) PROVE CallersOK'
  <2>1. CASE UNCHANGED caller
    BY <1>1, <1>4, <2>1 DEF ApproveTool
  <2>2. CASE ~UNCHANGED caller
    <3>1. StartCalls(u, "single", <<pending[t].name>>) /\ gate' = gate
          /\ pending[t].state = "pending"
      BY <1>4, <2>2 DEF ApproveTool
    <3>2. pending[t].name \in ToolNames
      BY <3>1, KindsOfTokens DEF ToolIInv, TokensTypeOK
    <3> QED
      BY <1>2, <3>1, <3>2
  <2> QED
    BY <2>1, <2>2
<1>5. ASSUME NEW u \in Callers, NEW n \in 1..MaxCalls, NEW kind \in {"sequential", "concurrent"},
             NEW calls \in [1..n -> ToolNames], ExecuteMultiple(u, calls, kind)
      PROVE  CallersOK'
  BY <1>5, StartCallsTypes DEF ExecuteMultiple
<1>6. ASSUME NEW u \in Callers, NEW i, HandlerEnds(u, i) PROVE CallersOK'
  BY <1>6, HandlerEndsTypes
<1>7. ASSUME NEW u \in Callers, Answer(u) PROVE CallersOK'
  <2> DEFINE next == [caller[u] EXCEPT !.kind = "answered"]
  <2>1. caller' = [caller EXCEPT ![u] = next] /\ gate' = gate
    BY <1>7 DEF Answer
  <2>2. next \in Call
    BY DEF CallersOK, Call
  <2> HIDE DEF next
  <2> QED
    BY <2>1, <2>2, CallerMoves
<1>8. ASSUME NEW u \in Callers, UnknownTool(u) \/ Sent(u) PROVE CallersOK'
  BY <1>8, NoToolCallType, CallerMoves DEF UnknownTool, Sent
<1>9. ASSUME NEW name \in ToolNames, NEW t \in Tokens, AskApproval(name, t) PROVE CallersOK'
  BY <1>1, <1>9 DEF AskApproval
<1>10. CASE ToolTime \/ UNCHANGED toolVars
  BY <1>1, <1>10 DEF ToolTime, toolVars
<1> QED
  BY <1>3, <1>4, <1>5, <1>6, <1>7, <1>8, <1>9, <1>10 DEF ToolNext

\* The variables of Tools stay in their types.
THEOREM ToolsWellTyped == ToolSpec => []ToolTypeOK
<1>1. ToolInit => ToolIInv /\ CallersOK
  BY ToolInitially, NoToolCallType DEF ToolInit, CallersOK
<1>2. ToolIInv /\ CallersOK /\ [ToolNext]_toolVars => (ToolIInv /\ CallersOK)'
  BY ToolStep, CallersStep
<1>3. ToolIInv /\ CallersOK => ToolTypeOK
  BY DEF ToolIInv, TokensTypeOK, CallersOK, ToolTypeOK
<1> QED
  BY <1>1, <1>2, <1>3, PTL DEF ToolSpec

-------------------------------------------------------------------------------
(* The model catalogue: the invariant *)

CatalogGet ==
    [query : Queries \union {{}}, done : SUBSET Sources,
     asks : {{}} \union {{p} : p \in Sources}, took : 0..ModelTTL,
     oldest : 0..ModelTTL, askedBefore : BOOLEAN,
     refreshed : SUBSET Sources, outdated : SUBSET Sources]

\* No list that a request collects had been stored for ModelTTL when it came in.
CollectsFresh == \A g \in Gets : get[g].oldest < ModelTTL

\* While a response is remembered its oldest list has aged with it.
AgesTogether ==
    \A q \in Queries :
        Remembered(q) => responses[q].oldest < ModelTTL + responses[q].age

CatalogIInv == CatalogTypeOK /\ CollectsFresh /\ AgesTogether

LEMMA CatalogNumbers ==
    /\ ModelTTL \in Nat /\ ModelTTL >= 1 /\ ResponseTTL \in Nat
    /\ Oldest \in Nat /\ Oldest = ModelTTL + ResponseTTL + 1
BY CatalogAssumption DEF Oldest

LEMMA CatalogTypes ==
    CatalogTypeOK <=> /\ models \in [Sources -> List \union {NoEntry}]
                      /\ responses \in [Queries -> Response \union {NoEntry}]
                      /\ refreshes \in [Queries -> 0..(ResponseTTL + 1)]
                      /\ get \in [Gets -> CatalogGet]
BY DEF CatalogTypeOK, CatalogGet

LEMMA QueriesAreSources == \A q \in Queries : q \in SUBSET Sources
BY DEF Queries

LEMMA NoGetType == NoGet \in CatalogGet /\ NoGet.oldest = 0
BY CatalogNumbers DEF NoGet, CatalogGet

LEMMA MaxOfTwo ==
    ASSUME NEW a \in Nat, NEW b \in Nat
    PROVE  Sets!Max({a, b}) \in {a, b}
<1>1. \E x \in {a, b} : \A y \in {a, b} : x >= y
  <2>1. CASE a >= b
    BY <2>1
  <2>2. CASE ~(a >= b)
    BY <2>2
  <2> QED
    BY <2>1, <2>2
<1> QED
  BY <1>1 DEF Sets!Max

LEMMA CatalogInitially == CatalogInit => CatalogIInv
<1> SUFFICES ASSUME CatalogInit PROVE CatalogIInv
  OBVIOUS
<1>1. /\ models = [p \in Sources |-> NoEntry]
      /\ responses = [q \in Queries |-> NoEntry]
      /\ refreshes = [q \in Queries |-> ResponseTTL + 1]
      /\ get = [g \in Gets |-> NoGet]
  BY DEF CatalogInit
<1>2. CatalogTypeOK
  BY <1>1, NoGetType, CatalogNumbers, CatalogTypes
<1>3. CollectsFresh
  BY <1>1, NoGetType, CatalogNumbers DEF CollectsFresh
<1>4. AgesTogether
  BY <1>1 DEF AgesTogether, Remembered
<1> QED
  BY <1>2, <1>3, <1>4 DEF CatalogIInv

-------------------------------------------------------------------------------
(* The model catalogue: the steps *)

\* A step of one request that leaves the cached responses.
LEMMA OneGetMoves ==
    ASSUME CatalogIInv, NEW g \in Gets, NEW next \in CatalogGet, next.oldest < ModelTTL,
           get' = [get EXCEPT ![g] = next],
           models' \in [Sources -> List \union {NoEntry}],
           \A q \in Queries : responses'[q] = responses[q] \/ responses'[q] = NoEntry,
           responses' \in [Queries -> Response \union {NoEntry}], UNCHANGED refreshes
    PROVE  CatalogIInv'
<1>1. /\ models \in [Sources -> List \union {NoEntry}]
      /\ responses \in [Queries -> Response \union {NoEntry}]
      /\ get \in [Gets -> CatalogGet]
  BY CatalogTypes DEF CatalogIInv
<1>2. get' \in [Gets -> CatalogGet]
  BY <1>1
<1>3. CatalogTypeOK'
  BY <1>2 DEF CatalogIInv, CatalogTypeOK, CatalogGet
<1>4. CollectsFresh'
  BY <1>1 DEF CatalogIInv, CollectsFresh
<1>5. AgesTogether'
  BY DEF CatalogIInv, AgesTogether, Remembered
<1> QED
  BY <1>3, <1>4, <1>5 DEF CatalogIInv

LEMMA StartGetStep ==
    ASSUME CatalogIInv, NEW g \in Gets, NEW q \in Queries, StartGet(g, q)
    PROVE  CatalogIInv'
<1> DEFINE next == [get[g] EXCEPT !.query = q]
<1>1. /\ get' = [get EXCEPT ![g] = next] /\ UNCHANGED <<models, refreshes>>
      /\ responses' = [responses EXCEPT ![q] = IF Remembered(q) THEN @ ELSE NoEntry]
  BY DEF StartGet
<1>2. /\ models \in [Sources -> List \union {NoEntry}]
      /\ responses \in [Queries -> Response \union {NoEntry}]
      /\ get[g] \in CatalogGet
  BY CatalogTypes DEF CatalogIInv
<1>3. next \in CatalogGet /\ next.oldest = get[g].oldest
  BY <1>2 DEF CatalogGet
<1> HIDE DEF next
<1>4. \A r \in Queries : responses'[r] = responses[r] \/ responses'[r] = NoEntry
  BY <1>1, <1>2
<1>5. responses' \in [Queries -> Response \union {NoEntry}]
  BY <1>1, <1>2
<1>6. next.oldest < ModelTTL
  BY <1>3 DEF CatalogIInv, CollectsFresh
<1> QED
  BY <1>1, <1>2, <1>3, <1>4, <1>5, <1>6, OneGetMoves

\* What a request collects was fresh when it was taken.
LEMMA CollectStep ==
    ASSUME CatalogIInv, NEW g \in Gets, NEW p \in Sources, NEW list \in List,
           list.age < ModelTTL, Collect(g, p, list),
           models' \in [Sources -> List \union {NoEntry}], UNCHANGED <<responses, refreshes>>
    PROVE  CatalogIInv'
<1> DEFINE age == CameInAt(g, list.age)
           oldest == Sets!Max({get[g].oldest, age})
           outdated == IF list.stale /\ p \notin get[g].refreshed
                       THEN get[g].outdated \union {p} ELSE get[g].outdated
           next == [get[g] EXCEPT !.done = @ \union {p}, !.asks = {}, !.askedBefore = FALSE,
                                  !.oldest = oldest, !.outdated = outdated]
<1>1. /\ responses \in [Queries -> Response \union {NoEntry}]
      /\ get \in [Gets -> CatalogGet] /\ get[g] \in CatalogGet
  BY CatalogTypes DEF CatalogIInv
<1>2. /\ get[g].took \in Nat /\ get[g].oldest \in Nat /\ get[g].oldest < ModelTTL
      /\ get[g].outdated \in SUBSET Sources /\ list.age \in Nat
  BY <1>1, CatalogNumbers DEF CatalogGet, CatalogIInv, CollectsFresh, List
<1>3. age \in Nat /\ age < ModelTTL
  BY <1>2, CatalogNumbers DEF CameInAt
<1>4. oldest \in 0..ModelTTL /\ oldest < ModelTTL
  <2> HIDE DEF age
  <2>1. oldest \in {get[g].oldest, age}
    BY <1>2, <1>3, MaxOfTwo
  <2> QED
    BY <1>2, <1>3, <2>1, CatalogNumbers
<1>5. outdated \in SUBSET Sources
  <2>1. outdated = get[g].outdated \union {p} \/ outdated = get[g].outdated
    BY Zenon
  <2> QED
    BY <1>2, <2>1
<1>6. get' = [get EXCEPT ![g] = next]
  BY <1>1 DEF Collect
<1> HIDE DEF oldest, outdated
<1>7. next \in CatalogGet /\ next.oldest = oldest
  BY <1>1, <1>4, <1>5 DEF CatalogGet
<1> HIDE DEF next
<1> QED
  BY <1>1, <1>4, <1>6, <1>7, OneGetMoves

LEMMA FromCacheStep ==
    ASSUME CatalogIInv, NEW g \in Gets, NEW p \in Sources, FromCache(g, p)
    PROVE  CatalogIInv'
<1>1. models \in [Sources -> List \union {NoEntry}]
  BY CatalogTypes DEF CatalogIInv
<1>2. models[p] \in List /\ models[p].age < ModelTTL
  BY <1>1 DEF FromCache, Fresh
<1> QED
  BY <1>1, <1>2, CollectStep DEF FromCache

LEMMA AskProviderStep ==
    ASSUME CatalogIInv, NEW g \in Gets, NEW p \in Sources, AskProvider(g, p)
    PROVE  CatalogIInv'
<1> DEFINE next == [get[g] EXCEPT !.asks = {p}]
<1>1. /\ get' = [get EXCEPT ![g] = next] /\ UNCHANGED <<responses, refreshes>>
      /\ models' = [models EXCEPT ![p] = NoEntry]
  BY DEF AskProvider
<1>2. /\ models \in [Sources -> List \union {NoEntry}]
      /\ responses \in [Queries -> Response \union {NoEntry}]
      /\ get[g] \in CatalogGet
  BY CatalogTypes DEF CatalogIInv
<1>3. next \in CatalogGet /\ next.oldest = get[g].oldest
  BY <1>2 DEF CatalogGet
<1> HIDE DEF next
<1>4. next.oldest < ModelTTL
  BY <1>3 DEF CatalogIInv, CollectsFresh
<1>5. models' \in [Sources -> List \union {NoEntry}]
  BY <1>1, <1>2
<1> QED
  BY <1>1, <1>2, <1>3, <1>4, <1>5, OneGetMoves

LEMMA ListArrivesStep ==
    ASSUME CatalogIInv, NEW g \in Gets, NEW p \in Sources, ListArrives(g, p)
    PROVE  CatalogIInv'
<1> DEFINE list == [age |-> 0, stale |-> get[g].askedBefore]
<1>1. /\ models' = [models EXCEPT ![p] = list] /\ Collect(g, p, list)
      /\ UNCHANGED <<responses, refreshes>>
  BY DEF ListArrives
<1>2. /\ models \in [Sources -> List \union {NoEntry}] /\ get[g] \in CatalogGet
  BY CatalogTypes DEF CatalogIInv
<1>3. get[g].askedBefore \in BOOLEAN
  BY <1>2, Zenon DEF CatalogGet
<1>4. list \in List /\ list.age = 0
  BY <1>3, CatalogNumbers DEF List
<1> HIDE DEF list
<1>5. models' \in [Sources -> List \union {NoEntry}]
  BY <1>1, <1>2, <1>4
<1> QED
  BY <1>1, <1>4, <1>5, CatalogNumbers, CollectStep

\* The answer is as old as its oldest list.
LEMMA SendListStep ==
    ASSUME CatalogIInv, NEW g \in Gets, SendList(g)
    PROVE  CatalogIInv'
<1> DEFINE body == [age |-> 0, oldest |-> get[g].oldest]
           query == get[g].query
<1>1. /\ responses' = [responses EXCEPT ![query] = body]
      /\ get' = [get EXCEPT ![g] = NoGet] /\ UNCHANGED <<models, refreshes>>
  BY DEF SendList
<1>2. /\ models \in [Sources -> List \union {NoEntry}]
      /\ responses \in [Queries -> Response \union {NoEntry}]
      /\ get \in [Gets -> CatalogGet] /\ get[g].oldest \in 0..ModelTTL
  BY CatalogTypes DEF CatalogIInv, CatalogGet
<1>3. get[g].oldest < ModelTTL
  BY DEF CatalogIInv, CollectsFresh
<1>4. body \in Response /\ body.age = 0 /\ body.oldest < ModelTTL
  BY <1>2, <1>3, CatalogNumbers DEF Response
<1> HIDE DEF body
<1>5. responses' \in [Queries -> Response \union {NoEntry}]
  BY <1>1, <1>2, <1>4
<1>6. get' \in [Gets -> CatalogGet]
  BY <1>1, <1>2, NoGetType
<1>7. CatalogTypeOK'
  BY <1>1, <1>2, <1>5, <1>6 DEF CatalogIInv, CatalogTypeOK, CatalogGet
<1>8. CollectsFresh'
  <2> SUFFICES ASSUME NEW h \in Gets PROVE get'[h].oldest < ModelTTL
    BY DEF CollectsFresh
  <2>1. CASE h = g
    BY <1>1, <1>2, <2>1, NoGetType, CatalogNumbers
  <2>2. CASE h # g
    BY <1>1, <1>2, <2>2 DEF CatalogIInv, CollectsFresh
  <2> QED
    BY <2>1, <2>2
<1>9. AgesTogether'
  <2> SUFFICES ASSUME NEW q \in Queries,
                      responses'[q] # NoEntry, responses'[q].age <= ResponseTTL
               PROVE  responses'[q].oldest < ModelTTL + responses'[q].age
    BY DEF AgesTogether, Remembered
  <2>1. CASE q = query
    BY <1>1, <1>2, <1>4, <2>1, CatalogNumbers
  <2>2. CASE q # query
    <3>1. responses'[q] = responses[q]
      BY <1>1, <1>2, <2>2
    <3> QED
      BY <3>1 DEF CatalogIInv, AgesTogether, Remembered
  <2> QED
    BY <2>1, <2>2
<1> QED
  BY <1>7, <1>8, <1>9 DEF CatalogIInv

\* A refresh makes no list and no response younger.
LEMMA RefreshStep ==
    ASSUME CatalogIInv, NEW q \in Queries, Refresh(q)
    PROVE  CatalogIInv'
<1> DEFINE next(g) == [get[g] EXCEPT
                    !.refreshed = @ \union (q \intersect get[g].query),
                    !.askedBefore = @ \/ get[g].asks \intersect q # {}]
<1>1. /\ models' = Cleared(q) /\ UNCHANGED responses
      /\ refreshes' = [refreshes EXCEPT ![q] = 0]
      /\ get' = [g \in Gets |-> IF get[g] = NoGet THEN NoGet ELSE next(g)]
  BY DEF Refresh
<1>2. /\ models \in [Sources -> List \union {NoEntry}]
      /\ responses \in [Queries -> Response \union {NoEntry}]
      /\ get \in [Gets -> CatalogGet]
  BY CatalogTypes DEF CatalogIInv
<1>3. models' \in [Sources -> List \union {NoEntry}]
  BY <1>1, <1>2 DEF Cleared
<1>4. ASSUME NEW g \in Gets
      PROVE  next(g) \in CatalogGet /\ next(g).oldest = get[g].oldest
  <2> DEFINE again == get[g].askedBefore \/ get[g].asks \intersect q # {}
             refreshed == get[g].refreshed \union (q \intersect get[g].query)
  <2>1. get[g] \in CatalogGet
    BY <1>2
  <2>2. again \in BOOLEAN
    BY <2>1, Zenon
  <2>3. refreshed \in SUBSET Sources
    BY <2>1, QueriesAreSources DEF CatalogGet
  <2>4. next(g) = [get[g] EXCEPT !.refreshed = refreshed, !.askedBefore = again]
    BY Zenon
  <2> HIDE DEF again, refreshed, next
  <2> QED
    BY <2>1, <2>2, <2>3, <2>4 DEF CatalogGet
<1> HIDE DEF next
<1>5. \A g \in Gets : /\ get'[g] \in CatalogGet
                      /\ get'[g].oldest = get[g].oldest \/ get'[g].oldest = 0
  BY <1>1, <1>4, NoGetType
<1>6. get' \in [Gets -> CatalogGet]
  BY <1>1, <1>5
<1>7. CatalogTypeOK'
  <2>1. refreshes' \in [Queries -> 0..(ResponseTTL + 1)]
    BY <1>1, CatalogTypes, CatalogNumbers DEF CatalogIInv
  <2> QED
    BY <1>1, <1>2, <1>3, <1>6, <2>1 DEF CatalogTypeOK, CatalogGet
<1>8. CollectsFresh'
  BY <1>5, CatalogNumbers DEF CatalogIInv, CollectsFresh
<1>9. AgesTogether'
  BY <1>1 DEF CatalogIInv, AgesTogether, Remembered
<1> QED
  BY <1>7, <1>8, <1>9 DEF CatalogIInv

\* Time passes for a response and for its lists alike.
LEMMA CatalogTimeStep ==
    ASSUME CatalogIInv, CatalogTime
    PROVE  CatalogIInv'
<1> DEFINE nextM(p) == [models[p] EXCEPT !.age = Until(ModelTTL, @)]
           nextR(q) == [responses[q] EXCEPT !.age = Until(ResponseTTL + 1, @),
                                            !.oldest = Until(Oldest, @)]
           nextG(g) == [get[g] EXCEPT !.took = Until(ModelTTL, @)]
<1>1. /\ models' = [p \in Sources |-> IF models[p] = NoEntry THEN NoEntry ELSE nextM(p)]
      /\ responses' = [q \in Queries |-> IF responses[q] = NoEntry THEN NoEntry ELSE nextR(q)]
      /\ refreshes' = [q \in Queries |-> Until(ResponseTTL + 1, refreshes[q])]
      /\ get' = [g \in Gets |-> IF get[g] = NoGet THEN NoGet ELSE nextG(g)]
  BY DEF CatalogTime
<1>2. /\ models \in [Sources -> List \union {NoEntry}]
      /\ responses \in [Queries -> Response \union {NoEntry}]
      /\ get \in [Gets -> CatalogGet]
  BY CatalogTypes DEF CatalogIInv
<1>3. \A limit \in Nat : \A t \in 0..limit : Until(limit, t) \in 0..limit
  BY DEF Until
<1>4. ASSUME NEW p \in Sources, models[p] # NoEntry
      PROVE  nextM(p) \in List
  <2>1. models[p] \in List /\ models[p].age \in 0..ModelTTL
    BY <1>2, <1>4 DEF List
  <2>2. Until(ModelTTL, models[p].age) \in 0..ModelTTL
    BY <1>3, <2>1, CatalogNumbers
  <2> QED
    BY <2>1, <2>2 DEF List
<1>5. ASSUME NEW q \in Queries, responses[q] # NoEntry
      PROVE  /\ nextR(q) \in Response
             /\ nextR(q).age = Until(ResponseTTL + 1, responses[q].age)
             /\ nextR(q).oldest = Until(Oldest, responses[q].oldest)
             /\ responses[q].age \in 0..(ResponseTTL + 1)
             /\ responses[q].oldest \in 0..Oldest
  <2>1. /\ responses[q] \in Response /\ responses[q].age \in 0..(ResponseTTL + 1)
        /\ responses[q].oldest \in 0..Oldest
    BY <1>2, <1>5 DEF Response
  <2>2. /\ Until(ResponseTTL + 1, responses[q].age) \in 0..(ResponseTTL + 1)
        /\ Until(Oldest, responses[q].oldest) \in 0..Oldest
    <3>1. ResponseTTL + 1 \in Nat /\ Oldest \in Nat
      BY CatalogNumbers
    <3> QED
      BY <1>3, <2>1, <3>1
  <2> QED
    BY <2>1, <2>2 DEF Response
<1>6. ASSUME NEW g \in Gets
      PROVE  nextG(g) \in CatalogGet /\ nextG(g).oldest = get[g].oldest
  <2>1. get[g] \in CatalogGet /\ get[g].took \in 0..ModelTTL
    BY <1>2 DEF CatalogGet
  <2>2. Until(ModelTTL, get[g].took) \in 0..ModelTTL
    BY <1>3, <2>1, CatalogNumbers
  <2> QED
    BY <2>1, <2>2 DEF CatalogGet
<1> HIDE DEF nextM, nextR, nextG
<1>7. models' \in [Sources -> List \union {NoEntry}]
  BY <1>1, <1>4
<1>8. responses' \in [Queries -> Response \union {NoEntry}]
  BY <1>1, <1>5
<1>9. \A g \in Gets : /\ get'[g] \in CatalogGet
                      /\ get'[g].oldest = get[g].oldest \/ get'[g].oldest = 0
  BY <1>1, <1>6, NoGetType
<1>10. get' \in [Gets -> CatalogGet]
  BY <1>1, <1>9
<1>11. CatalogTypeOK'
  <2>1. /\ ResponseTTL + 1 \in Nat
        /\ refreshes \in [Queries -> 0..(ResponseTTL + 1)]
    BY CatalogTypes, CatalogNumbers DEF CatalogIInv
  <2>2. refreshes' \in [Queries -> 0..(ResponseTTL + 1)]
    BY <1>1, <1>3, <2>1
  <2> QED
    BY <1>7, <1>8, <1>10, <2>2 DEF CatalogTypeOK, CatalogGet
<1>12. CollectsFresh'
  BY <1>9, CatalogNumbers DEF CatalogIInv, CollectsFresh
<1>13. AgesTogether'
  <2> SUFFICES ASSUME NEW q \in Queries,
                      responses'[q] # NoEntry, responses'[q].age <= ResponseTTL
               PROVE  responses'[q].oldest < ModelTTL + responses'[q].age
    BY DEF AgesTogether, Remembered
  <2>1. responses[q] # NoEntry /\ responses'[q] = nextR(q)
    BY <1>1
  <2>2. /\ responses'[q].age = Until(ResponseTTL + 1, responses[q].age)
        /\ responses'[q].oldest = Until(Oldest, responses[q].oldest)
        /\ responses[q].age \in Nat /\ responses[q].age <= ResponseTTL + 1
        /\ responses[q].oldest \in Nat
    BY <1>5, <2>1, CatalogNumbers
  <2>3. responses[q].age < ResponseTTL /\ responses'[q].age = responses[q].age + 1
    BY <2>2, CatalogNumbers DEF Until
  <2>4. responses[q].oldest < ModelTTL + responses[q].age
    BY <2>1, <2>2, <2>3, CatalogNumbers DEF CatalogIInv, AgesTogether, Remembered
  <2>5. responses'[q].oldest <= responses[q].oldest + 1
    BY <2>2, <2>4, <2>3, CatalogNumbers DEF Until
  <2>6. responses'[q].oldest \in Nat
    BY <2>2, CatalogNumbers DEF Until
  <2> QED
    BY <2>2, <2>3, <2>4, <2>5, <2>6, CatalogNumbers
<1> QED
  BY <1>11, <1>12, <1>13 DEF CatalogIInv

LEMMA CatalogStep == CatalogIInv /\ [CatalogNext]_catalogVars => CatalogIInv'
<1> SUFFICES ASSUME CatalogIInv, [CatalogNext]_catalogVars PROVE CatalogIInv'
  OBVIOUS
<1>1. ASSUME UNCHANGED catalogVars
      PROVE  CatalogIInv'
  BY <1>1 DEF catalogVars, CatalogIInv, CatalogTypeOK, CollectsFresh, AgesTogether, Remembered
<1>2. ASSUME NEW q \in Queries, NotModified(q) \/ RefreshNotModified(q)
      PROVE  CatalogIInv'
  BY <1>1, <1>2 DEF NotModified, RefreshNotModified, AfterHit, catalogVars
<1>3. ASSUME NEW q \in Queries, Refresh(q)
      PROVE  CatalogIInv'
  BY <1>3, RefreshStep
<1>4. ASSUME NEW g \in Gets, NEW q \in Queries, StartGet(g, q)
      PROVE  CatalogIInv'
  BY <1>4, StartGetStep
<1>5. ASSUME NEW g \in Gets, NEW p \in Sources,
             FromCache(g, p) \/ AskProvider(g, p) \/ ListArrives(g, p)
      PROVE  CatalogIInv'
  BY <1>5, FromCacheStep, AskProviderStep, ListArrivesStep
<1>6. ASSUME NEW g \in Gets, SendList(g)
      PROVE  CatalogIInv'
  BY <1>6, SendListStep
<1>7. CASE CatalogTime
  BY <1>7, CatalogTimeStep
<1> QED
  BY <1>1, <1>2, <1>3, <1>4, <1>5, <1>6, <1>7, Zenon DEF CatalogNext

LEMMA CatalogHolds == CatalogSpec => []CatalogIInv
<1> QED
  BY CatalogInitially, CatalogStep, PTL DEF CatalogSpec

\* However often a client asks whether its list is still good, it is told so of
\* no list older than the two times to live together.
THEOREM ConfirmationsAreOfTheirTime == CatalogSpec => []ConfirmationsExpire
<1>1. CatalogIInv => ConfirmationsExpire
  <2> SUFFICES ASSUME CatalogIInv, NEW q \in Queries, Remembered(q)
               PROVE  responses[q].oldest < ModelTTL + ResponseTTL
    BY DEF ConfirmationsExpire
  <2>1. responses[q].oldest < ModelTTL + responses[q].age /\ responses[q].age <= ResponseTTL
    BY DEF CatalogIInv, AgesTogether, Remembered
  <2>2. responses[q].age \in Nat /\ responses[q].oldest \in Nat
    BY CatalogTypes, CatalogNumbers DEF CatalogIInv, Remembered, Response
  <2> QED
    BY <2>1, <2>2, CatalogNumbers
<1> QED
  BY <1>1, CatalogHolds, PTL

\* The state of the caches and of the requests for lists keeps its type.
THEOREM CatalogWellTyped == CatalogSpec => []CatalogTypeOK
<1>1. CatalogIInv => CatalogTypeOK
  BY DEF CatalogIInv
<1> QED
  BY <1>1, CatalogHolds, PTL

-------------------------------------------------------------------------------
(* The compatible endpoint: the invariant *)

CompatRequest ==
    [at : {"idle", "opened", "streaming", "finishing", "finished", "answered", "refused",
           "broken"},
     family : Families \union {"none"}, sent : Seq(1..MaxPieces), failed : BOOLEAN,
     got : Seq(Pieces),
     role : 0..1, finish : 0..1, over : 0..1, calls : 0..1,
     reason : {"none", "stop", "STOP", "end_turn", "tool_calls", "tool_use"}]

\* At every moment the client has what the provider has produced, and the error
\* after it if it failed; it fails once, at the end of its stream, and the
\* closing chunks come one after the other.
RequestWhole(r) ==
    /\ ~r.failed => r.got = r.sent
    /\ r.failed => r.got = Append(r.sent, ErrorPiece)
    /\ r.at \in {"opened", "streaming"} => ~r.failed
    /\ r.at \in {"opened", "streaming", "finishing"} => r.finish = 0
    /\ r.at \in {"opened", "streaming", "finishing", "finished"} => r.over = 0

CompatIInv ==
    /\ registry \subseteq Routed
    /\ client \in [Clients -> CompatRequest]
    /\ \A c \in Clients : RequestWhole(client[c])

LEMMA RoutesAreKnown == Routed \subseteq ProviderNames
<1>1. \A f \in Families : ResolveProvider(f) \in ProviderNames
  BY DEF ResolveProvider, RuleOf, ProviderNames, Dedicated, AnthropicCompat, OpenAICompat
<1> QED
  BY <1>1 DEF Routed

LEMMA CompatTypes ==
    CompatTypeOK <=> registry \subseteq Routed /\ client \in [Clients -> CompatRequest]
BY RoutesAreKnown DEF CompatTypeOK, CompatRequest

LEMMA NoRequestWhole ==
    /\ NoRequest \in CompatRequest /\ RequestWhole(NoRequest)
    /\ ~NoRequest.failed /\ NoRequest.got = NoRequest.sent
    /\ NoRequest.finish = 0 /\ NoRequest.over = 0
<1>1. <<>> \in Seq(1..MaxPieces) /\ <<>> \in Seq(Pieces)
  BY EmptySeq
<1>2. NoRequest \in CompatRequest
  BY <1>1 DEF NoRequest, CompatRequest
<1>3. /\ ~NoRequest.failed /\ NoRequest.got = NoRequest.sent /\ NoRequest.at = "idle"
      /\ NoRequest.finish = 0 /\ NoRequest.over = 0
  BY DEF NoRequest
<1> QED
  BY <1>2, <1>3 DEF RequestWhole

\* A request starts, or is answered in one step, with nothing streamed.
LEMMA RequestStarts ==
    ASSUME NEW f \in Families
    PROVE  LET next == [NoRequest EXCEPT !.at = "opened", !.family = f, !.role = 1]
           IN  next \in CompatRequest /\ RequestWhole(next)
<1> DEFINE one == 1
           next == [NoRequest EXCEPT !.at = "opened", !.family = f, !.role = one]
<1>1. one \in 0..1
  OBVIOUS
<1> HIDE DEF one
<1>2. /\ next \in CompatRequest /\ next.failed = NoRequest.failed /\ next.got = NoRequest.got
      /\ next.sent = NoRequest.sent
  BY <1>1, NoRequestWhole DEF CompatRequest
<1>3. next.finish = 0 /\ next.over = 0
  BY NoRequestWhole DEF CompatRequest
<1> HIDE DEF next
<1>4. RequestWhole(next)
  BY <1>2, <1>3, NoRequestWhole DEF RequestWhole
<1> QED
  BY <1>2, <1>4 DEF next, one

LEMMA RequestEnds ==
    ASSUME NEW f \in Families, NEW calls \in 0..1,
           NEW reason \in {"none", "stop", "STOP", "end_turn", "tool_calls", "tool_use"}
    PROVE  LET next == [NoRequest EXCEPT !.at = "answered", !.family = f, !.calls = calls,
                                         !.reason = reason]
           IN  next \in CompatRequest /\ RequestWhole(next)
<1> DEFINE next == [NoRequest EXCEPT !.at = "answered", !.family = f, !.calls = calls,
                                     !.reason = reason]
<1>1. /\ next \in CompatRequest /\ next.failed = NoRequest.failed /\ next.got = NoRequest.got
      /\ next.sent = NoRequest.sent /\ next.at = "answered"
  BY NoRequestWhole DEF CompatRequest
<1>2. next.finish = 0 /\ next.over = 0
  BY NoRequestWhole DEF CompatRequest
<1> HIDE DEF next
<1>3. RequestWhole(next)
  BY <1>1, <1>2, NoRequestWhole DEF RequestWhole
<1> QED
  BY <1>1, <1>3 DEF next

LEMMA CompatInitially == CompatInit => CompatIInv
BY NoRequestWhole DEF CompatInit, CompatIInv, Registries

LEMMA OneClientMoves ==
    ASSUME CompatIInv, NEW c \in Clients, NEW next \in CompatRequest, RequestWhole(next),
           client' = [client EXCEPT ![c] = next], UNCHANGED registry
    PROVE  CompatIInv'
BY DEF CompatIInv

\* A step that only leads the request on.
LEMMA RequestGoesOn ==
    ASSUME CompatIInv, NEW c \in Clients,
           NEW at \in {"streaming", "finishing", "broken"},
           client[c].at \in {"opened", "streaming"} \/ at = "broken",
           client' = [client EXCEPT ![c].at = at], UNCHANGED registry
    PROVE  CompatIInv'
<1> DEFINE next == [client[c] EXCEPT !.at = at]
<1>1. client[c] \in CompatRequest /\ RequestWhole(client[c])
  BY DEF CompatIInv
<1>2. client' = [client EXCEPT ![c] = next]
  OBVIOUS
<1>3. /\ next \in CompatRequest /\ next.at = at
      /\ next.failed = client[c].failed /\ next.got = client[c].got
      /\ next.sent = client[c].sent /\ next.finish = client[c].finish
      /\ next.over = client[c].over
  BY <1>1 DEF CompatRequest
<1> HIDE DEF next
<1>4. RequestWhole(next)
  BY <1>1, <1>3 DEF RequestWhole
<1> QED
  BY <1>2, <1>3, <1>4, OneClientMoves

LEMMA PieceTypes ==
    /\ ErrorPiece \in Pieces
    /\ 1..MaxPieces \subseteq Pieces
    /\ MaxPieces \in Nat
BY CompatAssumption DEF ErrorPiece, Pieces

\* The error comes after all that was produced.
LEMMA ErrorChunkStep ==
    ASSUME CompatIInv, NEW c \in Clients, client[c].at \in {"opened", "streaming"},
           ErrorChunk(c), UNCHANGED registry
    PROVE  CompatIInv'
<1> DEFINE next == [client[c] EXCEPT !.got = Append(client[c].got, ErrorPiece),
                                     !.failed = TRUE, !.at = "finishing"]
<1>1. client[c] \in CompatRequest /\ RequestWhole(client[c]) /\ client \in [Clients -> CompatRequest]
  BY DEF CompatIInv
<1>2. client' = [client EXCEPT ![c] = next]
  BY <1>1 DEF ErrorChunk, Got
<1>3. /\ client[c].got \in Seq(Pieces) /\ ~client[c].failed
      /\ client[c].got = client[c].sent /\ client[c].finish = 0 /\ client[c].over = 0
  BY <1>1 DEF CompatRequest, RequestWhole
<1>4. Append(client[c].got, ErrorPiece) \in Seq(Pieces)
  BY <1>3, PieceTypes, AppendProperties
<1>5. /\ next \in CompatRequest /\ next.at = "finishing"
      /\ next.failed = TRUE /\ next.got = Append(client[c].sent, ErrorPiece)
      /\ next.sent = client[c].sent /\ next.finish = 0 /\ next.over = 0
  BY <1>1, <1>3, <1>4 DEF CompatRequest
<1> HIDE DEF next
<1>6. RequestWhole(next)
  BY <1>5 DEF RequestWhole
<1> QED
  BY <1>2, <1>5, <1>6, OneClientMoves

LEMMA PieceStep ==
    ASSUME CompatIInv, NEW c \in Clients, Piece(c)
    PROVE  CompatIInv'
<1> DEFINE piece == Len(client[c].sent) + 1
           next == [client[c] EXCEPT !.sent = Append(client[c].sent, piece),
                                     !.got = Append(client[c].got, piece)]
<1>1. client[c] \in CompatRequest /\ RequestWhole(client[c]) /\ client \in [Clients -> CompatRequest]
  BY DEF CompatIInv
<1>2. client' = [client EXCEPT ![c] = next] /\ UNCHANGED registry
  BY <1>1 DEF Piece, Chunk, Got
<1>3. /\ client[c].at = "streaming" /\ ~client[c].failed /\ client[c].got = client[c].sent
      /\ client[c].finish = 0 /\ client[c].over = 0 /\ Len(client[c].sent) < MaxPieces
      /\ client[c].sent \in Seq(1..MaxPieces) /\ client[c].got \in Seq(Pieces)
  BY <1>1 DEF Piece, Has, CompatRequest, RequestWhole
<1>4. piece \in 1..MaxPieces
  <2>1. Len(client[c].sent) \in Nat
    BY <1>3
  <2> QED
    BY <1>3, <2>1, PieceTypes
<1> HIDE DEF piece
<1>5. piece \in Pieces
  BY <1>4, PieceTypes
<1>6. /\ Append(client[c].sent, piece) \in Seq(1..MaxPieces)
      /\ Append(client[c].got, piece) \in Seq(Pieces)
  BY <1>3, <1>4, <1>5, AppendProperties
<1>7. /\ next \in CompatRequest /\ next.at = "streaming"
      /\ next.failed = client[c].failed /\ next.got = Append(client[c].got, piece)
      /\ next.sent = Append(client[c].sent, piece) /\ next.finish = 0 /\ next.over = 0
  BY <1>1, <1>3, <1>6 DEF CompatRequest
<1> HIDE DEF next
<1>8. ~next.failed /\ next.got = next.sent
  BY <1>3, <1>7
<1>9. RequestWhole(next)
  BY <1>7, <1>8 DEF RequestWhole
<1> QED
  BY <1>2, <1>7, <1>9, OneClientMoves

LEMMA FinishStep ==
    ASSUME CompatIInv, NEW c \in Clients, Finish(c)
    PROVE  CompatIInv'
<1> DEFINE one == 1
           next == [client[c] EXCEPT !.at = "finished", !.finish = one, !.reason = "stop"]
<1>1. client[c] \in CompatRequest /\ RequestWhole(client[c]) /\ client \in [Clients -> CompatRequest]
  BY DEF CompatIInv
<1>2. client[c].at = "finishing" /\ UNCHANGED registry
  BY DEF Finish, Has
<1>3. client[c].finish = 0 /\ 0 + 1 = 1 /\ one \in 0..1
  BY <1>1, <1>2 DEF RequestWhole
<1>4. client' = [client EXCEPT ![c] = next]
  BY <1>1, <1>3 DEF Finish
<1> HIDE DEF one
<1>5. /\ next \in CompatRequest /\ next.at = "finished"
      /\ next.failed = client[c].failed /\ next.got = client[c].got
      /\ next.sent = client[c].sent /\ next.over = client[c].over
  <2>1. client[c] \in CompatRequest /\ one \in 0..1
    BY <1>1, <1>3
  <2>2. next \in CompatRequest
    BY <2>1 DEF CompatRequest
  <2>3. next.at = "finished" /\ next.failed = client[c].failed
    BY <2>1 DEF CompatRequest
  <2>4. next.got = client[c].got /\ next.sent = client[c].sent /\ next.over = client[c].over
    BY <2>1 DEF CompatRequest
  <2> QED
    BY <2>2, <2>3, <2>4
<1> HIDE DEF next
<1>6. RequestWhole(next)
  BY <1>1, <1>2, <1>5 DEF RequestWhole
<1> QED
  BY <1>2, <1>4, <1>5, <1>6, OneClientMoves

LEMMA DoneStep ==
    ASSUME CompatIInv, NEW c \in Clients, Done(c)
    PROVE  CompatIInv'
<1> DEFINE one == 1
           next == [client[c] EXCEPT !.at = "answered", !.over = one]
<1>1. client[c] \in CompatRequest /\ RequestWhole(client[c]) /\ client \in [Clients -> CompatRequest]
  BY DEF CompatIInv
<1>2. client[c].at = "finished" /\ UNCHANGED registry
  BY DEF Done, Has
<1>3. client[c].over = 0 /\ 0 + 1 = 1 /\ one \in 0..1
  BY <1>1, <1>2 DEF RequestWhole
<1>4. client' = [client EXCEPT ![c] = next]
  BY <1>1, <1>3 DEF Done
<1> HIDE DEF one
<1>5. /\ next \in CompatRequest /\ next.at = "answered"
      /\ next.failed = client[c].failed /\ next.got = client[c].got
      /\ next.sent = client[c].sent
  BY <1>1, <1>3 DEF CompatRequest
<1> HIDE DEF next
<1>6. RequestWhole(next)
  BY <1>1, <1>5 DEF RequestWhole
<1> QED
  BY <1>2, <1>4, <1>5, <1>6, OneClientMoves

\* The answer that does not stream leaves the stream's fields empty.
LEMMA ResultTypes ==
    ASSUME NEW n, NEW result \in Results(n)
    PROVE  /\ ToolCalls(result) \in 0..1
           /\ result.reason \in {"stop", "STOP", "end_turn", "tool_calls", "tool_use"}
<1>1. result \in OpenAIResults \union AnthropicResults \union GeminiResults
  <2>1. CASE n \in OpenAICompat
    BY <2>1 DEF Results
  <2>2. CASE n \notin OpenAICompat /\ n = "gemini"
    BY <2>2 DEF Results
  <2>3. CASE n \notin OpenAICompat /\ n # "gemini"
    BY <2>3 DEF Results
  <2> QED
    BY <2>1, <2>2, <2>3
<1>2. CASE result \in OpenAIResults
  BY <1>2 DEF OpenAIResults, Result, ToolCalls
<1>3. CASE result \in AnthropicResults
  BY <1>3 DEF AnthropicResults, Result, ToolCalls
<1>4. CASE result \in GeminiResults
  BY <1>4 DEF GeminiResults, Result, ToolCalls
<1> QED
  BY <1>1, <1>2, <1>3, <1>4

LEMMA CompleteStep ==
    ASSUME CompatIInv, NEW c \in Clients, NEW f \in Families, Complete(c, f)
    PROVE  CompatIInv'
<1>1. CASE client' = [client EXCEPT ![c] = [NoRequest EXCEPT !.at = "refused", !.family = f]]
  <2> DEFINE next == [NoRequest EXCEPT !.at = "refused", !.family = f]
  <2>1. /\ next \in CompatRequest /\ next.failed = NoRequest.failed /\ next.got = NoRequest.got
        /\ next.sent = NoRequest.sent /\ next.at = "refused"
    BY NoRequestWhole DEF CompatRequest
  <2>2. client' = [client EXCEPT ![c] = next] /\ UNCHANGED registry
    BY <1>1 DEF Complete
  <2> HIDE DEF next
  <2>3. RequestWhole(next)
    BY <2>1, NoRequestWhole DEF RequestWhole
  <2> QED
    BY <2>1, <2>2, <2>3, OneClientMoves
<1>2. ASSUME NEW result \in Results(ResolveProvider(f)),
             client' = [client EXCEPT ![c] =
                      [NoRequest EXCEPT !.at = "answered", !.family = f,
                            !.calls = ToolCalls(result), !.reason = result.reason]]
      PROVE  CompatIInv'
  <2> DEFINE calls == ToolCalls(result)
             reason == result.reason
             next == [NoRequest EXCEPT !.at = "answered", !.family = f,
                                       !.calls = calls, !.reason = reason]
  <2>1. calls \in 0..1 /\ reason \in {"stop", "STOP", "end_turn", "tool_calls", "tool_use"}
    BY ResultTypes
  <2>2. client' = [client EXCEPT ![c] = next] /\ UNCHANGED registry
    BY <1>2 DEF Complete
  <2> HIDE DEF calls, reason
  <2>3. next \in CompatRequest /\ RequestWhole(next)
    BY <2>1, RequestEnds
  <2> QED
    BY <2>2, <2>3, OneClientMoves
<1> QED
  BY <1>1, <1>2 DEF Complete

LEMMA CompatStep == CompatIInv /\ [CompatNext]_compatVars => CompatIInv'
<1> SUFFICES ASSUME CompatIInv, [CompatNext]_compatVars PROVE CompatIInv'
  OBVIOUS
<1>1. CASE UNCHANGED compatVars
  BY <1>1 DEF compatVars, CompatIInv
<1>2. ASSUME NEW c \in Clients, NEW f \in Families, OpenStream(c, f)
      PROVE  CompatIInv'
  BY <1>2, RequestStarts, OneClientMoves DEF OpenStream
<1>3. ASSUME NEW c \in Clients, NEW f \in Families, Complete(c, f)
      PROVE  CompatIInv'
  BY <1>3, CompleteStep
<1>4. ASSUME NEW c \in Clients, CallProvider(c)
      PROVE  CompatIInv'
  BY <1>4, ErrorChunkStep, RequestGoesOn DEF CallProvider, Has
<1>5. ASSUME NEW c \in Clients, ProviderDone(c)
      PROVE  CompatIInv'
  BY <1>5, RequestGoesOn DEF ProviderDone, Has
<1>6. ASSUME NEW c \in Clients, StreamFails(c)
      PROVE  CompatIInv'
  BY <1>6, ErrorChunkStep DEF StreamFails, AfterError, Has
<1>7. ASSUME NEW c \in Clients, BreakOff(c)
      PROVE  CompatIInv'
  BY <1>7, RequestGoesOn DEF BreakOff
<1>8. ASSUME NEW c \in Clients, NextRequest(c)
      PROVE  CompatIInv'
  BY <1>8, NoRequestWhole, OneClientMoves DEF NextRequest
<1>9. ASSUME NEW c \in Clients, Piece(c) \/ Finish(c) \/ Done(c)
      PROVE  CompatIInv'
  BY <1>9, PieceStep, FinishStep, DoneStep
<1> QED
  BY <1>1, <1>2, <1>3, <1>4, <1>5, <1>6, <1>7, <1>8, <1>9, Zenon DEF CompatNext

LEMMA CompatHolds == CompatSpec => []CompatIInv
<1> QED
  BY CompatInitially, CompatStep, PTL DEF CompatSpec

\* A finished stream is the provider's, whole and in order, with the error at
\* its end if there was one.
THEOREM FinishedStreamsAreWhole == CompatSpec => []FinishedMeansWhole
<1>1. CompatIInv => FinishedMeansWhole
  <2> SUFFICES ASSUME CompatIInv, NEW c \in Clients
               PROVE  client[c].got = IF client[c].failed THEN Append(client[c].sent, ErrorPiece)
                                                          ELSE client[c].sent
    BY DEF FinishedMeansWhole
  <2>1. RequestWhole(client[c])
    BY DEF CompatIInv
  <2>2. CASE client[c].failed
    BY <2>1, <2>2, Zenon DEF RequestWhole
  <2>3. CASE ~client[c].failed
    BY <2>1, <2>3, Zenon DEF RequestWhole
  <2> QED
    BY <2>2, <2>3
<1> QED
  BY <1>1, CompatHolds, PTL

\* The state of the endpoint keeps its type.
THEOREM CompatWellTyped == CompatSpec => []CompatTypeOK
<1>1. CompatIInv => CompatTypeOK
  BY CompatTypes DEF CompatIInv
<1> QED
  BY <1>1, CompatHolds, PTL

===============================================================================
