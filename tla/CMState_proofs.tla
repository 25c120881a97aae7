--------------------------- MODULE CMState_proofs ---------------------------
(***************************************************************************)
(* Lemmas on the history of CMState: what each operation on it does to the *)
(* walk of validCall for a call, which is all the manager ever reads of it. *)
(***************************************************************************)
EXTENDS CMState, SequenceTheorems, TLAPS

\* Where the walk for ca stops, and what it collects on its way.
LEMMA WalkFacts ==
    ASSUME NEW h \in Seq(HistoryItem), NEW ca
    PROVE  /\ StartsOf(h, ca) \subseteq 1..Len(h)
           /\ Walked(h, ca) \subseteq 1..Len(h)
           /\ Len(h) \in Nat
           /\ \A i \in 1..Len(h) : h[i] \in HistoryItem
  BY DEF StartsOf, Walked

LEMMA ItemFacts ==
    ASSUME NEW item \in HistoryItem
    PROVE  /\ IsCallArgSet(item) => item.names \subseteq Served
           /\ ~IsCallArgSet(item) => item.names \subseteq Dep
           /\ item = [kind |-> item.kind, names |-> item.names]
  BY DEF HistoryItem, IsCallArgSet

\* What was invalidated since a start is made of dependencies.
LEMMA InvalidatedSinceType ==
    ASSUME NEW h \in Seq(HistoryItem), NEW ca
    PROVE  InvalidatedSince(h, ca) \subseteq Dep
  BY WalkFacts, ItemFacts DEF InvalidatedSince

\* Two histories of the same length whose items differ only in the call sets
\* give the same walk to a call whose starts are the same.
LEMMA SameWalk ==
    ASSUME NEW h \in Seq(HistoryItem), NEW g \in Seq(HistoryItem), NEW ca,
           Len(g) = Len(h),
           StartsOf(g, ca) = StartsOf(h, ca),
           \A i \in 1..Len(h) : /\ IsCallArgSet(g[i]) <=> IsCallArgSet(h[i])
                                /\ ~IsCallArgSet(h[i]) => g[i] = h[i]
    PROVE  InvalidatedSince(g, ca) = InvalidatedSince(h, ca)
  <1>1. Walked(g, ca) = Walked(h, ca)
    BY DEF Walked
  <1>2. Walked(h, ca) \subseteq 1..Len(h)
    BY DEF Walked
  <1>. QED
    BY <1>1, <1>2 DEF InvalidatedSince

\* An invalidation appended to the history is seen by every walk.
LEMMA AppendInvalidation ==
    ASSUME NEW h \in Seq(HistoryItem), NEW item \in HistoryItem, ~IsCallArgSet(item), NEW ca
    PROVE  /\ Append(h, item) \in Seq(HistoryItem)
           /\ StartsOf(Append(h, item), ca) = StartsOf(h, ca)
           /\ InvalidatedSince(Append(h, item), ca) = InvalidatedSince(h, ca) \cup item.names
  <1>. DEFINE g == Append(h, item)
              last == Len(h) + 1
  <1>1. /\ g \in Seq(HistoryItem)
        /\ Len(g) = last
        /\ \A i \in 1..Len(h) : g[i] = h[i]
        /\ g[last] = item
    OBVIOUS
  <1>2. 1..Len(g) = 1..Len(h) \cup {last}
    BY <1>1
  <1>3. StartsOf(g, ca) = StartsOf(h, ca)
    BY <1>1, <1>2 DEF StartsOf
  <1>4. \A s \in StartsOf(h, ca) : s <= last
    BY DEF StartsOf
  <1>5. Walked(g, ca) = Walked(h, ca) \cup {last}
    BY <1>2, <1>3, <1>4 DEF Walked
  <1>6. Walked(h, ca) \subseteq 1..Len(h)
    BY DEF Walked
  <1>7. {i \in Walked(g, ca) : ~IsCallArgSet(g[i])}
            = {i \in Walked(h, ca) : ~IsCallArgSet(h[i])} \cup {last}
    BY <1>1, <1>5, <1>6
  <1>8. InvalidatedSince(g, ca) = InvalidatedSince(h, ca) \cup item.names
    <2>. DEFINE seen == {i \in Walked(h, ca) : ~IsCallArgSet(h[i])}
    <2>1. /\ InvalidatedSince(g, ca) = UNION {g[i].names : i \in seen \cup {last}}
          /\ InvalidatedSince(h, ca) = UNION {h[i].names : i \in seen}
      BY <1>7 DEF InvalidatedSince
    <2>2. \A i \in seen : g[i] = h[i]
      BY <1>1, <1>6
    <2>3. UNION {g[i].names : i \in seen \cup {last}}
              = (UNION {h[i].names : i \in seen}) \cup item.names
      <3>. HIDE DEF seen, g
      <3>. QED  BY <1>1, <2>2
    <2>. QED
      BY <2>1, <2>3
  <1>. QED
    BY <1>1, <1>3, <1>8

\* The three cases of appendCall in one: the start is in the last item.
LEMMA AppendCallFacts ==
    ASSUME NEW h \in Seq(HistoryItem), NEW ca \in Served
    PROVE  LET g == AppendCall(h, ca)
           IN  /\ g \in Seq(HistoryItem)
               /\ Len(g) > 0
               /\ Len(g) \in {Len(h), Len(h) + 1}
               /\ IsCallArgSet(g[Len(g)])
               /\ ca \in g[Len(g)].names
               /\ \A i \in 1..Len(h) :
                     /\ IsCallArgSet(g[i]) <=> IsCallArgSet(h[i])
                     /\ ~IsCallArgSet(h[i]) => g[i] = h[i]
                     /\ \A cb : cb # ca => (cb \in g[i].names <=> cb \in h[i].names)
               /\ Len(g) = Len(h) + 1 => g[Len(g)].names = {ca}
  <1>. DEFINE g == AppendCall(h, ca)
              new == [kind |-> "calls", names |-> {ca}]
  <1>1. CASE Len(h) > 0 /\ IsCallArgSet(h[Len(h)])
    <2>. DEFINE top == [h[Len(h)] EXCEPT !.names = @ \cup {ca}]
    <2>1. g = [h EXCEPT ![Len(h)] = top]
      BY <1>1 DEF AppendCall
    <2>2. h[Len(h)] \in HistoryItem
      BY <1>1
    <2>3. /\ top \in HistoryItem
          /\ IsCallArgSet(top)
          /\ top.names = h[Len(h)].names \cup {ca}
      BY <1>1, <2>2 DEF HistoryItem, IsCallArgSet
    <2>4. /\ g \in Seq(HistoryItem)
          /\ Len(g) = Len(h)
          /\ g[Len(h)] = top
          /\ \A i \in 1..Len(h) : i # Len(h) => g[i] = h[i]
      <3>. HIDE DEF top
      <3>. QED  BY <2>1, <2>3, <1>1, ExceptSeq
    <2>5. ca \in g[Len(g)].names /\ IsCallArgSet(g[Len(g)]) /\ Len(g) > 0
      BY <1>1, <2>3, <2>4
    <2>6. \A i \in 1..Len(h) :
             /\ IsCallArgSet(g[i]) <=> IsCallArgSet(h[i])
             /\ ~IsCallArgSet(h[i]) => g[i] = h[i]
             /\ \A cb : cb # ca => (cb \in g[i].names <=> cb \in h[i].names)
      <3>. TAKE i \in 1..Len(h)
      <3>1. CASE i = Len(h)
        BY <1>1, <2>3, <2>4, <3>1
      <3>2. CASE i # Len(h)
        BY <2>4, <3>2
      <3>. QED
        BY <3>1, <3>2
    <2>. QED
      BY <1>1, <2>4, <2>5, <2>6
  <1>2. CASE ~(Len(h) > 0 /\ IsCallArgSet(h[Len(h)]))
    <2>1. g = Append(h, new)
      BY <1>2 DEF AppendCall
    <2>2. new \in HistoryItem /\ IsCallArgSet(new) /\ new.names = {ca}
      BY DEF HistoryItem, IsCallArgSet
    <2>3. /\ g \in Seq(HistoryItem)
          /\ Len(g) = Len(h) + 1
          /\ g[Len(g)] = new
          /\ \A i \in 1..Len(h) : g[i] = h[i]
      BY <2>1, <2>2
    <2>. QED
      BY <2>2, <2>3
  <1>. QED
    BY <1>1, <1>2

\* A new start has seen no invalidation yet.
LEMMA AppendCallOwn ==
    ASSUME NEW h \in Seq(HistoryItem), NEW ca \in Served
    PROVE  /\ AppendCall(h, ca) \in Seq(HistoryItem)
           /\ StartsOf(AppendCall(h, ca), ca) # {}
           /\ InvalidatedSince(AppendCall(h, ca), ca) = {}
  <1>. DEFINE g == AppendCall(h, ca)
  <1>1. /\ g \in Seq(HistoryItem)
        /\ Len(g) > 0
        /\ IsCallArgSet(g[Len(g)])
        /\ ca \in g[Len(g)].names
    BY AppendCallFacts
  <1>. HIDE DEF g
  <1>2. Len(g) \in StartsOf(g, ca)
    BY <1>1 DEF StartsOf
  <1>3. Walked(g, ca) \subseteq {Len(g)}
    BY <1>1, <1>2 DEF Walked
  <1>4. InvalidatedSince(g, ca) = {}
    BY <1>1, <1>3 DEF InvalidatedSince
  <1>. QED
    BY <1>1, <1>2, <1>4 DEF g

\* A start changes nothing in what the walk for another call finds.
LEMMA AppendCallOther ==
    ASSUME NEW h \in Seq(HistoryItem), NEW ca \in Served, NEW cb, cb # ca
    PROVE  /\ StartsOf(AppendCall(h, ca), cb) = StartsOf(h, cb)
           /\ InvalidatedSince(AppendCall(h, ca), cb) = InvalidatedSince(h, cb)
  <1>. DEFINE g == AppendCall(h, ca)
  <1>1. /\ g \in Seq(HistoryItem)
        /\ Len(g) \in {Len(h), Len(h) + 1}
        /\ IsCallArgSet(g[Len(g)])
        /\ \A i \in 1..Len(h) :
              /\ IsCallArgSet(g[i]) <=> IsCallArgSet(h[i])
              /\ ~IsCallArgSet(h[i]) => g[i] = h[i]
              /\ cb \in g[i].names <=> cb \in h[i].names
        /\ Len(g) = Len(h) + 1 => g[Len(g)].names = {ca}
    BY AppendCallFacts
  <1>. HIDE DEF g
  <1>2. StartsOf(g, cb) = StartsOf(h, cb)
    BY <1>1 DEF StartsOf
  <1>3. \A i \in Walked(g, cb) : ~IsCallArgSet(g[i]) => i \in Walked(h, cb) /\ g[i] = h[i]
    BY <1>1, <1>2 DEF Walked
  <1>4. \A i \in Walked(h, cb) : ~IsCallArgSet(h[i]) => i \in Walked(g, cb) /\ g[i] = h[i]
    BY <1>1, <1>2 DEF Walked
  <1>5. {i \in Walked(g, cb) : ~IsCallArgSet(g[i])} = {i \in Walked(h, cb) : ~IsCallArgSet(h[i])}
    BY <1>1, <1>3, <1>4 DEF Walked
  <1>6. InvalidatedSince(g, cb) = InvalidatedSince(h, cb)
    BY <1>4, <1>5 DEF InvalidatedSince
  <1>. QED
    BY <1>2, <1>6 DEF g

\* Of a list of one call, the item appended names that call.
LEMMA AppendOneInvCall ==
    ASSUME NEW h \in Seq(HistoryItem), NEW calls \in [1..1 -> Called]
    PROVE  AppendInvCalls(h, calls) = Append(h, [kind |-> "invcall", names |-> {calls[1]}])
  <1>. DEFINE item == [kind |-> "invcall", names |-> {calls[1]}]
              tail == [i \in 1..1 |-> item]
  <1>1. item \in HistoryItem
    BY DEF HistoryItem, Dep
  <1>2. Len(calls) = 1
    OBVIOUS
  <1>3. AppendInvCalls(h, calls) = h \o tail
    BY <1>2 DEF AppendInvCalls
  <1>. HIDE DEF item
  <1>4. tail \in Seq(HistoryItem) /\ Len(tail) = 1 /\ tail[1] = item
    BY <1>1
  <1>. HIDE DEF tail
  <1>5. /\ h \o tail \in Seq(HistoryItem)
        /\ Len(h \o tail) = Len(h) + 1
        /\ \A i \in 1..(Len(h) + 1) :
              (h \o tail)[i] = IF i <= Len(h) THEN h[i] ELSE item
    <2>1. /\ h \o tail \in Seq(HistoryItem)
          /\ Len(h \o tail) = Len(h) + 1
          /\ \A i \in 1..(Len(h) + 1) :
                (h \o tail)[i] = IF i <= Len(h) THEN h[i] ELSE tail[i - Len(h)]
      <3>1. /\ h \o tail \in Seq(HistoryItem)
            /\ Len(h \o tail) = Len(h) + Len(tail)
            /\ \A i \in 1..(Len(h) + Len(tail)) :
                  (h \o tail)[i] = IF i <= Len(h) THEN h[i] ELSE tail[i - Len(h)]
        BY <1>4, ConcatProperties, Zenon
      <3>. QED
        BY <1>4, <3>1
    <2>2. \A i \in 1..(Len(h) + 1) : ~(i <= Len(h)) => i - Len(h) = 1
      OBVIOUS
    <2>. QED
      BY <1>4, <2>1, <2>2
  <1>6. /\ Append(h, item) \in Seq(HistoryItem)
        /\ Len(Append(h, item)) = Len(h) + 1
        /\ \A i \in 1..(Len(h) + 1) :
              Append(h, item)[i] = IF i <= Len(h) THEN h[i] ELSE item
    BY <1>1, AppendProperties
  <1>7. h \o tail = Append(h, item)
    BY <1>5, <1>6, SeqEqual
  <1>. QED
    BY <1>3, <1>7 DEF item

\* Whatever the length of the list, its items are invalidations, and take no
\* start or invalidation from any walk.
LEMMA AppendInvCallsFacts ==
    ASSUME NEW h \in Seq(HistoryItem), NEW n \in Nat \ {0}, NEW calls \in [1..n -> Called]
    PROVE  /\ AppendInvCalls(h, calls) \in Seq(HistoryItem)
           /\ \A ca : /\ StartsOf(AppendInvCalls(h, calls), ca) = StartsOf(h, ca)
                     /\ InvalidatedSince(h, ca)
                           \subseteq InvalidatedSince(AppendInvCalls(h, calls), ca)
  <1>. DEFINE item == [kind |-> "invcall", names |-> {calls[n]}]
              tail == [i \in 1..n |-> item]
              g == AppendInvCalls(h, calls)
  <1>1. Len(calls) = n /\ calls[n] \in Called
    OBVIOUS
  <1>2. item \in HistoryItem /\ ~IsCallArgSet(item)
    BY <1>1 DEF HistoryItem, Dep, IsCallArgSet
  <1>3. g = h \o tail
    BY <1>1 DEF AppendInvCalls
  <1>. HIDE DEF item
  <1>4. tail \in Seq(HistoryItem) /\ Len(tail) = n /\ \A i \in 1..n : tail[i] = item
    BY <1>2
  <1>. HIDE DEF tail, g
  <1>5. /\ g \in Seq(HistoryItem) /\ Len(g) = Len(h) + n /\ Len(h) \in Nat
        /\ \A i \in 1..Len(h) : g[i] = h[i]
        /\ \A i \in 1..Len(g) : ~(i \in 1..Len(h)) => g[i] = item
    <2>1. /\ g \in Seq(HistoryItem) /\ Len(g) = Len(h) + n /\ Len(h) \in Nat
          /\ \A i \in 1..Len(g) : g[i] = IF i <= Len(h) THEN h[i] ELSE tail[i - Len(h)]
      <3>1. PICK f \in Seq(HistoryItem) : f = tail /\ Len(f) = n
        BY <1>4
      <3>2. /\ h \o f \in Seq(HistoryItem) /\ Len(h \o f) = Len(h) + Len(f) /\ Len(h) \in Nat
            /\ \A i \in 1..Len(h) + Len(f) :
                  (h \o f)[i] = IF i <= Len(h) THEN h[i] ELSE f[i - Len(h)]
        BY ConcatProperties
      <3>. QED
        BY <1>3, <3>1, <3>2
    <2>2. \A i \in 1..Len(g) : ~(i \in 1..Len(h)) => i - Len(h) \in 1..n
      BY <2>1
    <2>3. \A i \in 1..Len(h) : i \in 1..Len(g) /\ i <= Len(h)
      BY <2>1
    <2>. QED
      BY <1>4, <2>1, <2>2, <2>3
  <1>6. ASSUME NEW ca
        PROVE  /\ StartsOf(g, ca) = StartsOf(h, ca)
               /\ InvalidatedSince(h, ca) \subseteq InvalidatedSince(g, ca)
    <2>1. StartsOf(g, ca) = StartsOf(h, ca)
      <3>1. \A i \in 1..Len(h) : i \in 1..Len(g)
        BY <1>5
      <3>. QED
        BY <1>2, <1>5, <3>1 DEF StartsOf
    <2>2. \A i \in Walked(h, ca) : i \in Walked(g, ca) /\ g[i] = h[i]
      BY <1>5, <2>1 DEF Walked
    <2>3. ASSUME NEW i \in Walked(h, ca), ~IsCallArgSet(h[i])
          PROVE  h[i].names \subseteq InvalidatedSince(g, ca)
      BY <2>2, <2>3 DEF InvalidatedSince
    <2>4. InvalidatedSince(h, ca) \subseteq InvalidatedSince(g, ca)
      BY <2>3 DEF InvalidatedSince
    <2>. QED
      BY <2>1, <2>4
  <1>. QED
    BY <1>5, <1>6 DEF g

\* Deleting a start keeps every walk for another call as it was.
LEMMA RemoveStartFacts ==
    ASSUME NEW h \in Seq(HistoryItem), NEW ca
    PROVE  LET g == RemoveStart(h, ca)
           IN  /\ g \in Seq(HistoryItem)
               /\ Len(g) = Len(h)
               /\ \A cb : cb # ca =>
                     /\ StartsOf(g, cb) = StartsOf(h, cb)
                     /\ InvalidatedSince(g, cb) = InvalidatedSince(h, cb)
  <1>. DEFINE cut(i) == [h[i] EXCEPT !.names = @ \ {ca}]
              g == RemoveStart(h, ca)
  <1>1. \A i \in 1..Len(h) : h[i] \in HistoryItem
    OBVIOUS
  <1>2. \A i \in 1..Len(h) :
           /\ cut(i) \in HistoryItem
           /\ IsCallArgSet(cut(i)) <=> IsCallArgSet(h[i])
           /\ cut(i).names = h[i].names \ {ca}
    BY <1>1 DEF HistoryItem, IsCallArgSet
  <1>3. \A i \in 1..Len(h) :
           RemoveStart(h, ca)[i] = IF i \in Walked(h, ca) /\ IsCallArgSet(h[i]) THEN cut(i) ELSE h[i]
    BY DEF RemoveStart
  <1>. HIDE DEF cut
  <1>4. /\ g \in Seq(HistoryItem)
        /\ Len(g) = Len(h)
        /\ \A i \in 1..Len(h) :
              /\ IsCallArgSet(g[i]) <=> IsCallArgSet(h[i])
              /\ ~IsCallArgSet(h[i]) => g[i] = h[i]
              /\ \A cb : cb # ca => (cb \in g[i].names <=> cb \in h[i].names)
    <2>1. g \in [1..Len(h) -> HistoryItem]
      BY <1>1, <1>2, <1>3 DEF RemoveStart, cut
    <2>2. g \in Seq(HistoryItem) /\ Len(g) = Len(h)
      BY <2>1
    <2>3. \A i \in 1..Len(h) :
              /\ IsCallArgSet(g[i]) <=> IsCallArgSet(h[i])
              /\ ~IsCallArgSet(h[i]) => g[i] = h[i]
              /\ \A cb : cb # ca => (cb \in g[i].names <=> cb \in h[i].names)
      BY <1>2, <1>3
    <2>. QED
      BY <2>2, <2>3
  <1>. HIDE DEF g
  <1>5. ASSUME NEW cb, cb # ca
        PROVE  /\ StartsOf(g, cb) = StartsOf(h, cb)
               /\ InvalidatedSince(g, cb) = InvalidatedSince(h, cb)
    <2>1. StartsOf(g, cb) = StartsOf(h, cb)
      BY <1>4, <1>5 DEF StartsOf
    <2>. QED
      BY <1>4, <2>1, SameWalk
  <1>. QED
    BY <1>4, <1>5 DEF g

\* Collecting the garbage keeps every walk that finds its start as it was.
LEMMA CollectFacts ==
    ASSUME NEW h \in Seq(HistoryItem), NEW j, CollectsFrom(h, j)
    PROVE  LET g == SubSeq(h, j, Len(h))
           IN  /\ g \in Seq(HistoryItem)
               /\ \A ca : StartsOf(h, ca) # {} =>
                     /\ StartsOf(g, ca) # {}
                     /\ InvalidatedSince(g, ca) = InvalidatedSince(h, ca)
  <1>. DEFINE g == SubSeq(h, j, Len(h))
  <1>1. /\ j \in 1..(Len(h) + 1)
        /\ Len(h) \in Nat
    BY DEF CollectsFrom
  <1>2. /\ g \in Seq(HistoryItem)
        /\ Len(g) = Len(h) - j + 1
        /\ \A i \in 1..Len(g) : g[i] = h[j + i - 1]
    BY <1>1, SubSeqProperties
  <1>. HIDE DEF g
  <1>3. ASSUME NEW ca, StartsOf(h, ca) # {}
        PROVE  /\ StartsOf(g, ca) # {}
               /\ InvalidatedSince(g, ca) = InvalidatedSince(h, ca)
    <2>0. /\ \A i \in 1..Len(h) : j <= i => i - j + 1 \in 1..Len(g) /\ g[i - j + 1] = h[i]
          /\ \A i \in 1..Len(g) : j + i - 1 \in 1..Len(h) /\ g[i] = h[j + i - 1]
      <3>1. ASSUME NEW i \in 1..Len(h), j <= i
            PROVE  i - j + 1 \in 1..Len(g) /\ g[i - j + 1] = h[i]
        <4>1. i - j + 1 \in 1..Len(g) /\ j + (i - j + 1) - 1 = i
          BY <1>1, <1>2, <3>1
        <4>. QED
          BY <1>2, <4>1
      <3>2. \A i \in 1..Len(g) : j + i - 1 \in 1..Len(h)
        BY <1>1, <1>2
      <3>. QED
        BY <1>2, <3>1, <3>2
    <2>1. \A s \in StartsOf(h, ca) : j <= s
      BY <1>1 DEF StartsOf, CollectsFrom, HasCalls
    <2>2. \A s \in StartsOf(h, ca) : s - j + 1 \in StartsOf(g, ca)
      BY <2>0, <2>1 DEF StartsOf
    <2>3. \A s \in StartsOf(g, ca) : j + s - 1 \in StartsOf(h, ca)
      BY <2>0 DEF StartsOf
    <2>4. \A i \in Walked(h, ca) : j <= i
      BY <1>1, <1>3, <2>1 DEF Walked, StartsOf
    <2>5. \A i \in Walked(h, ca) :
             i - j + 1 \in Walked(g, ca) /\ g[i - j + 1] = h[i]
      <3>. TAKE i \in Walked(h, ca)
      <3>1. i - j + 1 \in 1..Len(g) /\ g[i - j + 1] = h[i]
        BY <2>0, <2>4 DEF Walked
      <3>2. \A s \in StartsOf(g, ca) : j + s - 1 <= i /\ s \in Nat
        BY <2>3, <1>2 DEF Walked, StartsOf
      <3>3. i \in Nat
        BY DEF Walked
      <3>4. \A s \in StartsOf(g, ca) : s <= i - j + 1
        BY <1>1, <3>2, <3>3
      <3>. QED
        BY <3>1, <3>4 DEF Walked
    <2>6. \A i \in Walked(g, ca) :
             j + i - 1 \in Walked(h, ca) /\ g[i] = h[j + i - 1]
      <3>. TAKE i \in Walked(g, ca)
      <3>1. j + i - 1 \in 1..Len(h) /\ g[i] = h[j + i - 1] /\ i \in Nat
        BY <2>0 DEF Walked
      <3>2. \A s \in StartsOf(h, ca) : s - j + 1 <= i /\ s \in Nat
        BY <2>2 DEF Walked, StartsOf
      <3>3. \A s \in StartsOf(h, ca) : s <= j + i - 1
        BY <1>1, <3>1, <3>2
      <3>. QED
        BY <3>1, <3>3 DEF Walked
    <2>7. InvalidatedSince(g, ca) \subseteq InvalidatedSince(h, ca)
      BY <2>6 DEF InvalidatedSince
    <2>8. InvalidatedSince(h, ca) \subseteq InvalidatedSince(g, ca)
      BY <2>5 DEF InvalidatedSince
    <2>. QED
      BY <1>3, <2>2, <2>7, <2>8
  <1>. QED
    BY <1>2, <1>3 DEF g

\* What validCall leaves behind still serves the walks of the other calls.
LEMMA ForgottenFacts ==
    ASSUME NEW h \in Seq(HistoryItem), NEW ca, NEW g \in Forgotten(h, ca)
    PROVE  /\ g \in Seq(HistoryItem)
           /\ \A cb : cb # ca /\ StartsOf(h, cb) # {} =>
                 /\ StartsOf(g, cb) # {}
                 /\ InvalidatedSince(g, cb) = InvalidatedSince(h, cb)
  <1>. DEFINE rest == RemoveStart(h, ca)
  <1>1. /\ rest \in Seq(HistoryItem)
        /\ \A cb : cb # ca =>
              /\ StartsOf(rest, cb) = StartsOf(h, cb)
              /\ InvalidatedSince(rest, cb) = InvalidatedSince(h, cb)
    BY RemoveStartFacts
  <1>2. \/ g = rest
        \/ \E j : CollectsFrom(rest, j) /\ g = SubSeq(rest, j, Len(rest))
    BY DEF Forgotten
  <1>. HIDE DEF rest
  <1>3. CASE g = rest
    BY <1>1, <1>3
  <1>4. CASE \E j : CollectsFrom(rest, j) /\ g = SubSeq(rest, j, Len(rest))
    <2>1. PICK j : CollectsFrom(rest, j) /\ g = SubSeq(rest, j, Len(rest))
      BY <1>4
    <2>. QED
      BY <1>1, <2>1, CollectFacts
  <1>. QED
    BY <1>2, <1>3, <1>4
=============================================================================
