------------------------- MODULE ImageBridgeProofs -------------------------
(***************************************************************************)
(* Proofs about ImageBridge for every set of images, usages and events and *)
(* every length of the stream.  The invariant relates the scanner, which   *)
(* knows the lines of the current block and an accumulator, to all lines   *)
(* read so far: BlockInv says which of them the scanner holds, AccInv that *)
(* the accumulator is what the events before them say, FramesInv that      *)
(* every frame was written at its line.                                    *)
(***************************************************************************)
EXTENDS ImageBridge, NaturalsInduction, WellFoundedInduction, TLAPS

-----------------------------------------------------------------------------
(* Induction                                                               *)

\* A set of numbers that holds 0 and with every number its successor holds all.
LEMMA Induction ==
    ASSUME NEW S, 0 \in S, \A n \in Nat : n \in S => n + 1 \in S
    PROVE  Nat \subseteq S
<1> SUFFICES ASSUME Nat \ S # {} PROVE FALSE
  OBVIOUS
<1>1. Nat \ S \subseteq Nat
  OBVIOUS
<1>2. PICK x \in Nat \ S : \A y \in Nat \ S : ~(<<y, x>> \in OpToRel(<, Nat))
  BY <1>1, NatLessThanWellFounded, WFMin, Zenon
<1>3. x # 0 /\ x - 1 \in Nat /\ x - 1 < x /\ (x - 1) + 1 = x
  OBVIOUS
<1>4. x - 1 \notin S
  BY <1>3
<1>5. PICK y : y = x - 1
  BY Zenon
<1>6. y \in Nat \ S /\ x \in Nat /\ y < x
  BY <1>3, <1>4, <1>5
<1>7. <<y, x>> \in Nat \X Nat /\ <<y, x>>[1] = y /\ <<y, x>>[2] = x
  BY <1>6, Zenon
<1>8. ~(y < x)
  BY <1>2, <1>6, <1>7, Zenon DEF OpToRel
<1> QED
  BY <1>6, <1>8

-----------------------------------------------------------------------------
(* The accumulator's list of images                                        *)

\* The images list what is found at the places P, in the order of first appearance.
Lists(images, P, at) ==
    /\ \A x \in Images : (\E p \in P : at[p] = x) <=> \E k \in DOMAIN images : images[k] = x
    /\ \A k, l \in DOMAIN images : k < l =>
         \E p \in P : at[p] = images[k] /\ \A q \in P : at[q] = images[l] => Before(p, q)

\* appendItem lists one more place, later than all others.
LEMMA AppendItemLists ==
    ASSUME NEW images \in Seq(Images), NEW P, NEW at, NEW p, NEW x \in Images \cup {None},
           at[p] = x, Lists(images, P, at), \A q \in P : Before(q, p)
    PROVE  appendItem(images, x) \in Seq(Images) /\ Lists(appendItem(images, x), P \cup {p}, at)
<1>1. CASE x = None
  <2>1. appendItem(images, x) = images
    BY <1>1 DEF appendItem
  <2>2. \A k \in DOMAIN images : images[k] \in Images
    OBVIOUS
  <2> QED
    BY <1>1, <2>1, <2>2, ImagesAssumption DEF Lists
<1>2. CASE x # None /\ \E k \in DOMAIN images : images[k] = x
  <2>1. appendItem(images, x) = images
    BY <1>2 DEF appendItem
  <2>2. \A k \in DOMAIN images : images[k] \in Images
    OBVIOUS
  <2> QED
    BY <1>2, <2>1, <2>2 DEF Lists
<1>3. CASE x # None /\ ~\E k \in DOMAIN images : images[k] = x
  <2>1. appendItem(images, x) = Append(images, x)
    BY <1>3 DEF appendItem
  <2>2. PICK more \in Seq(Images) : more = Append(images, x)
    <3>1. x \in Images
      BY <1>3
    <3>2. Append(images, x) \in Seq(Images)
      BY <3>1
    <3> QED
      BY <3>2, Zenon
  <2>3. /\ DOMAIN more = DOMAIN images \cup {Len(images) + 1}
        /\ DOMAIN images = 1..Len(images) /\ Len(images) \in Nat
        /\ more[Len(images) + 1] = x
        /\ \A k \in DOMAIN images : more[k] = images[k] /\ images[k] \in Images
    BY <1>3, <2>2
  <2>4. \A y \in Images : (\E q \in P \cup {p} : at[q] = y) <=> \E k \in DOMAIN more : more[k] = y
    BY <2>3 DEF Lists
  <2>5. ASSUME NEW k \in DOMAIN more, NEW l \in DOMAIN more, k < l
        PROVE  \E q \in P \cup {p} :
                 at[q] = more[k] /\ \A r \in P \cup {p} : at[r] = more[l] => Before(q, r)
    <3>1. k \in DOMAIN images
      BY <2>3, <2>5
    <3>2. CASE l \in DOMAIN images
      <4>1. PICK q \in P : at[q] = images[k] /\ \A r \in P : at[r] = images[l] => Before(q, r)
        BY <3>1, <3>2, <2>5 DEF Lists
      <4> QED
        BY <4>1, <3>1, <3>2, <2>3, <1>3
    <3>3. CASE l = Len(images) + 1
      <4>1. PICK q \in P : at[q] = images[k]
        BY <3>1, <2>3 DEF Lists
      <4>2. \A r \in P : at[r] # x
        BY <1>3 DEF Lists
      <4> QED
        BY <4>1, <4>2, <3>1, <3>3, <2>3
    <3> QED
      BY <3>2, <3>3, <2>3
  <2> QED
    BY <2>1, <2>2, <2>4, <2>5 DEF Lists
<1> QED
  BY <1>1, <1>2, <1>3

\* The loop of consume has a value at each of its steps.
LEMMA UpToExists ==
    ASSUME NEW base, NEW output \in Seq(Images)
    PROVE  \E f : f = [k \in 0..Len(output) |-> IF k = 0 THEN base ELSE appendItem(f[k - 1], output[k])]
<1> DEFINE S == {n \in Nat : \E f : f = [k \in 0..n |-> IF k = 0 THEN base
                                                      ELSE appendItem(f[k - 1], output[k])]}
<1>1. 0 \in S
  <2>1. PICK f : f = [k \in 0..0 |-> base]
    BY Zenon
  <2>2. f = [k \in 0..0 |-> IF k = 0 THEN base ELSE appendItem(f[k - 1], output[k])]
    BY <2>1
  <2> QED
    BY <2>2
<1>2. ASSUME NEW n \in Nat, n \in S PROVE n + 1 \in S
  <2>1. PICK f : f = [k \in 0..n |-> IF k = 0 THEN base ELSE appendItem(f[k - 1], output[k])]
    BY <1>2
  <2>2. PICK g : g = [k \in 0..(n + 1) |-> IF k = n + 1 THEN appendItem(f[n], output[n + 1]) ELSE f[k]]
    BY Zenon
  <2>3. \A k \in 0..n : g[k] = f[k]
    BY <2>2
  <2>4. g[n + 1] = appendItem(g[(n + 1) - 1], output[n + 1])
    BY <2>2, <2>3
  <2>5. ASSUME NEW k \in 1..n PROVE g[k] = appendItem(g[k - 1], output[k])
    <3>1. k \in 0..n /\ k - 1 \in 0..n /\ k # 0
      OBVIOUS
    <3>2. f[k] = appendItem(f[k - 1], output[k])
      BY <2>1, <3>1
    <3> QED
      BY <2>3, <3>1, <3>2
  <2>6. g[0] = base
    BY <2>1, <2>3
  <2>7. ASSUME NEW k \in 0..(n + 1)
        PROVE  g[k] = IF k = 0 THEN base ELSE appendItem(g[k - 1], output[k])
    <3>1. k = 0 \/ k = n + 1 \/ k \in 1..n
      OBVIOUS
    <3> QED
      BY <3>1, <2>4, <2>5, <2>6
  <2>8. g = [k \in 0..(n + 1) |-> IF k = 0 THEN base ELSE appendItem(g[k - 1], output[k])]
    BY <2>2, <2>7
  <2>9. n + 1 \in Nat
    OBVIOUS
  <2> QED
    BY <2>8, <2>9, Zenon
<1>3. Nat \subseteq S
  <2> HIDE DEF S
  <2> QED
    BY <1>1, <1>2, Induction
<1> QED
  BY <1>3

\* What these values are.
LEMMA AppendItemsSteps ==
    ASSUME NEW base, NEW output \in Seq(Images)
    PROVE  \E f : /\ f[0] = base /\ appendItems(base, output) = f[Len(output)]
                  /\ \A k \in 1..Len(output) : f[k] = appendItem(f[k - 1], output[k])
<1> DEFINE f == CHOOSE f : f = [k \in 0..Len(output) |->
                                  IF k = 0 THEN base ELSE appendItem(f[k - 1], output[k])]
<1>1. appendItems(base, output) = f[Len(output)]
  BY DEF appendItems
<1>2. f = [k \in 0..Len(output) |-> IF k = 0 THEN base ELSE appendItem(f[k - 1], output[k])]
  BY UpToExists
<1> HIDE DEF f
<1>3. f[0] = base /\ \A k \in 1..Len(output) : f[k] = appendItem(f[k - 1], output[k])
  <2>1. Len(output) \in Nat
    OBVIOUS
  <2> QED
    BY <1>2, <2>1
<1> QED
  BY <1>1, <1>3

\* consume appends the images of a response's output one by one.
LEMMA AppendItemsLists ==
    ASSUME NEW images \in Seq(Images), NEW output \in Seq(Images), NEW P, NEW at, NEW t,
           Lists(images, P, at), \A k \in 1..Len(output) : at[<<t, k>>] = output[k],
           \A q \in P : \A k \in 1..Len(output) : Before(q, <<t, k>>),
           NEW Q, Q = {<<t, k>> : k \in 1..Len(output)}
    PROVE  /\ appendItems(images, output) \in Seq(Images)
           /\ Lists(appendItems(images, output), P \cup Q, at)
<1>3. PICK f : /\ f[0] = images /\ appendItems(images, output) = f[Len(output)]
               /\ \A k \in 1..Len(output) : f[k] = appendItem(f[k - 1], output[k])
  BY AppendItemsSteps
<1> DEFINE Up(n) == P \cup {<<t, k>> : k \in 1..n}
           S == {n \in Nat : n <= Len(output) => f[n] \in Seq(Images) /\ Lists(f[n], Up(n), at)}
<1>4. 0 \in S
  <2>1. Up(0) = P
    OBVIOUS
  <2> HIDE DEF Up
  <2> QED
    BY <1>3, <2>1
<1>5. ASSUME NEW n \in Nat, n \in S PROVE n + 1 \in S
  <2> SUFFICES ASSUME n + 1 <= Len(output)
               PROVE  f[n + 1] \in Seq(Images) /\ Lists(f[n + 1], Up(n + 1), at)
    OBVIOUS
  <2>1. f[n] \in Seq(Images) /\ Lists(f[n], Up(n), at)
    BY <1>5
  <2>2. n + 1 \in 1..Len(output) /\ (n + 1) - 1 = n
    OBVIOUS
  <2>3. f[n + 1] = appendItem(f[n], output[n + 1])
    BY <1>3, <2>2
  <2>4. output[n + 1] \in Images /\ at[<<t, n + 1>>] = output[n + 1]
    BY <2>2
  <2>5. \A q \in Up(n) : Before(q, <<t, n + 1>>)
    BY <2>2 DEF Before
  <2>6. Up(n + 1) = Up(n) \cup {<<t, n + 1>>}
    OBVIOUS
  <2> HIDE DEF Up
  <2>7. PICK p : p = <<t, n + 1>>
    BY Zenon
  <2>8. PICK x \in Images : x = output[n + 1]
    BY <2>4
  <2>9. at[p] = x /\ \A q \in Up(n) : Before(q, p)
    BY <2>4, <2>5, <2>7, <2>8, Zenon
  <2>10. appendItem(f[n], x) \in Seq(Images) /\ Lists(appendItem(f[n], x), Up(n) \cup {p}, at)
    BY <2>1, <2>9, AppendItemLists, Zenon
  <2> QED
    BY <2>3, <2>6, <2>7, <2>8, <2>10, Zenon
<1>6. Len(output) \in Nat /\ Nat \subseteq S
  <2> HIDE DEF S
  <2>1. Nat \subseteq S
    BY <1>4, <1>5, Induction, Zenon
  <2> QED
    BY <2>1
<1>7. f[Len(output)] \in Seq(Images) /\ Lists(f[Len(output)], P \cup Q, at)
  <2>1. PICK n \in Nat : n = Len(output) /\ n \in S
    BY <1>6, Zenon
  <2>2. n <= Len(output)
    BY <2>1
  <2>3. f[n] \in Seq(Images) /\ Lists(f[n], Up(n), at)
    BY <2>1, <2>2, Zenon
  <2>4. Up(n) = P \cup Q
    BY <2>1, Zenon
  <2> QED
    BY <2>1, <2>3, <2>4, Zenon
<1> QED
  BY <1>3, <1>7, Zenon

-----------------------------------------------------------------------------
(* The accumulator and the events before a line                            *)

\* The accumulator s says what the events that end by line n say.
Accumulated(ev, s, n) ==
    /\ AreImages(ev, s.results, n)
    /\ IsUsage(ev, s.usage, n)
    /\ s.completed <=> \E t \in 1..n : Completes(ev, t)

Scan == [dataLines : Seq(Lines), results : Seq(Images), usage : Usages \cup {Null},
         completed : BOOLEAN]

\* What a place is.
LEMMA PlaceFacts ==
    ASSUME NEW ev, NEW n, NEW p
    PROVE  p \in Places(ev, n) <=>
             \E t \in 1..n : ev[t] # None /\ \E j \in 0..Len(ev[t].output) : p = <<t, j>>
BY DEF Places

\* A line at which no event ends adds no place ...
LEMMA NoPlaces ==
    ASSUME NEW ev, NEW n \in Nat, ev[n + 1] = None
    PROVE  Places(ev, n + 1) = Places(ev, n)
<1>1. \A t : t \in 1..(n + 1) <=> (t \in 1..n \/ t = n + 1)
  OBVIOUS
<1>2. ASSUME NEW p PROVE p \in Places(ev, n + 1) <=> p \in Places(ev, n)
  BY <1>1, PlaceFacts
<1> QED
  BY <1>2

\* ... and the others the item and the output of their event.
LEMMA MorePlaces ==
    ASSUME NEW ev, NEW n \in Nat, ev[n + 1] # None, ev[n + 1].output \in Seq(Images)
    PROVE  Places(ev, n + 1) =
             (Places(ev, n) \cup {<<n + 1, 0>>})
               \cup {<<n + 1, k>> : k \in 1..Len(ev[n + 1].output)}
<1>1. \A t : t \in 1..(n + 1) <=> (t \in 1..n \/ t = n + 1)
  OBVIOUS
<1>2. PICK len \in Nat : len = Len(ev[n + 1].output)
  OBVIOUS
<1>3. \A j : j \in 0..len <=> (j = 0 \/ j \in 1..len)
  OBVIOUS
<1>4. ASSUME NEW p
      PROVE  p \in Places(ev, n + 1) <=>
               \/ p \in Places(ev, n) \/ p = <<n + 1, 0>>
               \/ \E k \in 1..len : p = <<n + 1, k>>
  BY <1>1, <1>2, <1>3, PlaceFacts
<1> QED
  BY <1>2, <1>4, Zenon

\* Images at places, as a list sees them.
LEMMA ImagesAreListed ==
    ASSUME NEW ev, NEW n, NEW images, NEW at, \A p \in Places(ev, n) : at[p] = ImageAt(ev, p)
    PROVE  AreImages(ev, images, n) <=> Lists(images, Places(ev, n), at)
BY DEF AreImages, Lists

\* Consuming an event extends the list to its line.
LEMMA ConsumedImages ==
    ASSUME NEW ev, NEW n \in Nat, NEW images \in Seq(Images), AreImages(ev, images, n),
           NEW e \in Events, ev[n + 1] = e
    PROVE  LET more == appendItems(appendItem(images, e.item), e.output)
           IN  more \in Seq(Images) /\ AreImages(ev, more, n + 1)
<1>1. e # None /\ e.item \in Images \cup {None} /\ e.output \in Seq(Images)
  BY EventsAssumption DEF Event
<1>2. PICK P : P = Places(ev, n)
  BY Zenon
<1>3. PICK at : at = [p \in Places(ev, n + 1) |-> ImageAt(ev, p)]
  BY Zenon
<1>4. PICK Q : Q = {<<n + 1, k>> : k \in 1..Len(e.output)}
  BY Zenon
<1>5. PICK p : p = <<n + 1, 0>>
  BY Zenon
<1>6. Places(ev, n + 1) = (P \cup {p}) \cup Q
  BY <1>1, <1>2, <1>4, <1>5, MorePlaces
<1>7. \A q \in (P \cup {p}) \cup Q : at[q] = ImageAt(ev, q)
  BY <1>3, <1>6
<1>8. at[p] = e.item
  BY <1>5, <1>7 DEF ImageAt
<1>9. \A k \in 1..Len(e.output) : at[<<n + 1, k>>] = e.output[k]
  <2> TAKE k \in 1..Len(e.output)
  <2>1. <<n + 1, k>> \in Q
    BY <1>4
  <2>2. <<n + 1, k>>[1] = n + 1 /\ <<n + 1, k>>[2] = k /\ k # 0
    BY <1>1
  <2> QED
    BY <1>7, <2>1, <2>2 DEF ImageAt
<1>10. \A q \in P : Before(q, p) /\ \A k \in 1..Len(e.output) : Before(q, <<n + 1, k>>)
  <2> TAKE q \in P
  <2>1. PICK t \in 1..n : \E j \in 0..Len(ev[t].output) : q = <<t, j>>
    BY <1>2, PlaceFacts
  <2>2. q[1] = t /\ t < n + 1
    BY <2>1
  <2> QED
    BY <1>5, <2>2 DEF Before
<1>11. \A k \in 1..Len(e.output) : Before(p, <<n + 1, k>>)
  BY <1>1, <1>5 DEF Before
<1>12. Lists(images, P, at)
  BY <1>2, <1>7, ImagesAreListed
<1>13. PICK first : first = appendItem(images, e.item)
  BY Zenon
<1>14. first \in Seq(Images) /\ Lists(first, P \cup {p}, at)
  BY <1>1, <1>8, <1>10, <1>12, <1>13, AppendItemLists, Zenon
<1>15. PICK more : more = appendItems(first, e.output)
  BY Zenon
<1>16. \A q \in P \cup {p} : \A k \in 1..Len(e.output) : Before(q, <<n + 1, k>>)
  BY <1>10, <1>11
<1>17. more \in Seq(Images) /\ Lists(more, (P \cup {p}) \cup Q, at)
  <2>1. PICK t, out, R : t = n + 1 /\ out = e.output /\ R = P \cup {p}
    OBVIOUS
  <2>2. Q = {<<t, k>> : k \in 1..Len(out)}
    BY <1>4, <2>1, Zenon
  <2>3. /\ out \in Seq(Images) /\ first \in Seq(Images) /\ Lists(first, R, at)
        /\ \A k \in 1..Len(out) : at[<<t, k>>] = out[k]
        /\ \A q \in R : \A k \in 1..Len(out) : Before(q, <<t, k>>)
    BY <1>1, <1>9, <1>14, <1>16, <2>1, Zenon
  <2>4. appendItems(first, out) \in Seq(Images) /\ Lists(appendItems(first, out), R \cup Q, at)
    BY <2>2, <2>3, AppendItemsLists, Zenon
  <2> QED
    BY <1>15, <2>1, <2>4, Zenon
<1>18. AreImages(ev, more, n + 1)
  BY <1>6, <1>7, <1>17, ImagesAreListed, Zenon
<1> QED
  BY <1>13, <1>15, <1>17, <1>18, Zenon

\* Its usage is that of the accumulator, brought up to date.
LEMMA ConsumedUsage ==
    ASSUME NEW ev, NEW n \in Nat, NEW usage, IsUsage(ev, usage, n), NEW e, ev[n + 1] = e, e # None
    PROVE  LET image == IF e.image_gen = Missing THEN usage ELSE e.image_gen
           IN  IsUsage(ev, IF image = Null THEN e.usage ELSE image, n + 1)
<1>1. CASE e.image_gen # Missing
  <2>1. StatesImageUsage(ev, n + 1)
    BY <1>1 DEF StatesImageUsage
  <2>2. n + 1 \in 1..(n + 1) /\ ((n + 1) + 1)..(n + 1) = {} /\ (n + 1)..((n + 1) - 1) = {}
        /\ (n + 1)..(n + 1) = {n + 1}
    OBVIOUS
  <2>3. CASE e.image_gen = Null
    <3>1. IsFirstUsage(ev, e.usage, n + 1, n + 1)
      BY <2>2 DEF IsFirstUsage, StatesUsage
    <3> QED
      BY <1>1, <2>1, <2>2, <2>3, <3>1 DEF IsUsage
  <2>4. CASE e.image_gen # Null
    BY <1>1, <2>1, <2>2, <2>4 DEF IsUsage
  <2> QED
    BY <2>3, <2>4
<1>2. CASE e.image_gen = Missing
  <2>1. ~StatesImageUsage(ev, n + 1)
    BY <1>2 DEF StatesImageUsage
  <2>2. PICK more : more = IF usage = Null THEN e.usage ELSE usage
    BY Zenon
  <2>3. ASSUME NEW m \in 1..(n + 1), IsFirstUsage(ev, usage, m, n) PROVE IsFirstUsage(ev, more, m, n + 1)
    <3>1. CASE usage = Null /\ \A t \in m..n : ~StatesUsage(ev, t)
      <4>1. more = e.usage
        BY <2>2, <3>1
      <4>2. CASE e.usage = Null
        <5>1. ~StatesUsage(ev, n + 1)
          BY <4>2 DEF StatesUsage
        <5> QED
          BY <3>1, <4>1, <4>2, <5>1 DEF IsFirstUsage
      <4>3. CASE e.usage # Null
        <5>1. StatesUsage(ev, n + 1)
          BY <4>3 DEF StatesUsage
        <5>2. n + 1 \in m..(n + 1) /\ (n + 1) - 1 = n
          OBVIOUS
        <5> QED
          BY <3>1, <4>1, <5>1, <5>2 DEF IsFirstUsage
      <4> QED
        BY <4>2, <4>3
    <3>2. ASSUME NEW g \in m..n, StatesUsage(ev, g), usage = ev[g].usage,
                 \A t \in m..(g - 1) : ~StatesUsage(ev, t)
          PROVE  IsFirstUsage(ev, more, m, n + 1)
      <4>1. more = ev[g].usage
        BY <2>2, <3>2 DEF StatesUsage
      <4>2. g \in m..(n + 1)
        OBVIOUS
      <4> QED
        BY <3>2, <4>1, <4>2 DEF IsFirstUsage
    <3> QED
      BY <2>3, <3>1, <3>2 DEF IsFirstUsage
  <2>4. CASE (\A t \in 1..n : ~StatesImageUsage(ev, t)) /\ IsFirstUsage(ev, usage, 1, n)
    <3>1. IsFirstUsage(ev, more, 1, n + 1)
      BY <2>3, <2>4
    <3>2. \A t \in 1..(n + 1) : ~StatesImageUsage(ev, t)
      BY <2>1, <2>4
    <3> QED
      BY <1>2, <2>2, <3>1, <3>2 DEF IsUsage
  <2>5. ASSUME NEW last \in 1..n, StatesImageUsage(ev, last),
               \A t \in (last + 1)..n : ~StatesImageUsage(ev, t),
               IF ev[last].image_gen = Null THEN IsFirstUsage(ev, usage, last, n)
               ELSE usage = ev[last].image_gen
        PROVE  IsUsage(ev, more, n + 1)
    <3>1. last \in 1..(n + 1) /\ \A t \in (last + 1)..(n + 1) : ~StatesImageUsage(ev, t)
      BY <2>1, <2>5
    <3>2. IF ev[last].image_gen = Null THEN IsFirstUsage(ev, more, last, n + 1)
          ELSE more = ev[last].image_gen
      BY <2>2, <2>3, <2>5, <3>1
    <3> QED
      BY <2>5, <3>1, <3>2 DEF IsUsage
  <2> QED
    BY <1>2, <2>2, <2>4, <2>5, Zenon DEF IsUsage
<1> QED
  BY <1>1, <1>2

\* The accumulator has an image exactly if the events have one.
LEMMA ImagesFound ==
    ASSUME NEW ev, NEW n, \A t \in 1..n : ev[t] \in Events \cup {None},
           NEW images \in Seq(Images), AreImages(ev, images, n)
    PROVE  HasImage(ev, n) <=> images # <<>>
<1>1. ASSUME NEW p \in Places(ev, n) PROVE ImageAt(ev, p) \in Images \cup {None}
  <2>1. PICK t \in 1..n : ev[t] # None /\ \E j \in 0..Len(ev[t].output) : p = <<t, j>>
    BY PlaceFacts
  <2>2. ev[t] \in Event
    BY <2>1, EventsAssumption
  <2>3. ev[t].item \in Images \cup {None} /\ ev[t].output \in Seq(Images)
    BY <2>2 DEF Event
  <2>4. PICK j \in 0..Len(ev[t].output) : p[1] = t /\ p[2] = j
    BY <2>1
  <2> QED
    BY <2>3, <2>4 DEF ImageAt
<1>2. images # <<>> <=> \E k \in DOMAIN images : images[k] \in Images
  OBVIOUS
<1>3. ASSUME HasImage(ev, n) PROVE images # <<>>
  <2>1. PICK p \in Places(ev, n) : ImageAt(ev, p) \in Images
    BY <1>1, <1>3 DEF HasImage
  <2> QED
    BY <1>2, <2>1 DEF AreImages
<1>4. ASSUME images # <<>> PROVE HasImage(ev, n)
  <2>1. PICK k \in DOMAIN images : images[k] \in Images
    BY <1>2, <1>4
  <2> QED
    BY <2>1, ImagesAssumption DEF AreImages, HasImage
<1> QED
  BY <1>3, <1>4

\* A line at which no event ends changes nothing.
LEMMA Skipped ==
    ASSUME NEW ev, NEW n \in Nat, NEW s, ev[n + 1] = None, Accumulated(ev, s, n)
    PROVE  Accumulated(ev, s, n + 1)
<1>1. AreImages(ev, s.results, n + 1)
  BY NoPlaces DEF Accumulated, AreImages
<1>2. \A t : t \in 1..(n + 1) <=> (t \in 1..n \/ t = n + 1)
  OBVIOUS
<1>3. s.completed <=> \E t \in 1..(n + 1) : Completes(ev, t)
  BY <1>2, Zenon DEF Accumulated, Completes
<1>4. ~StatesImageUsage(ev, n + 1) /\ ~StatesUsage(ev, n + 1)
  BY DEF StatesImageUsage, StatesUsage
<1>5. ASSUME NEW m \in 1..(n + 1), IsFirstUsage(ev, s.usage, m, n) PROVE IsFirstUsage(ev, s.usage, m, n + 1)
  <2>1. \A t : t \in m..(n + 1) <=> (t \in m..n \/ t = n + 1)
    OBVIOUS
  <2> QED
    BY <1>4, <1>5, <2>1, Zenon DEF IsFirstUsage
<1>6. CASE (\A t \in 1..n : ~StatesImageUsage(ev, t)) /\ IsFirstUsage(ev, s.usage, 1, n)
  <2>1. 1 \in 1..(n + 1)
    OBVIOUS
  <2> QED
    BY <1>1, <1>2, <1>3, <1>4, <1>5, <1>6, <2>1, Zenon DEF Accumulated, IsUsage
<1>7. ASSUME NEW last \in 1..n, StatesImageUsage(ev, last),
             \A t \in (last + 1)..n : ~StatesImageUsage(ev, t),
             IF ev[last].image_gen = Null THEN IsFirstUsage(ev, s.usage, last, n)
             ELSE s.usage = ev[last].image_gen
      PROVE  Accumulated(ev, s, n + 1)
  <2>1. last \in 1..(n + 1) /\ \A t : t \in (last + 1)..(n + 1) <=> (t \in (last + 1)..n \/ t = n + 1)
    OBVIOUS
  <2>2. IsUsage(ev, s.usage, n + 1)
    BY <1>4, <1>5, <1>7, <2>1, Zenon DEF IsUsage
  <2> QED
    BY <1>1, <1>3, <2>2 DEF Accumulated
<1> QED
  BY <1>6, <1>7, Zenon DEF Accumulated, IsUsage

\* The fields of an accumulator that has consumed an event.
LEMMA ConsumeFields ==
    ASSUME NEW s \in Scan, NEW e, NEW c, c = consume(s, e)
    PROVE  LET image == IF e.image_gen = Missing THEN s.usage ELSE e.image_gen
           IN  c = [dataLines |-> s.dataLines, completed |-> s.completed,
                    usage |-> IF image = Null THEN e.usage ELSE image,
                    results |-> appendItems(appendItem(s.results, e.item), e.output)]
BY Zenon DEF consume, Scan

\* A flushed block takes the accumulator to the line that ends it.
LEMMA Flushed ==
    ASSUME scan \in Scan, NEW ev, NEW n \in Nat, ev[n + 1] = Decode(scan.dataLines),
           \A t \in 1..(n + 1) : ev[t] \in Events \cup {None}, Accumulated(ev, scan, n)
    PROVE  /\ Flush.scan \in Scan /\ Flush.scan.dataLines = <<>>
           /\ Accumulated(ev, Flush.scan, n + 1)
<1>1. PICK e : e = Decode(scan.dataLines)
  BY Zenon
<1>2. PICK clear : clear = [scan EXCEPT !.dataLines = <<>>]
  BY Zenon
<1>3. /\ clear \in Scan /\ clear.dataLines = <<>> /\ clear.results = scan.results
      /\ clear.usage = scan.usage /\ clear.completed = scan.completed
  <2>1. <<>> \in Seq(Lines)
    OBVIOUS
  <2> QED
    BY <1>2, <2>1, Zenon DEF Scan
<1>4. Accumulated(ev, clear, n)
  BY <1>3 DEF Accumulated
<1>5. CASE e = None
  <2>1. Flush.scan = clear
    BY <1>1, <1>2, <1>5 DEF Flush
  <2> QED
    BY <1>1, <1>3, <1>4, <1>5, <2>1, Skipped
<1>6. CASE e # None
  <2>1. e \in Events /\ ev[n + 1] = e
    <3>1. n + 1 \in 1..(n + 1)
      OBVIOUS
    <3> QED
      BY <1>1, <1>6, <3>1
  <2>2. e \in Event
    BY <2>1, EventsAssumption
  <2>3. /\ e.image_gen \in Usages \cup {Null, Missing} /\ e.usage \in Usages \cup {Null}
        /\ e.type \in {"partial", "completed", "other"}
    BY <2>2 DEF Event
  <2>4. PICK c : c = consume(clear, e)
    BY Zenon
  <2>5. PICK image : image = IF e.image_gen = Missing THEN clear.usage ELSE e.image_gen
    BY Zenon
  <2>6. PICK usage : usage = IF image = Null THEN e.usage ELSE image
    BY Zenon
  <2>7. PICK results : results = appendItems(appendItem(clear.results, e.item), e.output)
    BY Zenon
  <2>8. c = [dataLines |-> <<>>, completed |-> clear.completed, usage |-> usage, results |-> results]
    BY <1>3, <2>4, <2>5, <2>6, <2>7, ConsumeFields, Zenon
  <2>9. PICK s : s = [c EXCEPT !.completed = @ \/ e.type = "completed"]
    BY Zenon
  <2>10. /\ s = [dataLines |-> <<>>, completed |-> (clear.completed \/ e.type = "completed"),
                 usage |-> usage, results |-> results]
    BY <2>8, <2>9
  <2>11. Flush.scan = s
    BY <1>1, <1>2, <1>6, <2>4, <2>9, Zenon DEF Flush
  <2>12. clear.results \in Seq(Images) /\ clear.usage \in Usages \cup {Null}
    BY <1>3 DEF Scan
  <2>13. results \in Seq(Images) /\ AreImages(ev, results, n + 1)
    BY <1>4, <2>1, <2>7, <2>12, ConsumedImages, Zenon DEF Accumulated
  <2>14. IsUsage(ev, usage, n + 1)
    BY <1>4, <1>6, <2>1, <2>5, <2>6, ConsumedUsage, Zenon DEF Accumulated
  <2>15. usage \in Usages \cup {Null}
    BY <2>3, <2>5, <2>6, <2>12
  <2>16. s.dataLines = <<>> /\ s.results = results /\ s.usage = usage
         /\ (s.completed <=> (clear.completed \/ e.type = "completed"))
    BY <2>10, Zenon
  <2>17. s \in Scan
    BY <2>10, <2>13, <2>15 DEF Scan
  <2>18. s.completed <=> \E t \in 1..(n + 1) : Completes(ev, t)
    <3>1. \A t : t \in 1..(n + 1) <=> (t \in 1..n \/ t = n + 1)
      OBVIOUS
    <3> QED
      BY <1>4, <1>6, <2>1, <2>16, <3>1, Zenon DEF Accumulated, Completes
  <2> QED
    BY <2>11, <2>13, <2>14, <2>16, <2>17, <2>18 DEF Accumulated
<1> QED
  BY <1>5, <1>6

\* The frames that are written for it are those of its event, and the callback
\* fails for a completion without any image.
LEMMA FlushedFrames ==
    ASSUME scan \in Scan, NEW ev, NEW n \in Nat, ev[n + 1] = Decode(scan.dataLines),
           \A t \in 1..(n + 1) : ev[t] \in Events \cup {None}, Accumulated(ev, scan, n),
           stream \in BOOLEAN
    PROVE  /\ Flush.frames \in Seq(Frame)
           /\ stream => AreFrames(ev, Flush.frames, n + 1)
           /\ Flush.failed <=> stream /\ Completes(ev, n + 1) /\ ~HasImage(ev, n + 1)
<1>1. PICK e : e = Decode(scan.dataLines)
  BY Zenon
<1>2. PICK s : s = Flush.scan
  BY Zenon
<1>3. s \in Scan /\ Accumulated(ev, s, n + 1)
  BY <1>2, Flushed
<1>4. s.results \in Seq(Images) /\ s.usage \in Usages \cup {Null}
  BY <1>3 DEF Scan
<1>5. HasImage(ev, n + 1) <=> s.results # <<>>
  BY <1>3, <1>4, ImagesFound DEF Accumulated
<1>6. CASE e = None
  <2>1. Flush.frames = <<>> /\ Flush.failed = FALSE
    BY <1>1, <1>6 DEF Flush
  <2>2. <<>> \in Seq(Frame)
    OBVIOUS
  <2> QED
    BY <1>1, <1>6, <2>1, <2>2, Zenon DEF AreFrames, Completes
<1>7. CASE e # None
  <2>1. e \in Events /\ ev[n + 1] = e
    <3>1. n + 1 \in 1..(n + 1)
      OBVIOUS
    <3> QED
      BY <1>1, <1>7, <3>1
  <2>2. e \in Event
    BY <2>1, EventsAssumption
  <2>3. e.partial \in Images \cup {None} /\ e.type \in {"partial", "completed", "other"}
    BY <2>2 DEF Event
  <2>4. /\ Flush.frames = IF stream THEN FramesFor(s, e) ELSE <<>>
        /\ Flush.failed = (stream /\ e.type = "completed" /\ s.results = <<>>)
    BY <1>1, <1>2, <1>7, Zenon DEF Flush
  <2>5. Completes(ev, n + 1) <=> e.type = "completed"
    BY <1>7, <2>1 DEF Completes
  <2>6. PICK fs : fs = FramesFor(s, e)
    BY Zenon
  <2> SUFFICES fs \in Seq(Frame) /\ AreFrames(ev, fs, n + 1)
    <3>1. Flush.failed <=> stream /\ Completes(ev, n + 1) /\ ~HasImage(ev, n + 1)
      BY <1>5, <2>4, <2>5, Zenon
    <3>2. <<>> \in Seq(Frame)
      OBVIOUS
    <3> QED
      BY <2>4, <2>6, <3>1, <3>2, Zenon
  <2>7. CASE e.type = "partial" /\ e.partial # None
    <3>1. fs = <<[type |-> "partial", image |-> e.partial, usage |-> Null]>>
      BY <2>6, <2>7 DEF FramesFor
    <3>2. [type |-> "partial", image |-> e.partial, usage |-> Null] \in Frame
      BY <2>3, <2>7, Zenon DEF Frame
    <3>3. AreFrames(ev, fs, n + 1)
      BY <1>7, <2>1, <2>5, <2>7, <3>1, Zenon DEF AreFrames
    <3>4. fs \in Seq(Frame)
      BY <3>1, <3>2
    <3> QED
      BY <3>3, <3>4
  <2>8. CASE e.type = "completed"
    <3>1. fs = [i \in DOMAIN s.results |->
                  [type |-> "completed", image |-> s.results[i], usage |-> s.usage]]
      BY <2>6, <2>8 DEF FramesFor, CompletedFrames
    <3>2. \A i \in DOMAIN s.results :
            [type |-> "completed", image |-> s.results[i], usage |-> s.usage] \in Frame
      <4>1. \A i \in DOMAIN s.results : s.results[i] \in Images
        BY <1>4
      <4> QED
        BY <1>4, <4>1, Zenon DEF Frame
    <3>3. fs \in Seq(Frame)
      <4>1. PICK m \in Nat : DOMAIN s.results = 1..m
        BY <1>4
      <4>2. fs \in [1..m -> Frame]
        BY <3>1, <3>2, <4>1, Zenon
      <4> QED
        BY <4>2
    <3>4. DOMAIN fs = DOMAIN s.results
          /\ \A i \in DOMAIN fs : /\ fs[i].type = "completed" /\ fs[i].usage = s.usage
                                  /\ fs[i].image = s.results[i]
      BY <3>1
    <3>5. [k \in DOMAIN fs |-> fs[k].image] = s.results
      BY <1>4, <3>4
    <3>6. AreFrames(ev, fs, n + 1)
      BY <1>3, <2>5, <2>8, <3>4, <3>5, Zenon DEF AreFrames, Accumulated
    <3> QED
      BY <3>3, <3>6
  <2>9. CASE e.type # "completed" /\ ~(e.type = "partial" /\ e.partial # None)
    <3>1. fs = <<>> /\ <<>> \in Seq(Frame)
      BY <2>6, <2>9 DEF FramesFor
    <3>2. AreFrames(ev, fs, n + 1)
      BY <1>7, <2>1, <2>5, <2>9, <3>1, Zenon DEF AreFrames
    <3> QED
      BY <3>1, <3>2
  <2> QED
    BY <2>3, <2>7, <2>8, <2>9
<1> QED
  BY <1>6, <1>7

-----------------------------------------------------------------------------
(* Lines and events                                                        *)

\* Every line is in a block, which starts after an empty line or at the beginning.
LEMMA BlockStarts ==
    ASSUME NEW ls, NEW n \in Nat
    PROVE  \E b \in 0..n : /\ b # 0 => ls[b] = Blank
                           /\ \A r \in (b + 1)..n : ls[r] # Blank
<1> DEFINE S == {m \in Nat : \E b \in 0..m : /\ b # 0 => ls[b] = Blank
                                             /\ \A r \in (b + 1)..m : ls[r] # Blank}
<1>1. 0 \in S
  OBVIOUS
<1>2. ASSUME NEW m \in Nat, m \in S PROVE m + 1 \in S
  <2>1. CASE ls[m + 1] = Blank
    <3>1. m + 1 \in 0..(m + 1) /\ ((m + 1) + 1)..(m + 1) = {}
      OBVIOUS
    <3> QED
      BY <2>1, <3>1
  <2>2. CASE ls[m + 1] # Blank
    <3>1. PICK b \in 0..m : (b # 0 => ls[b] = Blank) /\ \A r \in (b + 1)..m : ls[r] # Blank
      BY <1>2
    <3>2. b \in 0..(m + 1) /\ \A r \in (b + 1)..(m + 1) : ls[r] # Blank
      BY <2>2, <3>1
    <3> QED
      BY <3>1, <3>2
  <2> QED
    BY <2>1, <2>2
<1>3. Nat \subseteq S
  <2> HIDE DEF S
  <2> QED
    BY <1>1, <1>2, Induction
<1> QED
  BY <1>3

\* The event that ends at a line is what the scanner decodes from the block before.
LEMMA BlockEvent ==
    ASSUME NEW ls, NEW n \in Nat, NEW b \in 0..n, b # 0 => ls[b] = Blank,
           \A r \in (b + 1)..n : ls[r] # Blank,
           NEW block \in Seq(Lines), Len(block) = n - b,
           \A i \in 1..Len(block) : block[i] = ls[b + i]
    PROVE  EventAt(ls, n + 1) =
             IF n + 1 <= Len(ls) /\ ls[n + 1] # Blank THEN None ELSE Decode(block)
<1> DEFINE Start(s) == /\ s > 1 => ls[s - 1] = Blank
                       /\ \A r \in s..((n + 1) - 1) : ls[r] # Blank
<1>1. b + 1 \in 1..(n + 1) /\ Start(b + 1)
  OBVIOUS
<1>2. ASSUME NEW s \in 1..(n + 1), Start(s) PROVE s = b + 1
  <2>1. CASE s > b + 1
    <3>1. s - 1 \in (b + 1)..n /\ s > 1
      BY <2>1
    <3> QED
      BY <1>2, <3>1
  <2>2. CASE s < b + 1
    <3>1. b \in s..((n + 1) - 1) /\ b # 0
      BY <2>2
    <3> QED
      BY <1>2, <3>1
  <2> QED
    BY <2>1, <2>2
<1>3. PICK s : s = BlockBefore(ls, n + 1)
  BY Zenon
<1>4. s = b + 1
  <2>1. s = CHOOSE i \in 1..(n + 1) : Start(i)
    BY <1>3, Zenon DEF BlockBefore
  <2> HIDE DEF Start
  <2> QED
    BY <1>1, <1>2, <2>1
<1>5. EventAt(ls, n + 1) =
        IF s = n + 1 \/ (n + 1 <= Len(ls) /\ ls[n + 1] # Blank) THEN None
        ELSE IF ls[s].kind = "whole" THEN ls[s].event
        ELSE IF ls[s].kind = "first" /\ s + 1 < n + 1 /\ ls[s + 1] = [ls[s] EXCEPT !.kind = "rest"]
        THEN ls[s].event ELSE None
  BY <1>3 DEF EventAt
<1>6. Len(block) \in Nat /\ (block = <<>> <=> Len(block) = 0)
  OBVIOUS
<1>7. CASE Len(block) = 0
  <2>1. s = n + 1 /\ Decode(block) = None
    BY <1>4, <1>6, <1>7 DEF Decode
  <2> QED
    BY <1>5, <2>1
<1>8. CASE Len(block) > 0
  <2>1. s # n + 1 /\ ls[s] = block[1] /\ (s + 1 < n + 1 <=> Len(block) > 1)
    BY <1>4, <1>8
  <2>2. Len(block) > 1 => ls[s + 1] = block[2]
    BY <1>4, <1>6
  <2>3. Decode(block) =
          IF block[1].kind = "whole" THEN block[1].event
          ELSE IF Len(block) > 1 /\ block[1].kind = "first"
                  /\ block[2] = [block[1] EXCEPT !.kind = "rest"]
          THEN block[1].event ELSE None
    BY <1>6, <1>8 DEF Decode
  <2> QED
    BY <1>5, <2>1, <2>2, <2>3
<1> QED
  BY <1>6, <1>7, <1>8

\* A block decodes to an event of the upstream or to nothing.
LEMMA DecodedType ==
    ASSUME NEW block \in Seq(Lines)
    PROVE  Decode(block) \in Events \cup {None}
<1>1. CASE block = <<>>
  BY <1>1 DEF Decode
<1>2. CASE block # <<>>
  <2>1. block[1] \in Lines
    BY <1>2
  <2>2. block[1].kind \in {"whole", "first"} => block[1].event \in Events
    BY <2>1, EventsAssumption DEF Lines, Blank, Noise
  <2> QED
    BY <1>2, <2>2 DEF Decode
<1> QED
  BY <1>1, <1>2

\* A slice of the lines read.
LEMMA SliceFacts ==
    ASSUME NEW ls \in Seq(Lines), NEW n \in Nat, NEW b \in 0..n, n <= Len(ls),
           NEW block, block = SubSeq(ls, b + 1, n)
    PROVE  /\ block \in Seq(Lines) /\ Len(block) = n - b
           /\ \A i \in 1..Len(block) : block[i] = ls[b + i]
<1>1. Len(block) = n - b
  OBVIOUS
<1>2. \A i \in 1..(n - b) : block[i] = ls[b + i] /\ b + i \in 1..Len(ls)
  OBVIOUS
<1>3. block \in Seq(Lines)
  OBVIOUS
<1> QED
  BY <1>1, <1>2, <1>3, Zenon

\* So is every event.
LEMMA EventAtType ==
    ASSUME NEW ls \in Seq(Lines), NEW t \in 1..(Len(ls) + 1)
    PROVE  EventAt(ls, t) \in Events \cup {None}
<1>1. PICK n \in Nat : t = n + 1 /\ n <= Len(ls)
  <2>1. t - 1 \in Nat /\ t = (t - 1) + 1 /\ t - 1 <= Len(ls)
    OBVIOUS
  <2> QED
    BY <2>1
<1>2. PICK b \in 0..n : (b # 0 => ls[b] = Blank) /\ \A r \in (b + 1)..n : ls[r] # Blank
  BY BlockStarts, Zenon
<1>3. PICK block : block = SubSeq(ls, b + 1, n)
  BY Zenon
<1>4. block \in Seq(Lines) /\ Len(block) = n - b /\ \A i \in 1..Len(block) : block[i] = ls[b + i]
  <2>1. n <= Len(ls)
    BY <1>1
  <2> QED
    BY <1>3, <2>1, SliceFacts
<1>5. EventAt(ls, n + 1) \in {None, Decode(block)}
  BY <1>2, <1>4, BlockEvent, Zenon
<1> QED
  BY <1>1, <1>4, <1>5, DecodedType

\* A further line leaves the events before it alone.
LEMMA EventStays ==
    ASSUME NEW ls \in Seq(Lines), NEW l \in Lines, NEW t \in 1..Len(ls)
    PROVE  EventAt(Append(ls, l), t) = EventAt(ls, t)
<1>1. PICK n \in Nat : t = n + 1 /\ n + 1 <= Len(ls)
  <2>1. t - 1 \in Nat /\ t = (t - 1) + 1 /\ (t - 1) + 1 <= Len(ls)
    OBVIOUS
  <2> QED
    BY <2>1
<1>2. PICK b \in 0..n : (b # 0 => ls[b] = Blank) /\ \A r \in (b + 1)..n : ls[r] # Blank
  BY BlockStarts, Zenon
<1>3. PICK block : block = SubSeq(ls, b + 1, n)
  BY Zenon
<1>4. block \in Seq(Lines) /\ Len(block) = n - b /\ \A i \in 1..Len(block) : block[i] = ls[b + i]
  <2>1. n <= Len(ls)
    BY <1>1
  <2> QED
    BY <1>3, <2>1, SliceFacts
<1>5. PICK more : more = Append(ls, l)
  BY Zenon
<1>6. Len(more) = Len(ls) + 1 /\ \A r \in 1..Len(ls) : more[r] = ls[r]
  BY <1>5
<1>7. /\ b # 0 => more[b] = Blank
      /\ \A r \in (b + 1)..n : more[r] # Blank
      /\ \A i \in 1..Len(block) : block[i] = more[b + i]
      /\ more[n + 1] = ls[n + 1] /\ n + 1 <= Len(more)
  <2>1. PICK len \in Nat : len = Len(ls)
    OBVIOUS
  <2>2. n + 1 \in 1..len /\ (b # 0 => b \in 1..len) /\ \A r \in (b + 1)..n : r \in 1..len
    BY <1>1, <2>1
  <2>3. \A i \in 1..Len(block) : b + i \in 1..len
    BY <1>1, <1>4, <2>1
  <2>4. n + 1 <= Len(more)
    BY <1>1, <1>6
  <2> QED
    BY <1>2, <1>4, <1>6, <2>1, <2>2, <2>3, <2>4, Zenon
<1>8. EventAt(ls, n + 1) = IF n + 1 <= Len(ls) /\ ls[n + 1] # Blank THEN None ELSE Decode(block)
  BY <1>2, <1>4, BlockEvent, Zenon
<1>9. EventAt(more, n + 1) = IF n + 1 <= Len(more) /\ more[n + 1] # Blank THEN None ELSE Decode(block)
  BY <1>4, <1>7, BlockEvent, Zenon
<1> QED
  BY <1>1, <1>5, <1>7, <1>8, <1>9

\* What is said of the events up to a line depends on these only.
LEMMA PlacesAgree ==
    ASSUME NEW ev, NEW ew, NEW n, \A t \in 1..n : ev[t] = ew[t]
    PROVE  /\ Places(ev, n) = Places(ew, n)
           /\ \A p \in Places(ev, n) : ImageAt(ev, p) = ImageAt(ew, p)
<1>1. ASSUME NEW p PROVE p \in Places(ev, n) <=> p \in Places(ew, n)
  BY PlaceFacts
<1>2. ASSUME NEW p \in Places(ev, n) PROVE ImageAt(ev, p) = ImageAt(ew, p)
  <2>1. PICK t \in 1..n : \E j \in 0..Len(ev[t].output) : p = <<t, j>>
    BY PlaceFacts
  <2>2. p[1] = t
    BY <2>1
  <2> QED
    BY <2>2, Zenon DEF ImageAt
<1> QED
  BY <1>1, <1>2

LEMMA ImagesAgree ==
    ASSUME NEW ev, NEW ew, NEW n, \A t \in 1..n : ev[t] = ew[t], NEW images
    PROVE  /\ AreImages(ev, images, n) <=> AreImages(ew, images, n)
           /\ HasImage(ev, n) <=> HasImage(ew, n)
<1>1. PICK at : at = [p \in Places(ev, n) |-> ImageAt(ev, p)]
  BY Zenon
<1>2. AreImages(ev, images, n) <=> Lists(images, Places(ev, n), at)
  BY <1>1, ImagesAreListed
<1>3. \A p \in Places(ew, n) : at[p] = ImageAt(ew, p)
  BY <1>1, PlacesAgree
<1>4. AreImages(ew, images, n) <=> Lists(images, Places(ew, n), at)
  BY <1>3, ImagesAreListed
<1>5. Places(ev, n) = Places(ew, n)
  BY PlacesAgree
<1>6. HasImage(ev, n) <=> HasImage(ew, n)
  BY PlacesAgree DEF HasImage
<1> QED
  BY <1>2, <1>4, <1>5, <1>6

LEMMA UsageAgrees ==
    ASSUME NEW ev, NEW ew, NEW n \in Nat, \A t \in 1..n : ev[t] = ew[t], NEW usage
    PROVE  IsUsage(ev, usage, n) <=> IsUsage(ew, usage, n)
<1>1. \A t \in 1..n : /\ StatesImageUsage(ev, t) <=> StatesImageUsage(ew, t)
                      /\ StatesUsage(ev, t) <=> StatesUsage(ew, t)
  BY DEF StatesImageUsage, StatesUsage
<1>2. ASSUME NEW m \in Nat \ {0} PROVE IsFirstUsage(ev, usage, m, n) <=> IsFirstUsage(ew, usage, m, n)
  <2>1. \A t \in m..n : t \in 1..n /\ \A u \in m..(t - 1) : u \in 1..n
    OBVIOUS
  <2> QED
    BY <1>1, <2>1, Zenon DEF IsFirstUsage
<1>3. 1 \in Nat \ {0} /\ \A last \in 1..n : last \in Nat \ {0} /\ \A t \in (last + 1)..n : t \in 1..n
  OBVIOUS
<1> QED
  BY <1>1, <1>2, <1>3, Zenon DEF IsUsage

LEMMA FramesAgree ==
    ASSUME NEW ev, NEW ew, NEW n \in Nat \ {0}, \A t \in 1..n : ev[t] = ew[t], NEW fs
    PROVE  AreFrames(ev, fs, n) <=> AreFrames(ew, fs, n)
<1>1. ev[n] = ew[n] /\ (Completes(ev, n) <=> Completes(ew, n))
  BY DEF Completes
<1>2. AreImages(ev, [k \in DOMAIN fs |-> fs[k].image], n)
        <=> AreImages(ew, [k \in DOMAIN fs |-> fs[k].image], n)
  BY ImagesAgree
<1>3. \A k \in DOMAIN fs : IsUsage(ev, fs[k].usage, n) <=> IsUsage(ew, fs[k].usage, n)
  BY UsageAgrees
<1> QED
  BY <1>1, <1>2, <1>3, Zenon DEF AreFrames

LEMMA ImageAgrees ==
    ASSUME NEW ev, NEW ew, NEW n \in Nat \ {0}, \A t \in 1..n : ev[t] = ew[t],
           Completes(ev, n) => HasImage(ev, n)
    PROVE  Completes(ew, n) => HasImage(ew, n)
<1>1. ev[n] = ew[n] /\ (Completes(ev, n) <=> Completes(ew, n))
  BY DEF Completes
<1>2. /\ Places(ev, n) = Places(ew, n)
      /\ \A p \in Places(ev, n) : ImageAt(ev, p) = ImageAt(ew, p)
  BY PlacesAgree
<1> QED
  BY <1>1, <1>2, Zenon DEF HasImage

LEMMA AccumulatedAgrees ==
    ASSUME NEW ev, NEW ew, NEW n \in Nat, \A t \in 1..n : ev[t] = ew[t], NEW s, Accumulated(ev, s, n)
    PROVE  Accumulated(ew, s, n)
<1>1. AreImages(ew, s.results, n)
  BY ImagesAgree DEF Accumulated
<1>2. IsUsage(ew, s.usage, n)
  BY UsageAgrees DEF Accumulated
<1>3. \A t \in 1..n : Completes(ev, t) <=> Completes(ew, t)
  BY DEF Completes
<1> QED
  BY <1>1, <1>2, <1>3, Zenon DEF Accumulated

-----------------------------------------------------------------------------
(* The scanner and the lines read                                          *)

\* The scanner holds the lines since the last empty one.
Holds(dl, ls) ==
    /\ Len(dl) <= Len(ls)
    /\ Len(dl) < Len(ls) => ls[Len(ls) - Len(dl)] = Blank
    /\ \A i \in 1..Len(dl) : dl[i] = ls[(Len(ls) - Len(dl)) + i] /\ dl[i] # Blank

\* The events of a stream are the upstream's.
LEMMA EventsType ==
    ASSUME NEW ls \in Seq(Lines)
    PROVE  \A t \in 1..(Len(ls) + 1) :
             EventsOf(ls)[t] = EventAt(ls, t) /\ EventsOf(ls)[t] \in Events \cup {None}
BY EventAtType, Zenon DEF EventsOf

\* What ends at the end of the lines is what the scanner would decode.
LEMMA HeldEvent ==
    ASSUME NEW ls \in Seq(Lines), NEW dl \in Seq(Lines), Holds(dl, ls)
    PROVE  EventsOf(ls)[Len(ls) + 1] = Decode(dl)
<1>1. PICK n \in Nat : n = Len(ls)
  OBVIOUS
<1>2. PICK b \in 0..n : b = n - Len(dl)
  BY <1>1 DEF Holds
<1>3. /\ b # 0 => ls[b] = Blank
      /\ Len(dl) = n - b
      /\ \A i \in 1..Len(dl) : dl[i] = ls[b + i] /\ dl[i] # Blank
  BY <1>1, <1>2 DEF Holds
<1>4. ASSUME NEW r \in (b + 1)..n PROVE ls[r] # Blank
  <2>1. r - b \in 1..Len(dl) /\ b + (r - b) = r
    BY <1>3
  <2> QED
    BY <1>3, <2>1, Zenon
<1>5. EventAt(ls, n + 1) = Decode(dl)
  <2>1. ~(n + 1 <= Len(ls))
    BY <1>1
  <2> QED
    BY <1>3, <1>4, <2>1, BlockEvent, Zenon
<1>6. n + 1 \in 1..(Len(ls) + 1)
  BY <1>1
<1> QED
  BY <1>1, <1>5, <1>6, EventsType

\* One more line: what ended before it still does, it ends the block held if it is
\* empty, and otherwise the scanner holds it too.
LEMMA LineRead ==
    ASSUME NEW ls \in Seq(Lines), NEW dl \in Seq(Lines), Holds(dl, ls), NEW l \in Lines
    PROVE  /\ \A t \in 1..Len(ls) : EventsOf(Append(ls, l))[t] = EventsOf(ls)[t]
           /\ EventsOf(Append(ls, l))[Len(ls) + 1] = IF l = Blank THEN Decode(dl) ELSE None
           /\ IF l = Blank THEN Holds(<<>>, Append(ls, l)) ELSE Holds(Append(dl, l), Append(ls, l))
<1>1. PICK more \in Seq(Lines) : more = Append(ls, l)
  <2>1. Append(ls, l) \in Seq(Lines)
    OBVIOUS
  <2> QED
    BY <2>1, Zenon
<1>2. PICK n \in Nat : n = Len(ls)
  OBVIOUS
<1>3. Len(more) = n + 1 /\ more[n + 1] = l /\ \A r \in 1..n : more[r] = ls[r]
  BY <1>1, <1>2
<1>4. ASSUME NEW t \in 1..n PROVE EventsOf(more)[t] = EventsOf(ls)[t]
  <2>1. t \in 1..(Len(ls) + 1) /\ t \in 1..(Len(more) + 1) /\ t \in 1..Len(ls)
    BY <1>2, <1>3
  <2>2. EventsOf(ls)[t] = EventAt(ls, t) /\ EventsOf(more)[t] = EventAt(more, t)
    BY <2>1, EventsType
  <2>3. EventAt(more, t) = EventAt(ls, t)
    BY <1>1, <2>1, EventStays
  <2> QED
    BY <2>2, <2>3
<1>5. EventsOf(more)[n + 1] = IF l = Blank THEN Decode(dl) ELSE None
  <2>1. PICK b \in 0..n : b = n - Len(dl)
    BY <1>2 DEF Holds
  <2>2. /\ b # 0 => ls[b] = Blank
        /\ Len(dl) = n - b
        /\ \A i \in 1..Len(dl) : dl[i] = ls[b + i] /\ dl[i] # Blank
    BY <1>2, <2>1 DEF Holds
  <2>3. (b # 0 => b \in 1..n) /\ \A i \in 1..Len(dl) : b + i \in 1..n
    BY <2>2
  <2>4. (b # 0 => more[b] = Blank) /\ \A i \in 1..Len(dl) : dl[i] = more[b + i]
    BY <1>3, <2>2, <2>3, Zenon
  <2>5. ASSUME NEW r \in (b + 1)..n PROVE more[r] # Blank
    <3>1. r - b \in 1..Len(dl) /\ b + (r - b) = r
      BY <2>2
    <3> QED
      BY <2>2, <2>4, <3>1, Zenon
  <2>6. EventAt(more, n + 1) = IF n + 1 <= Len(more) /\ more[n + 1] # Blank THEN None ELSE Decode(dl)
    BY <2>2, <2>4, <2>5, BlockEvent, Zenon
  <2>7. n + 1 \in 1..(Len(more) + 1) /\ n + 1 <= Len(more)
    BY <1>3
  <2>8. EventsOf(more)[n + 1] = EventAt(more, n + 1)
    BY <2>7, EventsType
  <2> QED
    BY <1>3, <2>6, <2>7, <2>8, Zenon
<1>6. CASE l = Blank
  <2>1. Holds(<<>>, more)
    BY <1>3, <1>6 DEF Holds
  <2> QED
    BY <1>1, <1>2, <1>4, <1>5, <1>6, <2>1
<1>7. CASE l # Blank
  <2>1. PICK dm \in Seq(Lines) : dm = Append(dl, l)
    <3>1. Append(dl, l) \in Seq(Lines)
      OBVIOUS
    <3> QED
      BY <3>1, Zenon
  <2>2. PICK m \in Nat : m = Len(dl)
    OBVIOUS
  <2>3. Len(dm) = m + 1 /\ dm[m + 1] = l /\ \A i \in 1..m : dm[i] = dl[i]
    BY <2>1, <2>2
  <2>4. m <= n /\ (m < n => ls[n - m] = Blank) /\ \A i \in 1..m : dl[i] = ls[(n - m) + i] /\ dl[i] # Blank
    BY <1>2, <2>2, Zenon DEF Holds
  <2>5. (n + 1) - (m + 1) = n - m /\ m + 1 <= n + 1
        /\ (m < n => n - m \in 1..n) /\ \A i \in 1..m : (n - m) + i \in 1..n
    BY <2>4
  <2>6. ASSUME NEW i \in 1..(m + 1) PROVE dm[i] = more[(n - m) + i] /\ dm[i] # Blank
    <3>1. CASE i = m + 1
      <4>1. (n - m) + i = n + 1
        BY <3>1
      <4> QED
        BY <1>3, <1>7, <2>3, <3>1, <4>1, Zenon
    <3>2. CASE i \in 1..m
      BY <1>3, <2>3, <2>4, <2>5, <3>2, Zenon
    <3> QED
      BY <3>1, <3>2
  <2>7. m + 1 < n + 1 => more[n - m] = Blank
    BY <1>3, <2>4, <2>5
  <2>8. Holds(dm, more)
    BY <1>3, <2>3, <2>5, <2>6, <2>7 DEF Holds
  <2> QED
    BY <1>1, <1>2, <1>4, <1>5, <1>7, <2>1, <2>8, Zenon
<1> QED
  BY <1>6, <1>7, Zenon

-----------------------------------------------------------------------------
(* The invariant                                                           *)

\* What the handler has done before it reads.
PhaseInv ==
    /\ pc \in {"arrived", "upstream"} =>
         /\ lines = <<>> /\ frames = <<>>
         /\ scan = [dataLines |-> <<>>, results |-> <<>>, usage |-> Null, completed |-> FALSE]
    /\ pc # "answered" => ~whole
    /\ pc = "reading" => answer = IF stream THEN Status(200) ELSE NoAnswer

BlockInv == pc = "reading" => Holds(scan.dataLines, lines)

AccInv == pc = "reading" => Accumulated(EventsOf(lines), scan, Len(lines))

\* A stream goes on only as long as every completion had an image.
FramesInv ==
    pc = "reading" =>
      /\ Len(frames) = Len(lines)
      /\ stream => \A t \in 1..Len(lines) :
                     /\ AreFrames(EventsOf(lines), frames[t], t)
                     /\ Completes(EventsOf(lines), t) => HasImage(EventsOf(lines), t)

Inv ==
    /\ TypeOK /\ PhaseInv /\ BlockInv /\ AccInv /\ FramesInv
    /\ CollectedAnswer /\ StreamedAnswer

Answers == [status : {0, 200, 400, 405, 429, 502}, images : Seq(Images), usage : Usages \cup {Null}]

\* The types of what an error leaves.
LEMMA StatusType ==
    ASSUME NEW code \in {0, 200, 400, 405, 429, 502}
    PROVE  Status(code) \in Answers /\ Status(code).status = code
<1>1. Status(code) = [status |-> code, images |-> <<>>, usage |-> Null]
  BY DEF Status, NoAnswer
<1>2. <<>> \in Seq(Images)
  OBVIOUS
<1> QED
  BY <1>1, <1>2 DEF Answers

\* The type invariant with its sets named, before and after a step.
Typed ==
    /\ pc \in {"arrived", "upstream", "reading", "answered"}
    /\ stream \in BOOLEAN /\ whole \in BOOLEAN
    /\ scan \in Scan
    /\ frames \in Seq(Seq(Frame))
    /\ answer \in Answers
    /\ lines \in Seq(Lines)

LEMMA TypeNamed == (TypeOK <=> Typed) /\ (TypeOK' <=> Typed')
BY Zenon DEF TypeOK, Typed, Scan, Answers

\* A step that reads nothing keeps the types.
LEMMA TypeKept ==
    ASSUME TypeOK, UNCHANGED <<scan, frames, lines, whole>>,
           pc' \in {"arrived", "upstream", "reading", "answered"}, stream' \in BOOLEAN, answer' \in Answers
    PROVE  TypeOK'
<1>1. scan' = scan /\ frames' = frames /\ lines' = lines /\ whole' = whole
  OBVIOUS
<1> QED
  BY <1>1, TypeNamed, Zenon DEF Typed

\* A refused request.
LEMMA PrepareStep == ASSUME NEW q \in Request PROVE Inv /\ Prepare(q) => Inv'
<1> SUFFICES ASSUME Inv, Prepare(q) PROVE Inv'
  OBVIOUS
<1>1. TypeOK'
  <2>1. /\ TypeOK /\ UNCHANGED <<scan, frames, lines, whole>>
        /\ pc' \in {"upstream", "answered"} /\ stream' \in {stream, q.stream}
        /\ answer' \in {answer, Status(405), Status(400)}
    BY DEF Inv, Prepare, Answer
  <2>2. stream \in BOOLEAN /\ answer \in Answers
    BY <2>1, TypeNamed, Zenon DEF Typed
  <2>3. q.stream \in BOOLEAN
    BY DEF Request
  <2>4. Status(405) \in Answers /\ Status(400) \in Answers
    BY StatusType
  <2> QED
    BY <2>1, <2>2, <2>3, <2>4, TypeKept
<1>2. pc' # "reading" /\ PhaseInv'
  BY Zenon DEF Inv, PhaseInv, Prepare, Answer
<1>3. BlockInv' /\ AccInv' /\ FramesInv'
  BY <1>2 DEF BlockInv, AccInv, FramesInv
<1>4. pc' = "answered" => answer'.status \notin {200, 502}
  BY StatusType DEF Prepare, Answer
<1>5. CollectedAnswer' /\ StreamedAnswer'
  BY <1>4, Zenon DEF CollectedAnswer, StreamedAnswer
<1> QED
  BY <1>1, <1>2, <1>3, <1>5 DEF Inv

\* Before the first line the accumulator is empty, and so are the events.
LEMMA NothingRead ==
    ASSUME NEW ev, NEW s, s.results = <<>>, s.usage = Null, s.completed = FALSE
    PROVE  Accumulated(ev, s, 0)
<1>1. \A p : p \notin Places(ev, 0)
  BY PlaceFacts
<1>2. AreImages(ev, s.results, 0)
  BY <1>1 DEF AreImages
<1>3. IsUsage(ev, s.usage, 0)
  BY DEF IsUsage, IsFirstUsage
<1> QED
  BY <1>2, <1>3 DEF Accumulated

\* The call upstream.
LEMMA CallStep == Inv /\ Call => Inv'
<1> SUFFICES ASSUME Inv, Call PROVE Inv'
  OBVIOUS
<1>1. /\ lines = <<>> /\ frames = <<>> /\ whole = FALSE
      /\ scan = [dataLines |-> <<>>, results |-> <<>>, usage |-> Null, completed |-> FALSE]
  BY TypeNamed, Zenon DEF Inv, Typed, PhaseInv, Call
<1>2. UNCHANGED <<stream, scan, frames, lines, whole>>
  BY DEF Call
<1>3. ASSUME NEW code \in {502, 429}, Answer(Status(code)) PROVE Inv'
  <2>1. pc' = "answered" /\ answer' = Status(code)
    BY <1>3 DEF Answer
  <2>2. TypeOK'
    <3>1. TypeOK /\ stream \in BOOLEAN
      BY TypeNamed, Zenon DEF Inv, Typed
    <3>2. answer' \in Answers
      BY <2>1, StatusType
    <3> QED
      BY <1>2, <2>1, <3>1, <3>2, TypeKept
  <2>3. PhaseInv' /\ BlockInv' /\ AccInv' /\ FramesInv'
    BY <2>1 DEF PhaseInv, BlockInv, AccInv, FramesInv
  <2>4. answer'.status = code
    BY <2>1, StatusType
  <2>5. StreamedAnswer'
    <3>1. answer'.status # 200
      BY <2>4
    <3> QED
      BY <3>1, Zenon DEF StreamedAnswer
  <2>6. CollectedAnswer'
    <3>1. whole' = FALSE
      BY <1>1, <1>2
    <3>2. answer'.status \in {200, 502} => answer' = Status(502)
      BY <2>1, <2>4
    <3> QED
      BY <3>1, <3>2 DEF CollectedAnswer
  <2> QED
    BY <2>2, <2>3, <2>5, <2>6 DEF Inv
<1>4. ASSUME pc' = "reading", answer' = IF stream THEN Status(200) ELSE NoAnswer PROVE Inv'
  <2>1. NoAnswer = Status(0)
    BY DEF Status, NoAnswer
  <2>2. TypeOK'
    <3>1. TypeOK /\ stream \in BOOLEAN
      BY TypeNamed, Zenon DEF Inv, Typed
    <3>2. answer' \in Answers
      BY <1>4, <2>1, StatusType
    <3> QED
      BY <1>2, <1>4, <3>1, <3>2, TypeKept
  <2>3. PhaseInv'
    BY <1>1, <1>2, <1>4, Zenon DEF PhaseInv
  <2>4. scan'.dataLines = <<>> /\ scan'.results = <<>> /\ scan'.usage = Null /\ scan'.completed = FALSE
        /\ lines' = <<>> /\ frames' = <<>> /\ Len(<<>>) = 0
    BY <1>1, <1>2
  <2>5. BlockInv'
    BY <2>4 DEF BlockInv, Holds
  <2>6. AccInv'
    BY <2>4, NothingRead, Zenon DEF AccInv
  <2>7. FramesInv'
    BY <2>4 DEF FramesInv
  <2>8. CollectedAnswer' /\ StreamedAnswer'
    BY <1>4 DEF CollectedAnswer, StreamedAnswer
  <2> QED
    BY <2>2, <2>3, <2>5, <2>6, <2>7, <2>8 DEF Inv
<1> QED
  BY <1>3, <1>4 DEF Call

-----------------------------------------------------------------------------
(* Reading                                                                 *)

\* What is known while the handler reads, of the lines so far and of the block that
\* a flush would now end.
LEMMA WhileReading ==
    ASSUME Inv, pc = "reading"
    PROVE  LET n == Len(lines)
               ev == EventsOf(lines)
           IN  /\ n \in Nat /\ lines \in Seq(Lines) /\ frames \in Seq(Seq(Frame)) /\ Len(frames) = n
               /\ stream \in BOOLEAN /\ whole = FALSE /\ scan \in Scan
               /\ Holds(scan.dataLines, lines) /\ scan.dataLines \in Seq(Lines)
               /\ \A t \in 1..(n + 1) : ev[t] \in Events \cup {None}
               /\ Accumulated(ev, scan, n)
               /\ stream => \A t \in 1..n : /\ AreFrames(ev, frames[t], t)
                                            /\ Completes(ev, t) => HasImage(ev, t)
               /\ Flush.scan \in Scan /\ Flush.scan.dataLines = <<>>
               /\ Accumulated(ev, Flush.scan, n + 1)
               /\ Flush.frames \in Seq(Frame)
               /\ stream => AreFrames(ev, Flush.frames, n + 1)
               /\ Flush.failed <=> stream /\ Completes(ev, n + 1) /\ ~HasImage(ev, n + 1)
<1>1. /\ lines \in Seq(Lines) /\ frames \in Seq(Seq(Frame)) /\ stream \in BOOLEAN /\ whole \in BOOLEAN
      /\ scan \in Scan
  BY TypeNamed, Zenon DEF Inv, Typed
<1>2. ~whole
  BY DEF Inv, PhaseInv
<1>3. Holds(scan.dataLines, lines) /\ Accumulated(EventsOf(lines), scan, Len(lines))
  BY Zenon DEF Inv, BlockInv, AccInv
<1>4. /\ Len(frames) = Len(lines)
      /\ stream => \A t \in 1..Len(lines) :
                     /\ AreFrames(EventsOf(lines), frames[t], t)
                     /\ Completes(EventsOf(lines), t) => HasImage(EventsOf(lines), t)
  BY Zenon DEF Inv, FramesInv
<1>5. Len(lines) \in Nat /\ whole = FALSE
  BY <1>1, <1>2
<1>6. scan.dataLines \in Seq(Lines)
  BY <1>1 DEF Scan
<1>7. \A t \in 1..(Len(lines) + 1) : EventsOf(lines)[t] \in Events \cup {None}
  BY <1>1, EventsType
<1>8. EventsOf(lines)[Len(lines) + 1] = Decode(scan.dataLines)
  BY <1>1, <1>3, <1>6, HeldEvent
<1>9. PICK ev : ev = EventsOf(lines)
  BY Zenon
<1>10. PICK n \in Nat : n = Len(lines)
  BY <1>5
<1>11. /\ Flush.scan \in Scan /\ Flush.scan.dataLines = <<>>
       /\ Accumulated(ev, Flush.scan, n + 1)
  BY <1>1, <1>3, <1>7, <1>8, <1>9, <1>10, Flushed, Zenon
<1>12. /\ Flush.frames \in Seq(Frame)
       /\ stream => AreFrames(ev, Flush.frames, n + 1)
       /\ Flush.failed <=> stream /\ Completes(ev, n + 1) /\ ~HasImage(ev, n + 1)
  BY <1>1, <1>3, <1>7, <1>8, <1>9, <1>10, FlushedFrames, Zenon
<1> QED
  BY <1>1, <1>3, <1>4, <1>5, <1>6, <1>7, <1>9, <1>10, <1>11, <1>12, Zenon

\* What a stream must have sent when it ends, after the lines ls.
Ending(ls, wh) ==
    LET ev == EventsOf(ls)
        completions == {t \in 1..(Len(ls) + 1) : Completes(ev, t)}
    IN  IF ~wh THEN <<Error("no output")>>
        ELSE IF completions = {} THEN <<Error("incomplete")>>
        ELSE IF \A t \in completions : HasImage(ev, t) THEN <<>> ELSE <<Error("no output")>>

Streamed(ls, gs, wh) ==
    LET n == Len(ls) + 1
        ev == EventsOf(ls)
    IN  /\ \A t \in 1..n : t < Len(gs) => AreFrames(ev, gs[t], t)
        /\ \A t \in 1..n : t >= Len(gs) => ev[t] = None
        /\ Len(gs) <= n + 1 /\ gs # <<>> /\ gs[Len(gs)] = Ending(ls, wh)

LEMMA StreamedStates ==
    ASSUME (pc' = "answered" /\ stream' /\ answer'.status = 200) => Streamed(lines', frames', whole')
    PROVE  StreamedAnswer'
BY Zenon DEF StreamedAnswer, Streamed, Ending

\* The two groups of frames that end a stream.
LEMMA TwoMore ==
    ASSUME NEW T, NEW fs \in Seq(T), NEW a \in T, NEW b \in T
    PROVE  LET gs == fs \o <<a, b>>
           IN  /\ gs \in Seq(T) /\ Len(gs) = Len(fs) + 2
               /\ \A t \in 1..Len(fs) : gs[t] = fs[t]
               /\ gs[Len(fs) + 1] = a /\ gs[Len(fs) + 2] = b
<1>1. <<a, b>> \in Seq(T) /\ Len(<<a, b>>) = 2
  OBVIOUS
<1> QED
  BY <1>1

LEMMA OneMore ==
    ASSUME NEW T, NEW fs \in Seq(T), NEW a \in T
    PROVE  LET gs == Append(fs, a)
           IN  /\ gs \in Seq(T) /\ Len(gs) = Len(fs) + 1
               /\ \A t \in 1..Len(fs) : gs[t] = fs[t]
               /\ gs[Len(fs) + 1] = a
OBVIOUS

LEMMA Singleton == ASSUME NEW T, NEW a \in T PROVE <<a>> \in Seq(T) /\ <<>> \in Seq(T)
OBVIOUS

LEMMA EndingType ==
    ASSUME NEW ls, NEW wh \in BOOLEAN
    PROVE  Ending(ls, wh) \in Seq(Frame)
<1>1. Error("no output") \in Frame /\ Error("incomplete") \in Frame
  BY Zenon DEF Error, Frame
<1>2. /\ <<Error("no output")>> \in Seq(Frame) /\ <<Error("incomplete")>> \in Seq(Frame)
      /\ <<>> \in Seq(Frame)
  BY <1>1, Singleton, Zenon
<1>3. Ending(ls, wh) \in {<<Error("no output")>>, <<Error("incomplete")>>, <<>>}
  BY Zenon DEF Ending
<1> QED
  BY <1>2, <1>3, Zenon

\* A stream that ends with the flush of the last block, whether or not an empty line
\* was read for it, has sent what it must.
LEMMA StreamEnds ==
    ASSUME Inv, pc = "reading", stream, NEW ls \in Seq(Lines), NEW wh \in BOOLEAN,
           Len(ls) \in {Len(lines), Len(lines) + 1},
           \A t \in 1..(Len(lines) + 1) : EventsOf(ls)[t] = EventsOf(lines)[t],
           Len(ls) = Len(lines) + 1 => EventsOf(ls)[Len(ls) + 1] = None
    PROVE  /\ Streamed(ls, frames \o <<Flush.frames, Ending(ls, wh)>>, wh)
           /\ frames \o <<Flush.frames, Ending(ls, wh)>> \in Seq(Seq(Frame))
<1>1. PICK n \in Nat : n = Len(lines)
  BY WhileReading, Zenon
<1>2. PICK ev : ev = EventsOf(lines)
  BY Zenon
<1>3. PICK ew : ew = EventsOf(ls)
  BY Zenon
<1>4. /\ frames \in Seq(Seq(Frame)) /\ Len(frames) = n /\ Flush.frames \in Seq(Frame)
      /\ \A t \in 1..n : AreFrames(ev, frames[t], t)
      /\ AreFrames(ev, Flush.frames, n + 1)
  BY <1>1, <1>2, WhileReading, Zenon
<1>5. Ending(ls, wh) \in Seq(Frame)
  BY EndingType
<1>6. PICK gs : gs = frames \o <<Flush.frames, Ending(ls, wh)>>
  BY Zenon
<1>7. /\ gs \in Seq(Seq(Frame)) /\ Len(gs) = n + 2
      /\ \A t \in 1..n : gs[t] = frames[t]
      /\ gs[n + 1] = Flush.frames /\ gs[n + 2] = Ending(ls, wh)
  <2>1. PICK T : T = Seq(Frame)
    BY Zenon
  <2>2. PICK a \in T : a = Flush.frames
    BY <1>4, <2>1, Zenon
  <2>3. PICK b \in T : b = Ending(ls, wh)
    BY <1>5, <2>1
  <2>4. PICK fs \in Seq(T) : fs = frames /\ Len(fs) = n
    BY <1>4, <2>1, Zenon
  <2>5. gs = fs \o <<a, b>>
    BY <1>6, <2>2, <2>3, <2>4
  <2>6. /\ gs \in Seq(T) /\ Len(gs) = n + 2
        /\ \A t \in 1..n : gs[t] = fs[t]
        /\ gs[n + 1] = a /\ gs[n + 2] = b
    BY <2>4, <2>5, TwoMore
  <2> QED
    BY <2>1, <2>2, <2>3, <2>4, <2>6, Zenon
<1>8. ASSUME NEW t \in 1..(n + 1) PROVE AreFrames(ew, gs[t], t)
  <2>1. AreFrames(ev, gs[t], t)
    <3>1. t \in 1..n \/ t = n + 1
      BY <1>1
    <3> QED
      BY <1>4, <1>7, <3>1, Zenon
  <2>2. t \in Nat \ {0} /\ \A u \in 1..t : ev[u] = ew[u]
    BY <1>1, <1>2, <1>3
  <2> QED
    BY <2>1, <2>2, FramesAgree, Zenon
<1>9. Len(ls) \in {n, n + 1} /\ (Len(ls) = n + 1 => ew[n + 2] = None)
  <2>1. (n + 1) + 1 = n + 2
    BY <1>1
  <2> QED
    BY <1>1, <1>3, <2>1
<1>10. \A t \in 1..(Len(ls) + 1) : t < n + 2 => t \in 1..(n + 1)
  BY <1>1, <1>9
<1>11. \A t \in 1..(Len(ls) + 1) : t >= n + 2 => t = n + 2 /\ Len(ls) = n + 1
  BY <1>1, <1>9
<1>12. Len(gs) <= (Len(ls) + 1) + 1 /\ gs # <<>>
  BY <1>1, <1>7, <1>9
<1>13. \A t \in 1..(Len(ls) + 1) : t < Len(gs) => AreFrames(EventsOf(ls), gs[t], t)
  BY <1>3, <1>7, <1>8, <1>10, Zenon
<1>14. \A t \in 1..(Len(ls) + 1) : t >= Len(gs) => EventsOf(ls)[t] = None
  BY <1>3, <1>7, <1>9, <1>11, Zenon
<1>15. gs[Len(gs)] = Ending(ls, wh)
  BY <1>7, Zenon
<1>16. Streamed(ls, gs, wh)
  BY <1>12, <1>13, <1>14, <1>15, Zenon DEF Streamed
<1> QED
  BY <1>6, <1>7, <1>16, Zenon

\* A collected answer, and the end of a streamed one, at the end of the body.
LEMMA EndOfBodyStep == Inv /\ EndOfBody => Inv'
<1> SUFFICES ASSUME Inv, EndOfBody PROVE Inv'
  OBVIOUS
<1>1. pc = "reading" /\ pc' = "answered" /\ whole' = TRUE /\ scan' = Flush.scan
      /\ stream' = stream /\ lines' = lines
  BY Zenon DEF EndOfBody, EndStream, Answer
<1>2. PICK n \in Nat : n = Len(lines)
  BY <1>1, WhileReading, Zenon
<1>3. PICK ev : ev = EventsOf(lines)
  BY Zenon
<1>4. PICK s : s = Flush.scan
  BY Zenon
<1>5. /\ s \in Scan /\ Accumulated(ev, s, n + 1) /\ stream \in BOOLEAN /\ lines \in Seq(Lines)
      /\ frames \in Seq(Seq(Frame))
      /\ \A t \in 1..(n + 1) : ev[t] \in Events \cup {None}
  BY <1>1, <1>2, <1>3, <1>4, WhileReading, Zenon
<1>6. PhaseInv' /\ BlockInv' /\ AccInv' /\ FramesInv'
  BY <1>1, Zenon DEF PhaseInv, BlockInv, AccInv, FramesInv
<1>7. s.results \in Seq(Images) /\ s.usage \in Usages \cup {Null} /\ s.completed \in BOOLEAN
  BY <1>5, Zenon DEF Scan
<1>8. /\ s.completed <=> \E t \in 1..(n + 1) : Completes(ev, t)
      /\ AreImages(ev, s.results, n + 1) /\ IsUsage(ev, s.usage, n + 1)
  BY <1>5, Zenon DEF Accumulated
<1>9. CASE ~stream
  <2>1. answer' = Collected(s) /\ frames' = frames
    BY <1>4, <1>9, Zenon DEF EndOfBody, Answer
  <2>2. HasImage(ev, n + 1) <=> s.results # <<>>
    BY <1>5, <1>7, <1>8, ImagesFound, Zenon
  <2>3. answer' \in Answers
    <3>1. CASE ~s.completed \/ s.results = <<>>
      BY <2>1, <3>1, StatusType DEF Collected
    <3>2. CASE ~(~s.completed \/ s.results = <<>>)
      BY <1>7, <2>1, <3>2 DEF Collected, Answers
    <3> QED
      BY <3>1, <3>2
  <2>4. TypeOK'
    BY <1>1, <1>4, <1>5, <2>1, <2>3, TypeNamed, Zenon DEF Typed
  <2>5. StreamedAnswer'
    BY <1>1, <1>9, Zenon DEF StreamedAnswer
  <2>6. CollectedAnswer'
    <3>1. CASE s.completed /\ s.results # <<>>
      <4>1. answer' = [status |-> 200, images |-> s.results, usage |-> s.usage]
        BY <2>1, <3>1 DEF Collected
      <4>2. answer'.status = 200 /\ answer'.images = s.results /\ answer'.usage = s.usage
        BY <4>1, Zenon
      <4>3. HasImage(ev, n + 1) /\ \E t \in 1..(n + 1) : Completes(ev, t)
        BY <1>8, <2>2, <3>1, Zenon
      <4> QED
        BY <1>1, <1>2, <1>3, <1>8, <4>2, <4>3, Zenon DEF CollectedAnswer
    <3>2. CASE ~(s.completed /\ s.results # <<>>)
      <4>1. answer' = Status(502)
        BY <2>1, <3>2, Zenon DEF Collected
      <4>2. ~(HasImage(ev, n + 1) /\ \E t \in 1..(n + 1) : Completes(ev, t))
        BY <1>8, <2>2, <3>2, Zenon
      <4> QED
        BY <1>1, <1>2, <1>3, <4>1, <4>2, Zenon DEF CollectedAnswer
    <3> QED
      BY <3>1, <3>2, Zenon
  <2> QED
    BY <1>6, <2>4, <2>5, <2>6, Zenon DEF Inv
<1>10. CASE stream
  <2>1. /\ answer' = answer
        /\ frames' = frames \o <<Flush.frames, IF Flush.failed THEN <<Error("no output")>>
                                               ELSE IF s.completed THEN <<>> ELSE <<Error("incomplete")>>>>
    BY <1>4, <1>10, Zenon DEF EndOfBody, EndStream
  <2>2. Flush.failed <=> Completes(ev, n + 1) /\ ~HasImage(ev, n + 1)
    BY <1>1, <1>2, <1>3, <1>10, WhileReading, Zenon
  <2>3. \A t \in 1..n : Completes(ev, t) => HasImage(ev, t)
    BY <1>1, <1>2, <1>3, <1>10, WhileReading, Zenon
  <2>4. PICK D : D = {t \in 1..(n + 1) : Completes(ev, t)}
    BY Zenon
  <2>5. Ending(lines, TRUE) = IF D = {} THEN <<Error("incomplete")>>
                              ELSE IF \A t \in D : HasImage(ev, t) THEN <<>> ELSE <<Error("no output")>>
    BY <1>2, <1>3, <2>4 DEF Ending
  <2>6. D # {} <=> s.completed
    BY <1>8, <2>4, Zenon
  <2>7. Flush.failed <=> ~\A t \in D : HasImage(ev, t)
    <3>1. \A t \in 1..(n + 1) : t \in 1..n \/ t = n + 1
      BY <1>2
    <3>2. n + 1 \in 1..(n + 1)
      BY <1>2
    <3> QED
      BY <2>2, <2>3, <2>4, <3>1, <3>2, Zenon
  <2>8. Flush.failed => D # {}
    BY <2>7
  <2>9. Ending(lines, TRUE) = IF Flush.failed THEN <<Error("no output")>>
                              ELSE IF s.completed THEN <<>> ELSE <<Error("incomplete")>>
    BY <2>5, <2>6, <2>7, <2>8, Zenon
  <2>10. frames' = frames \o <<Flush.frames, Ending(lines, TRUE)>>
    BY <2>1, <2>9, Zenon
  <2>11. Streamed(lines, frames', TRUE) /\ frames' \in Seq(Seq(Frame))
    <3>1. Len(lines) \in {Len(lines), Len(lines) + 1} /\ Len(lines) # Len(lines) + 1
      BY <1>2
    <3> QED
      BY <1>1, <1>5, <1>10, <2>10, <3>1, StreamEnds, Zenon
  <2>12. StreamedAnswer'
    BY <1>1, <2>11, StreamedStates, Zenon
  <2>13. CollectedAnswer'
    BY <1>1, <1>10, Zenon DEF CollectedAnswer
  <2>14. answer' \in Answers
    BY <2>1, TypeNamed, Zenon DEF Inv, Typed
  <2>15. TypeOK'
    BY <1>1, <1>4, <1>5, <2>11, <2>14, TypeNamed, Zenon DEF Typed
  <2> QED
    BY <1>6, <2>12, <2>13, <2>15 DEF Inv
<1> QED
  BY <1>9, <1>10

\* A body that breaks off is dropped, or ends the stream with an error.
LEMMA BrokenStep == Inv /\ Broken => Inv'
<1> SUFFICES ASSUME Inv, Broken PROVE Inv'
  OBVIOUS
<1>1. pc = "reading" /\ pc' = "answered" /\ UNCHANGED <<stream, lines, whole>>
  BY Zenon DEF Broken, EndStream, Answer
<1>2. /\ lines \in Seq(Lines) /\ frames \in Seq(Seq(Frame)) /\ stream \in BOOLEAN /\ whole = FALSE
      /\ scan \in Scan /\ Flush.scan \in Scan /\ Len(lines) \in Nat
  BY <1>1, WhileReading, Zenon
<1>3. PhaseInv' /\ BlockInv' /\ AccInv' /\ FramesInv'
  BY <1>1, Zenon DEF PhaseInv, BlockInv, AccInv, FramesInv
<1>4. CASE ~stream
  <2>1. answer' = Status(502) /\ frames' = frames /\ scan' = scan
    BY <1>4 DEF Broken, Answer
  <2>2. answer' \in Answers
    BY <2>1, StatusType
  <2>3. TypeOK'
    BY <1>1, <1>2, <2>1, <2>2, TypeNamed, Zenon DEF Typed
  <2>4. StreamedAnswer' /\ CollectedAnswer'
    BY <1>1, <1>2, <1>4, <2>1, Zenon DEF StreamedAnswer, CollectedAnswer
  <2> QED
    BY <1>3, <2>3, <2>4 DEF Inv
<1>5. CASE stream
  <2>1. /\ answer' = answer /\ scan' = Flush.scan
        /\ frames' = frames \o <<Flush.frames, <<Error("no output")>>>>
    BY <1>5, Zenon DEF Broken, EndStream
  <2>2. Ending(lines, FALSE) = <<Error("no output")>>
    BY Zenon DEF Ending
  <2>3. Streamed(lines, frames', FALSE) /\ frames' \in Seq(Seq(Frame))
    <3>1. Len(lines) \in {Len(lines), Len(lines) + 1} /\ Len(lines) # Len(lines) + 1
      BY <1>2
    <3>2. frames' = frames \o <<Flush.frames, Ending(lines, FALSE)>>
      BY <2>1, <2>2, Zenon
    <3> QED
      BY <1>1, <1>2, <1>5, <3>1, <3>2, StreamEnds, Zenon
  <2>4. StreamedAnswer'
    BY <1>1, <1>2, <2>3, StreamedStates, Zenon
  <2>5. CollectedAnswer'
    BY <1>1, <1>5, Zenon DEF CollectedAnswer
  <2>6. answer' \in Answers
    BY <2>1, TypeNamed, Zenon DEF Inv, Typed
  <2>7. TypeOK'
    BY <1>1, <1>2, <2>1, <2>3, <2>6, TypeNamed, Zenon DEF Typed
  <2> QED
    BY <1>3, <2>4, <2>5, <2>7 DEF Inv
<1> QED
  BY <1>4, <1>5

\* A data line only lengthens the block.
LEMMA DataLineStep ==
    ASSUME NEW l \in Lines, l # Blank
    PROVE  Inv /\ ReadLine(l) => Inv'
<1> SUFFICES ASSUME Inv, ReadLine(l) PROVE Inv'
  OBVIOUS
<1>1. /\ pc = "reading" /\ pc' = "reading" /\ lines' = Append(lines, l)
      /\ scan' = [scan EXCEPT !.dataLines = Append(@, l)]
      /\ frames' = Append(frames, <<>>)
      /\ answer' = answer /\ stream' = stream /\ whole' = whole
  BY DEF ReadLine
<1>2. PICK n \in Nat : n = Len(lines)
  BY <1>1, WhileReading
<1>3. PICK ev : ev = EventsOf(lines)
  BY Zenon
<1>4. PICK ew : ew = EventsOf(Append(lines, l))
  BY Zenon
<1>5. /\ lines \in Seq(Lines) /\ frames \in Seq(Seq(Frame)) /\ Len(frames) = n
      /\ stream \in BOOLEAN /\ whole = FALSE /\ scan \in Scan /\ scan.dataLines \in Seq(Lines)
      /\ Holds(scan.dataLines, lines)
      /\ Accumulated(ev, scan, n)
      /\ stream => \A t \in 1..n : AreFrames(ev, frames[t], t) /\ (Completes(ev, t) => HasImage(ev, t))
  BY <1>1, <1>2, <1>3, WhileReading, Zenon
<1>6. /\ \A t \in 1..n : ew[t] = ev[t]
      /\ ew[n + 1] = None
      /\ Holds(Append(scan.dataLines, l), Append(lines, l))
  BY <1>2, <1>3, <1>4, <1>5, LineRead
<1>7. /\ scan' \in Scan /\ scan'.dataLines = Append(scan.dataLines, l)
      /\ scan'.results = scan.results /\ scan'.usage = scan.usage /\ scan'.completed = scan.completed
  <2>1. Append(scan.dataLines, l) \in Seq(Lines)
    BY <1>5
  <2> QED
    BY <1>1, <1>5, <2>1, Zenon DEF Scan
<1>8. lines' \in Seq(Lines) /\ Len(lines') = n + 1
  BY <1>1, <1>2, <1>5, OneMore
<1>9. /\ frames' \in Seq(Seq(Frame)) /\ Len(frames') = n + 1
      /\ \A t \in 1..n : frames'[t] = frames[t]
      /\ frames'[n + 1] = <<>>
  <2>1. PICK T : T = Seq(Frame)
    BY Zenon
  <2>2. PICK a \in T : a = <<>>
    <3>1. <<>> \in T
      BY <2>1
    <3> QED
      BY <3>1
  <2>3. PICK fs \in Seq(T) : fs = frames /\ Len(fs) = n
    BY <1>5, <2>1
  <2>4. PICK gs : gs = Append(fs, a)
    BY Zenon
  <2>5. gs \in Seq(T) /\ Len(gs) = n + 1 /\ (\A t \in 1..n : gs[t] = fs[t]) /\ gs[n + 1] = a
    BY <2>3, <2>4, OneMore
  <2>6. frames' = gs
    BY <1>1, <2>2, <2>3, <2>4
  <2> QED
    BY <2>1, <2>2, <2>3, <2>5, <2>6, Zenon
<1>10. PICK s : s = scan'
  BY Zenon
<1>11. Accumulated(ew, s, n + 1)
  <2>1. Accumulated(ev, s, n)
    BY <1>5, <1>7, <1>10, Zenon DEF Accumulated
  <2>2. Accumulated(ew, s, n)
    BY <1>2, <1>6, <2>1, AccumulatedAgrees, Zenon
  <2> QED
    BY <1>2, <1>6, <2>2, Skipped, Zenon
<1>12. ASSUME stream, NEW t \in 1..(n + 1)
       PROVE  AreFrames(ew, frames'[t], t) /\ (Completes(ew, t) => HasImage(ew, t))
  <2>1. CASE t \in 1..n
    <3>1. t \in Nat \ {0} /\ \A u \in 1..t : ev[u] = ew[u]
      BY <1>2, <1>6, <2>1
    <3>2. AreFrames(ew, frames'[t], t)
      BY <1>5, <1>9, <1>12, <2>1, <3>1, FramesAgree, Zenon
    <3>3. Completes(ew, t) => HasImage(ew, t)
      BY <1>5, <1>12, <2>1, <3>1, ImageAgrees, Zenon
    <3> QED
      BY <3>2, <3>3, Zenon
  <2>2. CASE t = n + 1
    <3>1. ~Completes(ew, t)
      BY <1>6, <2>2, Zenon DEF Completes
    <3> QED
      BY <1>6, <1>9, <2>2, <3>1, Zenon DEF AreFrames
  <2> QED
    BY <1>2, <2>1, <2>2
<1>13. TypeOK'
  <2>1. answer' \in Answers
    BY <1>1, TypeNamed, Zenon DEF Inv, Typed
  <2> QED
    BY <1>1, <1>5, <1>7, <1>8, <1>9, <2>1, TypeNamed, Zenon DEF Typed
<1>14. PhaseInv'
  BY <1>1, Zenon DEF Inv, PhaseInv
<1>15. BlockInv'
  BY <1>1, <1>6, <1>7, Zenon DEF BlockInv
<1>16. AccInv'
  BY <1>1, <1>4, <1>8, <1>10, <1>11 DEF AccInv
<1>17. FramesInv'
  BY <1>1, <1>4, <1>8, <1>9, <1>12, Zenon DEF FramesInv
<1>18. CollectedAnswer' /\ StreamedAnswer'
  BY <1>1, Zenon DEF CollectedAnswer, StreamedAnswer
<1> QED
  BY <1>13, <1>14, <1>15, <1>16, <1>17, <1>18 DEF Inv

\* An empty line flushes the block: its event is the one that ends there.
LEMMA BlankLineStep == Inv /\ ReadLine(Blank) => Inv'
<1> SUFFICES ASSUME Inv, ReadLine(Blank) PROVE Inv'
  OBVIOUS
<1>1. /\ pc = "reading" /\ lines' = Append(lines, Blank) /\ scan' = Flush.scan
      /\ answer' = answer /\ stream' = stream /\ whole' = whole
      /\ IF Flush.failed
         THEN pc' = "answered" /\ frames' = frames \o <<Flush.frames, <<Error("no output")>>>>
         ELSE pc' = pc /\ frames' = Append(frames, Flush.frames)
  BY Zenon DEF ReadLine, EndStream
<1>2. PICK n \in Nat : n = Len(lines)
  BY <1>1, WhileReading, Zenon
<1>3. PICK ev : ev = EventsOf(lines)
  BY Zenon
<1>4. PICK ls : ls = Append(lines, Blank)
  BY Zenon
<1>5. PICK ew : ew = EventsOf(ls)
  BY Zenon
<1>6. PICK s : s = Flush.scan
  BY Zenon
<1>7. /\ lines \in Seq(Lines) /\ frames \in Seq(Seq(Frame)) /\ Len(frames) = n
      /\ stream \in BOOLEAN /\ whole = FALSE /\ scan.dataLines \in Seq(Lines)
      /\ Holds(scan.dataLines, lines)
      /\ stream => \A t \in 1..n : AreFrames(ev, frames[t], t) /\ (Completes(ev, t) => HasImage(ev, t))
      /\ s \in Scan /\ s.dataLines = <<>> /\ Accumulated(ev, s, n + 1)
      /\ Flush.frames \in Seq(Frame)
      /\ stream => AreFrames(ev, Flush.frames, n + 1)
      /\ Flush.failed <=> stream /\ Completes(ev, n + 1) /\ ~HasImage(ev, n + 1)
  BY <1>1, <1>2, <1>3, <1>6, WhileReading, Zenon
<1>8. Blank \in Lines
  BY DEF Lines
<1>9. ls \in Seq(Lines) /\ Len(ls) = n + 1
  BY <1>2, <1>4, <1>7, <1>8, OneMore
<1>10. Holds(<<>>, ls)
  BY <1>4, <1>7, <1>8, LineRead, Zenon
<1>11. \A t \in 1..(n + 1) : ev[t] = ew[t]
  <2>1. \A t \in 1..n : ew[t] = ev[t]
    BY <1>2, <1>3, <1>4, <1>5, <1>7, <1>8, LineRead, Zenon
  <2>2. ew[n + 1] = Decode(scan.dataLines)
    BY <1>2, <1>4, <1>5, <1>7, <1>8, LineRead
  <2>3. ev[n + 1] = Decode(scan.dataLines)
    BY <1>2, <1>3, <1>7, HeldEvent, Zenon
  <2>4. \A t \in 1..(n + 1) : t \in 1..n \/ t = n + 1
    BY <1>2
  <2> QED
    BY <2>1, <2>2, <2>3, <2>4, Zenon
<1>12. n + 1 \in Nat
  BY <1>2
<1>13. Accumulated(ew, s, n + 1)
  BY <1>7, <1>11, <1>12, AccumulatedAgrees, Zenon
<1>14. answer' \in Answers
  BY <1>1, TypeNamed, Zenon DEF Inv, Typed
<1>15. CASE ~Flush.failed
  <2>1. pc' = "reading" /\ frames' = Append(frames, Flush.frames)
    BY <1>1, <1>15, Zenon
  <2>2. /\ frames' \in Seq(Seq(Frame)) /\ Len(frames') = n + 1
        /\ \A t \in 1..n : frames'[t] = frames[t]
        /\ frames'[n + 1] = Flush.frames
    <3>1. PICK T : T = Seq(Frame)
      BY Zenon
    <3>2. PICK a \in T : a = Flush.frames
      BY <1>7, <3>1, Zenon
    <3>3. PICK fs \in Seq(T) : fs = frames /\ Len(fs) = n
      BY <1>7, <3>1, Zenon
    <3>4. PICK gs : gs = Append(fs, a)
      BY Zenon
    <3>5. gs \in Seq(T) /\ Len(gs) = n + 1 /\ (\A t \in 1..n : gs[t] = fs[t]) /\ gs[n + 1] = a
      BY <3>3, <3>4, OneMore
    <3>6. frames' = gs
      BY <2>1, <3>2, <3>3, <3>4
    <3> QED
      BY <3>1, <3>2, <3>3, <3>5, <3>6, Zenon
  <2>3. ASSUME stream, NEW t \in 1..(n + 1)
        PROVE  AreFrames(ew, frames'[t], t) /\ (Completes(ew, t) => HasImage(ew, t))
    <3>1. AreFrames(ev, frames'[t], t) /\ (Completes(ev, t) => HasImage(ev, t))
      <4>1. t \in 1..n \/ t = n + 1
        BY <1>2
      <4> QED
        BY <1>7, <1>15, <2>2, <2>3, <4>1, Zenon
    <3>2. t \in Nat \ {0} /\ \A u \in 1..t : ev[u] = ew[u]
      BY <1>2, <1>11
    <3> QED
      BY <3>1, <3>2, FramesAgree, ImageAgrees, Zenon
  <2>4. TypeOK'
    BY <1>1, <1>4, <1>6, <1>7, <1>9, <1>14, <2>1, <2>2, TypeNamed, Zenon DEF Typed
  <2>5. PhaseInv'
    BY <1>1, <2>1, Zenon DEF Inv, PhaseInv
  <2>6. BlockInv'
    BY <1>1, <1>4, <1>6, <1>7, <1>10, Zenon DEF BlockInv
  <2>7. AccInv'
    BY <1>1, <1>4, <1>5, <1>6, <1>9, <1>13, Zenon DEF AccInv
  <2>8. FramesInv'
    BY <1>1, <1>4, <1>5, <1>9, <2>2, <2>3, Zenon DEF FramesInv
  <2>9. CollectedAnswer' /\ StreamedAnswer'
    BY <2>1, Zenon DEF CollectedAnswer, StreamedAnswer
  <2> QED
    BY <2>4, <2>5, <2>6, <2>7, <2>8, <2>9 DEF Inv
<1>16. CASE Flush.failed
  <2>1. pc' = "answered" /\ stream /\ frames' = frames \o <<Flush.frames, <<Error("no output")>>>>
    BY <1>1, <1>7, <1>16, Zenon
  <2>2. Ending(ls, FALSE) = <<Error("no output")>>
    BY Zenon DEF Ending
  <2>3. EventsOf(ls)[Len(ls) + 1] = None
    <3>1. <<>> \in Seq(Lines) /\ Decode(<<>>) = None
      BY DEF Decode
    <3> QED
      BY <1>9, <1>10, <3>1, HeldEvent, Zenon
  <2>4. Streamed(ls, frames', FALSE) /\ frames' \in Seq(Seq(Frame))
    <3>1. Len(ls) \in {Len(lines), Len(lines) + 1}
      BY <1>2, <1>9
    <3>2. frames' = frames \o <<Flush.frames, Ending(ls, FALSE)>>
      BY <2>1, <2>2, Zenon
    <3>3. \A t \in 1..(Len(lines) + 1) : EventsOf(ls)[t] = EventsOf(lines)[t]
      BY <1>2, <1>3, <1>5, <1>11, Zenon
    <3> QED
      BY <1>1, <1>9, <2>1, <2>3, <3>1, <3>2, <3>3, StreamEnds, Zenon
  <2>5. StreamedAnswer'
    BY <1>1, <1>4, <1>7, <2>4, StreamedStates, Zenon
  <2>6. CollectedAnswer'
    BY <1>1, <2>1, Zenon DEF CollectedAnswer
  <2>7. PhaseInv' /\ BlockInv' /\ AccInv' /\ FramesInv'
    BY <2>1, Zenon DEF PhaseInv, BlockInv, AccInv, FramesInv
  <2>8. TypeOK'
    <3>1. /\ pc' = "answered" /\ stream' \in BOOLEAN /\ whole' \in BOOLEAN /\ scan' \in Scan
          /\ frames' \in Seq(Seq(Frame)) /\ answer' \in Answers /\ lines' \in Seq(Lines)
      BY <1>1, <1>4, <1>6, <1>7, <1>9, <1>14, <2>1, <2>4, Zenon
    <3> QED
      BY <3>1, TypeNamed, Zenon DEF Typed
  <2> QED
    BY <2>5, <2>6, <2>7, <2>8 DEF Inv
<1> QED
  BY <1>15, <1>16

-----------------------------------------------------------------------------
(* Theorems                                                                *)

LEMMA InitInv == Init => Inv
<1> SUFFICES ASSUME Init PROVE Inv
  OBVIOUS
<1>1. PhaseInv /\ BlockInv /\ AccInv /\ FramesInv
  BY Zenon DEF Init, PhaseInv, BlockInv, AccInv, FramesInv
<1>2. CollectedAnswer /\ StreamedAnswer
  <2>1. pc # "answered"
    BY Zenon DEF Init
  <2> QED
    BY <2>1, Zenon DEF CollectedAnswer, StreamedAnswer
<1>3. TypeOK
  <2>1. answer \in Answers
    <3>1. answer = Status(0)
      BY DEF Init, Status, NoAnswer
    <3> QED
      BY <3>1, StatusType
  <2>2. /\ <<>> \in Seq(Lines) /\ <<>> \in Seq(Images) /\ <<>> \in Seq(Seq(Frame))
    OBVIOUS
  <2>3. scan \in Scan
    BY <2>2, Zenon DEF Init, Scan
  <2> QED
    BY <2>1, <2>2, <2>3, TypeNamed, Zenon DEF Init, Typed
<1> QED
  BY <1>1, <1>2, <1>3 DEF Inv

\* Every step of the handler and of the upstream keeps the invariant.
LEMMA NextInv == Inv /\ [Next]_vars => Inv'
<1> SUFFICES ASSUME Inv, [Next]_vars PROVE Inv'
  OBVIOUS
<1>1. ASSUME NEW q \in Request, Prepare(q) PROVE Inv'
  BY <1>1, PrepareStep
<1>2. CASE Call
  BY <1>2, CallStep
<1>3. ASSUME NEW l \in Lines, ReadLine(l) PROVE Inv'
  <2>1. CASE l = Blank
    BY <1>3, <2>1, BlankLineStep
  <2>2. CASE l # Blank
    BY <1>3, <2>2, DataLineStep
  <2> QED
    BY <2>1, <2>2
<1>4. CASE EndOfBody
  BY <1>4, EndOfBodyStep
<1>5. CASE Broken
  BY <1>5, BrokenStep
<1>6. CASE UNCHANGED vars
  <2>1. /\ pc' = pc /\ stream' = stream /\ scan' = scan /\ frames' = frames
        /\ answer' = answer /\ lines' = lines /\ whole' = whole
    BY <1>6 DEF vars
  <2>2. TypeOK'
    BY <2>1, TypeNamed, Zenon DEF Inv, Typed
  <2>3. PhaseInv'
    BY <2>1, Zenon DEF Inv, PhaseInv
  <2>4. BlockInv' /\ AccInv' /\ FramesInv'
    BY <2>1, Zenon DEF Inv, BlockInv, AccInv, FramesInv
  <2>5. CollectedAnswer'
    BY <2>1 DEF Inv, CollectedAnswer
  <2>6. StreamedAnswer'
    <3>1. (pc = "answered" /\ stream /\ answer.status = 200) => Streamed(lines, frames, whole)
      BY Zenon DEF Inv, StreamedAnswer, Streamed, Ending
    <3> QED
      BY <2>1, <3>1, StreamedStates
  <2> QED
    BY <2>2, <2>3, <2>4, <2>5, <2>6, Zenon DEF Inv
<1> QED
  BY <1>1, <1>2, <1>3, <1>4, <1>5, <1>6, Zenon DEF Next

\* The inductive invariant: at every line the handler has taken in exactly the events
\* that end by that line, and has streamed their frames at the lines they end at.
THEOREM Invariance == Spec => []Inv
BY InitInv, NextInv, PTL DEF Spec

\* The handler's state keeps its types, whatever the upstream sends.
THEOREM TypeCorrect == Spec => []TypeOK
<1>1. Inv => TypeOK
  BY DEF Inv
<1> QED
  BY <1>1, Invariance, PTL

\* The collected answer is a success exactly when the body was read to its end, completed
\* and held an image, and then it has each image once, in order, and the right usage, for
\* every body: any events, however many lines, split and interleaved in any way.
THEOREM CollectedIsRight == Spec => []CollectedAnswer
<1>1. Inv => CollectedAnswer
  BY DEF Inv
<1> QED
  BY <1>1, Invariance, PTL

\* The streamed answer has, at the line where each event ends, the frames of that event,
\* and ends with an error frame exactly when it has to, for every body.
THEOREM StreamedIsRight == Spec => []StreamedAnswer
<1>1. Inv => StreamedAnswer
  BY DEF Inv
<1> QED
  BY <1>1, Invariance, PTL
=============================================================================
