--------------------------- MODULE Parser_proofs ---------------------------
(***************************************************************************)
(* The parser of the category file against the file itself: the blocks are *)
(* the headings with the lines under them, and the categories are what the *)
(* headings stand for.                                                     *)
(***************************************************************************)
EXTENDS Jobs_proofs

\* The headings among the first lines, and the place of one among all of them.
HeadsTo(n) == {k \in Headings : k <= n}
HeadPlace(k) == Cardinality(HeadsTo(k))

\* What a block holds when the lines to n have been split: its heading's name and
\* the lines under the heading so far.
HoldsTo(block, k, n) ==
    /\ block.name = file[k]
    /\ Len(block.body) <= n - k
    /\ \A i \in 1 .. n - k : i <= Len(block.body) <=> k + i \in Under(k)
    /\ \A i \in 1 .. Len(block.body) : block.body[i] = file[k + i]

\* The first n lines are split into one block per heading, in their order.
SplitTo(blocks, n) ==
    /\ n \in 0 .. Len(file)
    /\ \A i \in 1 .. n : file[i] # "malformed"
    /\ Len(blocks) = Cardinality(HeadsTo(n))
    /\ \A i \in DOMAIN blocks : \E k \in HeadsTo(n) : HeadPlace(k) = i
    /\ blocks # <<>> => \E m \in HeadsTo(n) : \A k \in HeadsTo(n) : k <= m
    /\ \A k \in HeadsTo(n) : HoldsTo(blocks[HeadPlace(k)], k, n)

\* The proper headings among the first headings, and the place of one among all.
Done(i) == {k \in Proper : HeadPlace(k) <= i}
ProperPlace(k) == Cardinality({j \in Proper : j <= k})

\* The first i blocks are built into one category per proper heading.
BuiltTo(built, seen, i) ==
    /\ Len(built) = Cardinality(Done(i))
    /\ seen = {Lower[file[k]] : k \in Done(i)}
    /\ \A k \in Done(i) : Bullets(k) # {} /\ built[ProperPlace(k)] = CategoryAt(k)
    /\ \A j, k \in Done(i) : Lower[file[j]] = Lower[file[k]] => j = k

\* The inductive invariant: how far the parse in progress agrees with the file.
AgreeInv ==
    /\ parse.pc = "split" =>
          SplitTo(parse.blocks, parse.at) /\ parse.built = <<>> /\ parse.seen = {}
    /\ parse.pc = "build" =>
          /\ SplitTo(parse.blocks, Len(file)) /\ parse.at <= Len(parse.blocks)
          /\ BuiltTo(parse.built, parse.seen, parse.at)
    /\ ParserAgrees

----------------------------------------------------------------------------
(***************************************************************************)
(* Places                                                                  *)
(***************************************************************************)

\* The places of the members of a set of indices are in their order.
LEMMA PlacesOrdered ==
    ASSUME NEW n \in Nat, NEW A \in SUBSET (1 .. n),
           NEW k \in A, NEW l \in A, k < l
    PROVE  Cardinality({j \in A : j <= k}) < Cardinality({j \in A : j <= l})
  <1> DEFINE B == {j \in A : j <= k}
             C == {j \in A : j <= l}
  <1>1. IsFiniteSet(A)
    <2>1. IsFiniteSet(1 .. n)
      BY FS_Interval
    <2> QED  BY <2>1, FS_Subset
  <1>2. IsFiniteSet(C) /\ Cardinality(C) \in Nat
    BY <1>1, FS_Subset, FS_CardinalityType
  <1>3. B \subseteq C /\ l \in C /\ l \notin B
    <2>1. \A j \in A : j \in Int
      OBVIOUS
    <2>2. \A j \in A : j <= k => j <= l
      BY <2>1
    <2>3. l <= l /\ ~(l <= k)
      BY <2>1
    <2> QED  BY <2>2, <2>3
  <1>4. Cardinality(B) <= Cardinality(C) /\ Cardinality(B) # Cardinality(C)
    BY <1>2, <1>3, FS_Subset
  <1>5. IsFiniteSet(B) /\ Cardinality(B) \in Nat
    BY <1>2, <1>3, FS_Subset, FS_CardinalityType
  <1> QED  BY <1>2, <1>4, <1>5

\* The headings are lines of the file, and their places are in their order.
LEMMA HeadPlaces ==
    ASSUME FileType
    PROVE  /\ Len(file) \in Nat /\ Headings \in SUBSET (1 .. Len(file))
           /\ Cardinality(Headings) \in Nat
           /\ \A k \in Headings : HeadPlace(k) \in 1 .. Cardinality(Headings)
           /\ \A k, l \in Headings : k < l <=> HeadPlace(k) < HeadPlace(l)
           /\ \A k, l \in Headings : HeadPlace(k) = HeadPlace(l) => k = l
  <1>1. Len(file) \in Nat /\ Headings \in SUBSET (1 .. Len(file))
    BY DEF FileType, Headings
  <1>2. /\ Cardinality(Headings) \in Nat
        /\ \A k \in Headings : HeadPlace(k) \in 1 .. Cardinality(Headings)
    BY <1>1, Places DEF HeadPlace, HeadsTo
  <1>3. \A k, l \in Headings : k < l => HeadPlace(k) < HeadPlace(l)
    BY <1>1, PlacesOrdered DEF HeadPlace, HeadsTo
  <1>4. \A k, l \in Headings : k < l \/ l < k \/ k = l
    BY <1>1
  <1> QED  BY <1>1, <1>2, <1>3, <1>4

\* What one more line does to the headings among the first lines.
LEMMA HeadStep ==
    ASSUME FileType, NEW n \in 0 .. Len(file) - 1
    PROVE  /\ HeadsTo(n) \in SUBSET (1 .. n) /\ Cardinality(HeadsTo(n)) \in Nat
           /\ file[n + 1] \in Names =>
                 /\ HeadsTo(n + 1) = HeadsTo(n) \cup {n + 1}
                 /\ HeadPlace(n + 1) = Cardinality(HeadsTo(n)) + 1
           /\ file[n + 1] \notin Names => HeadsTo(n + 1) = HeadsTo(n)
           /\ \A k \in HeadsTo(n) : HeadPlace(k) \in 1 .. Cardinality(HeadsTo(n))
  <1>1. Len(file) \in Nat /\ n \in Nat /\ Headings \in SUBSET (1 .. Len(file))
    BY DEF FileType, Headings
  <1>2. HeadsTo(n) \in SUBSET (1 .. n)
    <2>1. \A k \in Headings : k <= n => k \in 1 .. n
      BY <1>1
    <2> QED  BY <2>1 DEF HeadsTo
  <1>3. ASSUME NEW k \in HeadsTo(n)
        PROVE  HeadsTo(k) = {j \in HeadsTo(n) : j <= k}
    <2>1. k \in 1 .. n
      BY <1>2
    <2>2. \A j \in Headings : j <= k => j <= n
      BY <1>1, <2>1
    <2> QED  BY <2>2 DEF HeadsTo
  <1>4. /\ Cardinality(HeadsTo(n)) \in Nat
        /\ Cardinality(HeadsTo(n) \cup {n + 1}) = Cardinality(HeadsTo(n)) + 1
        /\ \A k \in HeadsTo(n) :
              Cardinality({j \in HeadsTo(n) : j <= k}) \in 1 .. Cardinality(HeadsTo(n))
    BY <1>1, <1>2, Places
  <1>5. \A k \in 1 .. Len(file) : k <= n + 1 <=> k <= n \/ k = n + 1
    BY <1>1
  <1>6. file[n + 1] \in Names <=> n + 1 \in Headings
    BY <1>1 DEF Headings, FileType
  <1>7. file[n + 1] \in Names => HeadsTo(n + 1) = HeadsTo(n) \cup {n + 1}
    BY <1>1, <1>5, <1>6 DEF HeadsTo
  <1>8. file[n + 1] \notin Names => HeadsTo(n + 1) = HeadsTo(n)
    BY <1>1, <1>5, <1>6 DEF HeadsTo
  <1> QED  BY <1>2, <1>3, <1>4, <1>7, <1>8 DEF HeadPlace

----------------------------------------------------------------------------
(***************************************************************************)
(* The split                                                               *)
(***************************************************************************)

\* A block that the next line is not for holds what it should after it as well.
LEMMA HoldsStays ==
    ASSUME FileType, NEW n \in 0 .. Len(file) - 1, NEW k \in HeadsTo(n),
           NEW block \in Block, HoldsTo(block, k, n), n + 1 \notin Under(k)
    PROVE  HoldsTo(block, k, n + 1)
  <1>1. Len(file) \in Nat /\ n \in Nat /\ k \in 1 .. n /\ Len(block.body) \in Nat
    BY HeadStep DEF FileType, Block
  <1>2. \A i \in 1 .. n + 1 - k : i \in 1 .. n - k \/ i = n + 1 - k
    BY <1>1
  <1>3. k + (n + 1 - k) = n + 1 /\ ~(n + 1 - k <= Len(block.body))
    BY <1>1 DEF HoldsTo
  <1>4. \A i \in 1 .. n + 1 - k : i <= Len(block.body) <=> k + i \in Under(k)
    <2> SUFFICES ASSUME NEW i \in 1 .. n + 1 - k
                 PROVE  i <= Len(block.body) <=> k + i \in Under(k)
      OBVIOUS
    <2>1. CASE i \in 1 .. n - k
      BY <2>1 DEF HoldsTo
    <2>2. CASE i = n + 1 - k
      BY <1>3, <2>2
    <2> QED  BY <1>2, <2>1, <2>2
  <1>5. Len(block.body) <= n + 1 - k
    BY <1>1 DEF HoldsTo
  <1> QED  BY <1>1, <1>4, <1>5 DEF HoldsTo

\* A line that is a heading begins a block of its own (_split_into_blocks).
LEMMA SplitHeading ==
    ASSUME FileType, NEW n \in 0 .. Len(file) - 1, NEW blocks \in Seq(Block),
           SplitTo(blocks, n), file[n + 1] \in Names
    PROVE  SplitTo(Append(blocks, [name |-> file[n + 1], body |-> <<>>]), n + 1)
  <1> DEFINE new == [name |-> file[n + 1], body |-> <<>>]
             more == Append(blocks, new)
  <1>1. /\ Len(file) \in Nat /\ n \in Nat /\ Headings \in SUBSET (1 .. Len(file))
        /\ n + 1 \in Headings
    BY DEF FileType, Headings
  <1>2. new \in Block
    BY DEF Block
  <1>3. /\ HeadsTo(n) \in SUBSET (1 .. n)
        /\ HeadsTo(n + 1) = HeadsTo(n) \cup {n + 1}
        /\ HeadPlace(n + 1) = Len(blocks) + 1
        /\ \A k \in HeadsTo(n) : HeadPlace(k) \in 1 .. Len(blocks)
    BY HeadStep DEF SplitTo
  <1>4. /\ Len(more) = Len(blocks) + 1 /\ more[Len(blocks) + 1] = new
        /\ \A i \in 1 .. Len(blocks) : more[i] = blocks[i]
        /\ DOMAIN more = 1 .. Len(blocks) + 1 /\ DOMAIN blocks = 1 .. Len(blocks)
        /\ Len(blocks) \in Nat
    BY <1>2
  <1> HIDE DEF more
  <1>5. Len(more) = Cardinality(HeadsTo(n + 1))
    BY <1>1, <1>3, <1>4, HeadPlaces DEF HeadPlace
  <1>6. \A i \in 1 .. n + 1 : file[i] # "malformed"
    <2>1. file[n + 1] # "malformed"
      BY CategoryAssumption DEF Others
    <2>2. \A i \in 1 .. n + 1 : i \in 1 .. n \/ i = n + 1
      BY <1>1
    <2> QED  BY <2>1, <2>2 DEF SplitTo
  <1>7. \A i \in DOMAIN more : \E k \in HeadsTo(n + 1) : HeadPlace(k) = i
    <2>1. \A i \in DOMAIN more : i \in DOMAIN blocks \/ i = Len(blocks) + 1
      BY <1>4
    <2> QED  BY <1>3, <2>1 DEF SplitTo
  <1>8. \E m \in HeadsTo(n + 1) : \A k \in HeadsTo(n + 1) : k <= m
    BY <1>1, <1>3
  <1>9. ASSUME NEW k \in HeadsTo(n + 1)
        PROVE  HoldsTo(more[HeadPlace(k)], k, n + 1)
    <2>1. CASE k = n + 1
      <3>1. more[HeadPlace(k)] = new
        BY <1>3, <1>4, <2>1
      <3> HIDE DEF new
      <3>2. new.name = file[k] /\ new.body = <<>>
        BY <2>1 DEF new
      <3> QED  BY <1>1, <2>1, <3>1, <3>2 DEF HoldsTo
    <2>2. CASE k # n + 1
      <3>1. k \in HeadsTo(n)
        BY <1>3, <2>2
      <3>2. more[HeadPlace(k)] = blocks[HeadPlace(k)]
        BY <1>3, <1>4, <3>1
      <3>3. n + 1 \notin Under(k)
        BY <1>1, <1>3, <3>1 DEF Under
      <3>4. blocks[HeadPlace(k)] \in Block /\ HoldsTo(blocks[HeadPlace(k)], k, n)
        BY <1>3, <3>1 DEF SplitTo
      <3> QED  BY <3>1, <3>2, <3>3, <3>4, HoldsStays
    <2> QED  BY <2>1, <2>2
  <1>10. n + 1 \in 0 .. Len(file)
    BY <1>1
  <1> QED  BY <1>5, <1>6, <1>7, <1>8, <1>9, <1>10 DEF SplitTo, more

\* Any other line goes to the last block, which is the last heading's.
LEMMA SplitOther ==
    ASSUME FileType, NEW n \in 0 .. Len(file) - 1, NEW blocks \in Seq(Block),
           SplitTo(blocks, n), file[n + 1] \in Others, file[n + 1] # "malformed",
           blocks # <<>>
    PROVE  SplitTo([blocks EXCEPT ![Len(blocks)].body = Append(@, file[n + 1])], n + 1)
  <1> DEFINE last == Len(blocks)
             old == blocks[last]
             new == [old EXCEPT !.body = Append(@, file[n + 1])]
             more == [blocks EXCEPT ![last].body = Append(@, file[n + 1])]
  <1>1. /\ Len(file) \in Nat /\ n \in Nat /\ Headings \in SUBSET (1 .. Len(file))
        /\ n + 1 \notin Headings /\ file[n + 1] \notin Names
    BY CategoryAssumption DEF FileType, Headings
  <1>2. /\ HeadsTo(n) \in SUBSET (1 .. n) /\ HeadsTo(n + 1) = HeadsTo(n)
        /\ \A k \in HeadsTo(n) : HeadPlace(k) \in 1 .. last
        /\ last = Cardinality(HeadsTo(n)) /\ last \in Nat
    BY <1>1, HeadStep DEF SplitTo
  <1>3. last \in DOMAIN blocks /\ old \in Block /\ DOMAIN blocks = 1 .. last
    OBVIOUS
  <1>4. new \in Block
    BY <1>3, BlockTakesLine
  <1>5. /\ new.name = old.name /\ new.body = Append(old.body, file[n + 1])
        /\ old.body \in Seq(Others)
    BY <1>3 DEF Block
  <1>6. /\ Len(more) = last /\ more[last] = new /\ DOMAIN more = DOMAIN blocks
        /\ \A i \in 1 .. last : i # last => more[i] = blocks[i]
    BY <1>3
  <1> HIDE DEF more, new, old
  <1>7. PICK m \in HeadsTo(n) : \A k \in HeadsTo(n) : k <= m
    BY DEF SplitTo
  <1>8. HeadPlace(m) = last /\ \A k \in HeadsTo(n) : k # m => HeadPlace(k) # last
    <2>1. HeadsTo(m) = HeadsTo(n)
      <3>1. m <= n /\ m \in Nat
        BY <1>2
      <3>2. \A k \in Headings : k <= m <=> k <= n
        BY <1>1, <1>2, <1>7, <3>1 DEF HeadsTo
      <3> QED  BY <3>2 DEF HeadsTo
    <2>2. \A k \in HeadsTo(n) : HeadPlace(k) = HeadPlace(m) => k = m
      BY HeadPlaces DEF HeadsTo
    <2> QED  BY <1>2, <2>1, <2>2 DEF HeadPlace
  <1>9. ASSUME NEW k \in HeadsTo(n)
        PROVE  HoldsTo(more[HeadPlace(k)], k, n + 1)
    <2>1. HoldsTo(blocks[HeadPlace(k)], k, n) /\ blocks[HeadPlace(k)] \in Block
      BY <1>2 DEF SplitTo
    <2>2. CASE k # m
      <3>1. more[HeadPlace(k)] = blocks[HeadPlace(k)]
        BY <1>2, <1>6, <1>8, <2>2
      <3>2. n + 1 \notin Under(k)
        <4>1. m \in k + 1 .. n + 1 /\ m \in Headings
          BY <1>1, <1>2, <1>7, <2>2 DEF HeadsTo
        <4> QED  BY <4>1 DEF Under
      <3> QED  BY <2>1, <3>1, <3>2, HoldsStays
    <2>3. CASE k = m
      <3>1. more[HeadPlace(k)] = new /\ HoldsTo(old, m, n)
        BY <1>6, <1>8, <2>1, <2>3 DEF old
      <3>2. m \in 1 .. n /\ m \in Headings
        BY <1>2 DEF HeadsTo
      <3>3. \A i \in 1 .. n + 1 - m : m + i \in Under(m)
        <4> SUFFICES ASSUME NEW i \in 1 .. n + 1 - m
                     PROVE  m + i \in Under(m)
          OBVIOUS
        <4>1. m + i \in DOMAIN file /\ m + i > m /\ m + i \in 1 .. n + 1
          BY <1>1, <3>2 DEF FileType
        <4>2. ASSUME NEW l \in m + 1 .. m + i, l \in Headings
              PROVE  FALSE
          <5>1. l # n + 1
            BY <1>1, <4>2
          <5>2. l \in HeadsTo(n) /\ l > m
            BY <1>1, <3>2, <4>1, <4>2, <5>1 DEF HeadsTo
          <5> QED  BY <1>7, <3>2, <4>2, <5>2
        <4> QED  BY <4>1, <4>2 DEF Under
      <3>4. Len(old.body) = n - m
        <4>1. Len(old.body) \in Nat /\ Len(old.body) <= n - m
          BY <1>5, <3>1 DEF HoldsTo
        <4>2. CASE n - m = 0
          BY <4>1, <4>2
        <4>3. CASE n - m # 0
          <5>1. n - m \in 1 .. n - m /\ n - m \in 1 .. n + 1 - m
            BY <1>1, <3>2, <4>3
          <5> QED  BY <3>1, <3>3, <4>1, <5>1 DEF HoldsTo
        <4> QED  BY <4>2, <4>3
      <3>5. /\ Len(new.body) = n + 1 - m
            /\ new.body[n + 1 - m] = file[n + 1]
            /\ \A i \in 1 .. n - m : new.body[i] = old.body[i]
        BY <1>1, <1>5, <3>2, <3>4
      <3>6. \A i \in 1 .. n + 1 - m : i \in 1 .. n - m \/ i = n + 1 - m
        BY <1>1, <3>2
      <3>7. m + (n + 1 - m) = n + 1
        BY <1>1, <3>2
      <3>8. new.name = file[m] /\ \A i \in 1 .. n - m : old.body[i] = file[m + i]
        BY <1>5, <3>1, <3>4 DEF HoldsTo
      <3>9. \A i \in 1 .. n + 1 - m : new.body[i] = file[m + i]
        BY <3>5, <3>6, <3>7, <3>8
      <3>10. \A i \in 1 .. n + 1 - m : i <= Len(new.body) <=> m + i \in Under(m)
        BY <1>1, <3>2, <3>3, <3>5
      <3>11. HoldsTo(new, m, n + 1)
        <4>1. Len(new.body) <= n + 1 - m
          BY <1>1, <3>2, <3>5
        <4>2. \A i \in 1 .. Len(new.body) : new.body[i] = file[m + i]
          BY <3>5, <3>9
        <4> QED  BY <1>1, <3>2, <3>8, <3>10, <4>1, <4>2 DEF HoldsTo
      <3> QED  BY <2>3, <3>1, <3>11
    <2> QED  BY <2>2, <2>3
  <1>10. \A i \in 1 .. n + 1 : file[i] # "malformed"
    <2>1. \A i \in 1 .. n + 1 : i \in 1 .. n \/ i = n + 1
      BY <1>1
    <2> QED  BY <2>1 DEF SplitTo
  <1>11. n + 1 \in 0 .. Len(file)
    BY <1>1
  <1> QED
    BY <1>2, <1>6, <1>7, <1>9, <1>10, <1>11 DEF SplitTo, more

----------------------------------------------------------------------------
(***************************************************************************)
(* The categories of the headings                                          *)
(***************************************************************************)

\* Moving a set of indices along does not change how many they are.
LEMMA MovedAlong ==
    ASSUME NEW h \in Nat, NEW S \in SUBSET Nat, IsFiniteSet(S),
           NEW T, T = {h + i : i \in S}
    PROVE  IsFiniteSet(T) /\ Cardinality(T) = Cardinality(S)
  <1> DEFINE f == [i \in S |-> h + i]
  <1>1. f \in [S -> T] /\ \A t \in T : \E i \in S : f[i] = t
    OBVIOUS
  <1>2. \A i, j \in S : f[i] = f[j] => i = j
    OBVIOUS
  <1>3. f \in Bijection(S, T)
    BY <1>1, <1>2 DEF Bijection, Injection, Surjection, IsInjective
  <1>4. ExistsBijection(S, T)
    BY <1>3 DEF ExistsBijection
  <1> QED  BY <1>4, FS_Bijection

\* A block that holds what is under a heading is built into the category the heading
\* stands for (_build_category).
LEMMA BlockIsCategory ==
    ASSUME FileType, NEW h \in Headings, NEW block \in Block,
           HoldsTo(block, h, Len(file))
    PROVE  /\ Built(block) = CategoryAt(h)
           /\ Examples(block.body) = 0 <=> Bullets(h) = {}
  <1> DEFINE body == block.body
             D == 1 .. Len(body)
  <1>1. /\ Len(file) \in Nat /\ DOMAIN file = 1 .. Len(file) /\ h \in 1 .. Len(file)
        /\ body \in Seq(Others) /\ DOMAIN body = D /\ Len(body) \in Nat
        /\ Len(body) <= Len(file) - h
    BY DEF FileType, Headings, Block, HoldsTo
  <1>2. \A i \in D : body[i] = file[h + i]
    BY DEF HoldsTo
  <1>3. ASSUME NEW j
        PROVE  j \in Under(h) <=> \E i \in D : j = h + i
    <2>1. ASSUME j \in Under(h)
          PROVE  \E i \in D : j = h + i
      <3>1. j \in 1 .. Len(file) /\ j > h
        BY <1>1, <2>1 DEF Under
      <3>2. j - h \in 1 .. Len(file) - h /\ j = h + (j - h)
        BY <1>1, <3>1
      <3>3. j - h <= Len(body)
        BY <2>1, <3>2 DEF HoldsTo
      <3> QED  BY <1>1, <3>2, <3>3
    <2>2. ASSUME NEW i \in D, j = h + i
          PROVE  j \in Under(h)
      <3>1. i \in 1 .. Len(file) - h /\ i <= Len(body)
        BY <1>1
      <3> QED  BY <2>2, <3>1 DEF HoldsTo
    <2> QED  BY <2>1, <2>2
  <1> HIDE DEF D
  <1>4. D \in SUBSET Nat /\ IsFiniteSet(D)
    <2>1. IsFiniteSet(1 .. Len(body))
      <3>1. Len(body) \in Int
        BY <1>1
      <3> HIDE DEF body
      <3> QED  BY <3>1, FS_Interval
    <2> QED  BY <1>1, <2>1 DEF D
  <1> DEFINE B == {i \in D : body[i] = "bullet"}
             P == {i \in D : body[i] = "text" /\ \A j \in 1 .. i : body[j] # "bullet"}
             Described == {j \in Under(h) :
                              file[j] = "text" /\ \A b \in Bullets(h) : b > j}
  <1>5. Bullets(h) = {h + i : i \in B}
    <2>1. ASSUME NEW j
          PROVE  j \in Bullets(h) <=> \E i \in B : j = h + i
      BY <1>2, <1>3 DEF Bullets
    <2> HIDE DEF B
    <2> QED  BY <2>1
  <1>6. Described = {h + i : i \in P}
    <2>1. ASSUME NEW i \in D
          PROVE  (\A b \in Bullets(h) : b > h + i) <=> \A j \in 1 .. i : body[j] # "bullet"
      <3>1. \A j \in 1 .. i : j \in D
        BY <1>1 DEF D
      <3>2. ASSUME \A b \in Bullets(h) : b > h + i, NEW j \in 1 .. i
            PROVE  body[j] # "bullet"
        <4>1. ~(h + j > h + i)
          BY <1>1
        <4> QED  BY <1>5, <3>1, <3>2, <4>1
      <3>3. ASSUME \A j \in 1 .. i : body[j] # "bullet", NEW k \in B
            PROVE  h + k > h + i
        <4>1. k \notin 1 .. i
          BY <3>3
        <4> QED  BY <1>1, <4>1 DEF D
      <3> QED  BY <1>5, <3>2, <3>3
    <2>2. ASSUME NEW j
          PROVE  j \in Described <=> \E i \in P : j = h + i
      BY <1>2, <1>3, <2>1
    <2> HIDE DEF P, Described
    <2> QED  BY <2>2
  <1>7. /\ Cardinality(Bullets(h)) = Cardinality(B) /\ IsFiniteSet(B)
        /\ Cardinality(Described) = Cardinality(P)
    <2>1. /\ IsFiniteSet(B) /\ IsFiniteSet(P) /\ B \in SUBSET Nat /\ P \in SUBSET Nat
      BY <1>4, FS_Subset
    <2> HIDE DEF B, P, Described
    <2>2. h \in Nat
      BY <1>1
    <2>3. Cardinality(Bullets(h)) = Cardinality(B)
      BY <1>5, <2>1, <2>2, MovedAlong, Zenon
    <2>4. Cardinality(Described) = Cardinality(P)
      BY <1>6, <2>1, <2>2, MovedAlong, Zenon
    <2> QED  BY <2>1, <2>3, <2>4
  <1>8. Examples(body) = Cardinality(B) /\ Prose(body) = Cardinality(P)
    BY <1>1 DEF Examples, Prose, D
  <1>9. B = {} <=> Bullets(h) = {}
    BY <1>5
  <1>10. Cardinality(B) = 0 <=> B = {}
    BY <1>7, FS_EmptySet
  <1>11. block.name = file[h]
    BY DEF HoldsTo
  <1> HIDE DEF B, P
  <1> QED  BY <1>7, <1>8, <1>9, <1>10, <1>11 DEF Built, CategoryAt

----------------------------------------------------------------------------
(***************************************************************************)
(* The build                                                               *)
(***************************************************************************)

\* What one more heading does to the proper headings that are done.
LEMMA DoneStep ==
    ASSUME FileType, NEW i \in Nat, NEW h \in Headings, HeadPlace(h) = i + 1
    PROVE  /\ h \notin Proper => Done(i + 1) = Done(i)
           /\ h \in Proper =>
                 /\ Done(i + 1) = Done(i) \cup {h}
                 /\ Cardinality(Done(i + 1)) = Cardinality(Done(i)) + 1
                 /\ ProperPlace(h) = Cardinality(Done(i)) + 1
           /\ h \notin Done(i) /\ Cardinality(Done(i)) \in Nat
           /\ \A k \in Done(i) : ProperPlace(k) \in 1 .. Cardinality(Done(i))
  <1>1. /\ Proper \subseteq Headings /\ Headings \in SUBSET (1 .. Len(file))
        /\ Len(file) \in Nat
        /\ \A k \in Headings : HeadPlace(k) \in Nat
        /\ \A k, l \in Headings : k < l <=> HeadPlace(k) < HeadPlace(l)
        /\ \A k, l \in Headings : HeadPlace(k) = HeadPlace(l) => k = l
    BY HeadPlaces DEF Proper
  <1>2. Done(i) \in SUBSET (1 .. Len(file)) /\ h \notin Done(i)
    <2>1. Done(i) \subseteq Headings
      BY <1>1 DEF Done
    <2>2. ~(HeadPlace(h) <= i)
      OBVIOUS
    <2> QED  BY <1>1, <2>1, <2>2 DEF Done
  <1>3. \A k \in Proper : HeadPlace(k) <= i + 1 <=> HeadPlace(k) <= i \/ k = h
    BY <1>1
  <1>4. h \notin Proper => Done(i + 1) = Done(i)
    BY <1>3 DEF Done
  <1>5. h \in Proper => Done(i + 1) = Done(i) \cup {h}
    <2> SUFFICES ASSUME h \in Proper PROVE Done(i + 1) = Done(i) \cup {h}
      OBVIOUS
    <2>1. HeadPlace(h) <= i + 1
      OBVIOUS
    <2> QED  BY <1>3, <2>1 DEF Done
  <1>6. IsFiniteSet(Done(i)) /\ Cardinality(Done(i)) \in Nat
    <2>1. IsFiniteSet(1 .. Len(file))
      BY <1>1, FS_Interval
    <2> QED  BY <1>2, <2>1, FS_Subset, FS_CardinalityType
  <1>7. Cardinality(Done(i) \cup {h}) = Cardinality(Done(i)) + 1
    BY <1>2, <1>6, FS_AddElement
  <1>8. h \in Proper => {j \in Proper : j <= h} = Done(i) \cup {h}
    <2>1. \A j \in Proper : j <= h <=> HeadPlace(j) <= i + 1
      BY <1>1
    <2> QED  BY <1>5, <2>1 DEF Done
  <1>9. ASSUME NEW k \in Done(i)
        PROVE  ProperPlace(k) \in 1 .. Cardinality(Done(i))
    <2>1. \A j \in Proper : j <= k => HeadPlace(j) <= i
      BY <1>1 DEF Done
    <2>2. {j \in Proper : j <= k} = {j \in Done(i) : j <= k}
      BY <2>1 DEF Done
    <2>3. Cardinality({j \in Done(i) : j <= k}) \in 1 .. Cardinality(Done(i))
      BY <1>1, <1>2, Places
    <2> QED  BY <2>2, <2>3 DEF ProperPlace
  <1> QED
    BY <1>2, <1>4, <1>5, <1>6, <1>7, <1>8, <1>9 DEF ProperPlace

\* What building a block does: a reserved one is passed over, one that repeats a
\* name or has no example shows the file is not acceptable, and any other becomes
\* the category of its heading (parse_categories).
LEMMA BlockBuilt ==
    ASSUME FileType, NEW blocks \in Seq(Block), SplitTo(blocks, Len(file)),
           NEW built \in Seq(Category), NEW seen, NEW i \in 0 .. Len(blocks) - 1,
           BuiltTo(built, seen, i),
           NEW block, block = blocks[i + 1], NEW lowered, lowered = Lower[block.name]
    PROVE  /\ lowered = Unknown => BuiltTo(built, seen, i + 1)
           /\ lowered # Unknown /\ (lowered \in seen \/ Examples(block.body) = 0)
                 => ~Acceptable
           /\ lowered # Unknown /\ lowered \notin seen /\ Examples(block.body) # 0
                 => BuiltTo(Append(built, Built(block)), seen \cup {lowered}, i + 1)
  <1>1. Len(blocks) \in Nat /\ i \in Nat /\ i + 1 \in DOMAIN blocks /\ block \in Block
    OBVIOUS
  <1>2. PICK h \in HeadsTo(Len(file)) : HeadPlace(h) = i + 1
    BY <1>1 DEF SplitTo
  <1>3. h \in Headings /\ HoldsTo(block, h, Len(file))
    BY <1>2 DEF HeadsTo, SplitTo
  <1>4. /\ Built(block) = CategoryAt(h)
        /\ Examples(block.body) = 0 <=> Bullets(h) = {}
        /\ lowered = Lower[file[h]]
    BY <1>1, <1>3, BlockIsCategory DEF HoldsTo
  <1>5. /\ h \notin Proper => Done(i + 1) = Done(i)
        /\ h \in Proper =>
              /\ Done(i + 1) = Done(i) \cup {h}
              /\ Cardinality(Done(i + 1)) = Cardinality(Done(i)) + 1
              /\ ProperPlace(h) = Cardinality(Done(i)) + 1
        /\ h \notin Done(i) /\ Cardinality(Done(i)) \in Nat
        /\ \A k \in Done(i) : ProperPlace(k) \in 1 .. Cardinality(Done(i))
    BY <1>1, <1>2, <1>3, DoneStep
  <1>6. h \in Proper <=> lowered # Unknown
    BY <1>3, <1>4 DEF Proper
  <1>7. CASE lowered = Unknown
    BY <1>5, <1>6, <1>7 DEF BuiltTo
  <1>8. CASE lowered # Unknown /\ lowered \in seen
    <2>1. PICK k \in Done(i) : Lower[file[k]] = lowered
      BY <1>8 DEF BuiltTo
    <2>2. k \in Proper /\ h \in Proper /\ k # h
      BY <1>5, <1>6, <1>8 DEF Done
    <2> QED  BY <1>4, <1>8, <2>1, <2>2 DEF Acceptable
  <1>9. CASE lowered # Unknown /\ Examples(block.body) = 0 /\ lowered \notin seen
    BY <1>4, <1>6, <1>9 DEF Acceptable
  <1>10. CASE lowered # Unknown /\ lowered \notin seen /\ Examples(block.body) # 0
    <2> DEFINE more == Append(built, Built(block))
    <2>1. Built(block) \in Category
      <3>1. block.name \in Names /\ block.body \in Seq(Others)
        BY <1>1 DEF Block
      <3> QED  BY <3>1, ExamplesType, ProseType DEF Built, Category
    <2>2. Len(built) = Cardinality(Done(i))
      BY DEF BuiltTo
    <2>3. /\ Len(more) = Len(built) + 1 /\ more[Len(built) + 1] = CategoryAt(h)
          /\ \A j \in 1 .. Len(built) : more[j] = built[j]
      BY <1>4, <2>1
    <2> HIDE DEF more
    <2>4. h \in Proper /\ Done(i + 1) = Done(i) \cup {h}
      BY <1>5, <1>6, <1>10
    <2>5. Len(more) = Cardinality(Done(i + 1))
      BY <1>5, <2>2, <2>3, <2>4
    <2>6. seen \cup {lowered} = {Lower[file[k]] : k \in Done(i + 1)}
      BY <1>4, <2>4 DEF BuiltTo
    <2>7. ASSUME NEW k \in Done(i + 1)
          PROVE  Bullets(k) # {} /\ more[ProperPlace(k)] = CategoryAt(k)
      <3>1. CASE k = h
        BY <1>4, <1>5, <1>10, <2>2, <2>3, <2>4, <3>1
      <3>2. CASE k \in Done(i)
        BY <1>5, <2>2, <2>3, <3>2 DEF BuiltTo
      <3> QED  BY <2>4, <3>1, <3>2
    <2>8. \A k \in Done(i) : Lower[file[k]] # Lower[file[h]]
      BY <1>4, <1>10 DEF BuiltTo
    <2>9. ASSUME NEW j \in Done(i + 1), NEW k \in Done(i + 1),
                 Lower[file[j]] = Lower[file[k]]
          PROVE  j = k
      BY <2>4, <2>8, <2>9 DEF BuiltTo
    <2>10. BuiltTo(more, seen \cup {lowered}, i + 1)
      BY <2>5, <2>6, <2>7, <2>9 DEF BuiltTo
    <2> QED  BY <1>10, <2>10 DEF more
  <1> QED  BY <1>7, <1>8, <1>9, <1>10

\* When every block is built the file is acceptable unless nothing was built, and
\* the categories are those of its headings (parse_categories).
LEMMA AllBuilt ==
    ASSUME FileType, NEW blocks \in Seq(Block), SplitTo(blocks, Len(file)),
           NEW built \in Seq(Category), NEW seen, BuiltTo(built, seen, Len(blocks))
    PROVE  /\ built = <<>> => ~Acceptable
           /\ built # <<>> =>
                 /\ Acceptable
                 /\ Len(built) = Cardinality(Proper)
                 /\ \A k \in Proper : built[ProperPlace(k)] = CategoryAt(k)
  <1>1. Len(file) \in Nat /\ DOMAIN file = 1 .. Len(file)
    BY DEF FileType
  <1>2. HeadsTo(Len(file)) = Headings
    BY HeadPlaces DEF HeadsTo
  <1>3. \A k \in Headings : HeadPlace(k) \in 1 .. Len(blocks)
    BY <1>2, HeadPlaces DEF SplitTo
  <1>4. Done(Len(blocks)) = Proper
    BY <1>3 DEF Done, Proper
  <1>5. \A k \in DOMAIN file : file[k] # "malformed"
    BY <1>1 DEF SplitTo
  <1>6. built = <<>> <=> Proper = {}
    <2>1. IsFiniteSet(Proper)
      <3>1. IsFiniteSet(1 .. Len(file))
        BY <1>1, FS_Interval
      <3>2. Proper \in SUBSET (1 .. Len(file))
        BY HeadPlaces DEF Proper
      <3> QED  BY <3>1, <3>2, FS_Subset
    <2>2. Cardinality(Proper) = 0 <=> Proper = {}
      BY <2>1, FS_EmptySet
    <2>3. Len(built) = 0 <=> built = <<>>
      OBVIOUS
    <2> QED  BY <1>4, <2>2, <2>3 DEF BuiltTo
  <1> QED  BY <1>4, <1>5, <1>6 DEF BuiltTo, Acceptable

----------------------------------------------------------------------------
(***************************************************************************)
(* The parser                                                              *)
(***************************************************************************)

\* What is said of the file stays as it is while the file does.
LEMMA SameFile ==
    ASSUME file' = file
    PROVE  /\ \A blocks, n : SplitTo(blocks, n)' <=> SplitTo(blocks, n)
           /\ \A built, seen, i : BuiltTo(built, seen, i)' <=> BuiltTo(built, seen, i)
           /\ Acceptable' <=> Acceptable
           /\ Proper' = Proper
           /\ \A k : ProperPlace(k)' = ProperPlace(k) /\ CategoryAt(k)' = CategoryAt(k)
  <1>1. /\ Headings' = Headings /\ Proper' = Proper
        /\ \A k : Under(k)' = Under(k)
    BY DEF Headings, Proper, Under
  <1>2. \A k : Bullets(k)' = Bullets(k)
    BY <1>1 DEF Bullets
  <1>3. \A k : ProperPlace(k)' = ProperPlace(k) /\ CategoryAt(k)' = CategoryAt(k)
    BY <1>1, <1>2 DEF ProperPlace, CategoryAt
  <1>4. Acceptable' <=> Acceptable
    BY <1>1, <1>2 DEF Acceptable
  <1>5. \A n : HeadsTo(n)' = HeadsTo(n)
    BY <1>1 DEF HeadsTo
  <1>6. \A k : HeadPlace(k)' = HeadPlace(k)
    BY <1>5 DEF HeadPlace
  <1>7. \A i : Done(i)' = Done(i)
    BY <1>1, <1>6 DEF Done
  <1>8. \A block, k, n : HoldsTo(block, k, n)' <=> HoldsTo(block, k, n)
    BY <1>1 DEF HoldsTo
  <1>9. \A blocks, n : SplitTo(blocks, n)' <=> SplitTo(blocks, n)
    BY <1>5, <1>6, <1>8 DEF SplitTo
  <1>10. \A built, seen, i : BuiltTo(built, seen, i)' <=> BuiltTo(built, seen, i)
    BY <1>2, <1>3, <1>7 DEF BuiltTo
  <1> QED  BY <1>1, <1>3, <1>4, <1>9, <1>10

\* The parse that has not begun agrees with the file.
LEMMA NothingSplit ==
    ASSUME FileType
    PROVE  SplitTo(<<>>, 0)
  <1>1. Headings \in SUBSET (1 .. Len(file)) /\ Len(file) \in Nat
    BY DEF Headings, FileType
  <1>2. HeadsTo(0) = {}
    <2>1. \A k \in Headings : ~(k <= 0)
      BY <1>1
    <2> QED  BY <2>1 DEF HeadsTo
  <1> QED  BY <1>1, <1>2, FS_EmptySet DEF SplitTo

\* Splitting a line keeps the agreement (_split_into_blocks).
LEMMA SplitAgrees ==
    ASSUME AgreeInv, ParseInv, SplitLine
    PROVE  AgreeInv'
  <1> DEFINE line == file[parse.at + 1]
             n == parse.at
  <1>1. /\ FileType /\ file' = file /\ parse.pc = "split"
        /\ n \in 0 .. Len(file) - 1 /\ parse.blocks \in Seq(Block)
        /\ line \in Lines /\ SplitTo(parse.blocks, n)
        /\ parse.built = <<>> /\ parse.seen = {}
    BY DEF ParseInv, FileType, ParseTypeOK, SplitLine, AgreeInv
  <1>2. CASE line = "malformed"
    <2>1. ~Acceptable
      BY <1>1, <1>2 DEF Acceptable, FileType
    <2>2. parse'.pc = "refused"
      BY <1>2 DEF SplitLine, Refuse, ParseInv, ParseTypeOK
    <2> QED  BY <1>1, <2>1, <2>2, SameFile DEF AgreeInv, ParserAgrees
  <1>3. CASE line # "malformed"
    <2> DEFINE more == IF line \in Names THEN AddBlock(line) ELSE Extended(line)
    <2>1. /\ parse'.pc = "split" /\ parse'.at = n + 1 /\ parse'.blocks = more
          /\ parse'.built = <<>> /\ parse'.seen = {}
      BY <1>1, <1>3 DEF SplitLine, ParseInv, ParseTypeOK
    <2>2. SplitTo(more, n + 1)
      <3>1. CASE line \in Names
        BY <1>1, <3>1, SplitHeading DEF AddBlock
      <3>2. CASE line \notin Names /\ parse.blocks # <<>>
        <4>1. line \in Others
          BY <1>1, <3>2 DEF Lines
        <4> QED  BY <1>1, <1>3, <3>2, <4>1, SplitOther DEF Extended
      <3>3. CASE line \notin Names /\ parse.blocks = <<>>
        <4>1. more = <<>>
          BY <3>3 DEF Extended
        <4>2. HeadsTo(n) = {} /\ HeadsTo(n + 1) = {}
          <5>1. IsFiniteSet(HeadsTo(n)) /\ Cardinality(HeadsTo(n)) = 0
            <6>1. IsFiniteSet(1 .. n)
              BY <1>1, FS_Interval
            <6>2. HeadsTo(n) \in SUBSET (1 .. n)
              BY <1>1, HeadStep
            <6> QED  BY <1>1, <3>3, <6>1, <6>2, FS_Subset DEF SplitTo
          <5>2. HeadsTo(n) = {}
            BY <5>1, FS_EmptySet
          <5> QED  BY <1>1, <3>3, <5>2, HeadStep
        <4>3. \A i \in 1 .. n + 1 : file[i] # "malformed"
          <5>1. \A i \in 1 .. n + 1 : i \in 1 .. n \/ i = n + 1
            BY <1>1
          <5> QED  BY <1>1, <1>3, <5>1 DEF SplitTo
        <4>4. n + 1 \in 0 .. Len(file)
          BY <1>1 DEF FileType
        <4>5. SplitTo(<<>>, n + 1)
          <5> HIDE DEF n, line
          <5> QED  BY <4>2, <4>3, <4>4, FS_EmptySet DEF SplitTo
        <4> QED  BY <4>1, <4>5
      <3> QED  BY <3>1, <3>2, <3>3
    <2> HIDE DEF more
    <2>3. SplitTo(parse.blocks, parse.at)'
      BY <1>1, <2>1, <2>2, SameFile
    <2> QED  BY <2>1, <2>3 DEF AgreeInv, ParserAgrees
  <1> QED  BY <1>2, <1>3

\* Building a block keeps it (parse_categories).
LEMMA BuildAgrees ==
    ASSUME AgreeInv, ParseInv, BuildBlock
    PROVE  AgreeInv'
  <1> DEFINE block == parse.blocks[parse.at + 1]
             lowered == Lower[block.name]
             i == parse.at
  <1>1. /\ FileType /\ file' = file /\ parse.pc = "build" /\ parse.at \in Nat
        /\ i \in 0 .. Len(parse.blocks) - 1 /\ parse.blocks \in Seq(Block)
        /\ parse.built \in Seq(Category)
        /\ SplitTo(parse.blocks, Len(file)) /\ BuiltTo(parse.built, parse.seen, i)
    BY DEF ParseInv, FileType, ParseTypeOK, BuildBlock, AgreeInv
  <1>2. /\ lowered = Unknown => BuiltTo(parse.built, parse.seen, i + 1)
        /\ lowered # Unknown /\ (lowered \in parse.seen \/ Examples(block.body) = 0)
              => ~Acceptable
        /\ lowered # Unknown /\ lowered \notin parse.seen /\ Examples(block.body) # 0
              => BuiltTo(Append(parse.built, Built(block)), parse.seen \cup {lowered},
                         i + 1)
    BY <1>1, BlockBuilt
  <1> HIDE DEF i
  <1>3. CASE lowered # Unknown /\ (lowered \in parse.seen \/ Examples(block.body) = 0)
    <2>1. parse'.pc = "refused"
      BY <1>3 DEF BuildBlock, Refuse, ParseInv, ParseTypeOK
    <2> QED  BY <1>1, <1>2, <1>3, <2>1, SameFile DEF AgreeInv, ParserAgrees
  <1>4. CASE ~(lowered # Unknown /\ (lowered \in parse.seen \/ Examples(block.body) = 0))
    <2>1. /\ parse'.pc = "build" /\ parse'.at = i + 1 /\ parse'.blocks = parse.blocks
          /\ \/ /\ lowered = Unknown
                /\ parse'.built = parse.built /\ parse'.seen = parse.seen
             \/ /\ lowered # Unknown /\ lowered \notin parse.seen
                /\ Examples(block.body) # 0
                /\ parse'.built = Append(parse.built, Built(block))
                /\ parse'.seen = parse.seen \cup {lowered}
      BY <1>1, <1>4 DEF BuildBlock, ParseInv, ParseTypeOK, i
    <2> HIDE DEF block, lowered
    <2>2. BuiltTo(parse'.built, parse'.seen, parse'.at)
      BY <1>2, <2>1
    <2>3. SplitTo(parse'.blocks, Len(file))
      BY <1>1, <2>1
    <2>4. /\ BuiltTo(parse.built, parse.seen, parse.at)'
          /\ SplitTo(parse.blocks, Len(file))'
      BY <1>1, <2>2, <2>3, SameFile
    <2>5. (parse.at <= Len(parse.blocks))'
      BY <1>1, <2>1 DEF i
    <2> QED  BY <2>1, <2>4, <2>5 DEF AgreeInv, ParserAgrees
  <1> QED  BY <1>3, <1>4

\* Ending the split and ending the build keep it.
LEMMA EndsAgree ==
    ASSUME AgreeInv, ParseInv, EndSplit \/ EndBuild
    PROVE  AgreeInv'
  <1>1. /\ FileType /\ file' = file /\ parse.at \in Nat
        /\ parse.blocks \in Seq(Block) /\ parse.built \in Seq(Category)
    BY DEF ParseInv, ParseTypeOK, EndSplit, EndBuild
  <1>2. CASE EndSplit
    <2>1. /\ SplitTo(parse.blocks, Len(file)) /\ parse.built = <<>> /\ parse.seen = {}
          /\ parse'.pc = "build" /\ parse'.at = 0 /\ parse'.blocks = parse.blocks
          /\ parse'.built = <<>> /\ parse'.seen = {}
      BY <1>2 DEF EndSplit, AgreeInv, ParseInv, ParseTypeOK
    <2>2. Done(0) = {}
      <3>1. \A k \in Proper : ~(HeadPlace(k) <= 0)
        BY <1>1, HeadPlaces DEF Proper
      <3> QED  BY <3>1 DEF Done
    <2>3. BuiltTo(<<>>, {}, 0)
      BY <2>2, FS_EmptySet DEF BuiltTo
    <2>4. /\ BuiltTo(parse.built, parse.seen, parse.at)'
          /\ SplitTo(parse.blocks, Len(file))'
      BY <1>1, <2>1, <2>3, SameFile
    <2>5. (parse.at <= Len(parse.blocks))'
      BY <1>1, <2>1
    <2> QED  BY <2>1, <2>4, <2>5 DEF AgreeInv, ParserAgrees
  <1>3. CASE EndBuild
    <2>1. /\ SplitTo(parse.blocks, Len(file))
          /\ BuiltTo(parse.built, parse.seen, Len(parse.blocks))
          /\ parse'.pc = IF parse.built = <<>> THEN "refused" ELSE "parsed"
          /\ parse'.built = parse.built
      BY <1>3 DEF EndBuild, AgreeInv, ParseInv, ParseTypeOK
    <2>2. /\ parse.built = <<>> => ~Acceptable
          /\ parse.built # <<>> =>
                /\ Acceptable
                /\ Len(parse.built) = Cardinality(Proper)
                /\ \A k \in Proper : parse.built[ProperPlace(k)] = CategoryAt(k)
      BY <1>1, <2>1, AllBuilt
    <2>3. ParserAgrees'
      BY <1>1, <2>1, <2>2, SameFile DEF ParserAgrees, ProperPlace
    <2> QED  BY <2>1, <2>3 DEF AgreeInv
  <1> QED  BY <1>2, <1>3

\* The agreement of the parse in progress with the file, for every category file.
THEOREM AgreeInvariant == Spec => []AgreeInv
  <1>1. Init => AgreeInv
    <2> SUFFICES ASSUME Init PROVE AgreeInv
      OBVIOUS
    <2>1. FileType /\ parse = NoParse
      BY JobsAssumption DEF Init, FileType
    <2> QED  BY <2>1, NothingSplit DEF AgreeInv, ParserAgrees, NoParse
  <1>2. AgreeInv /\ ParseInv /\ [Next]_vars => AgreeInv'
    <2> SUFFICES ASSUME AgreeInv, ParseInv, [Next]_vars PROVE AgreeInv'
      OBVIOUS
    <2>1. CASE SplitLine
      BY <2>1, SplitAgrees
    <2>2. CASE BuildBlock
      BY <2>2, BuildAgrees
    <2>3. CASE EndSplit \/ EndBuild
      BY <2>3, EndsAgree
    <2>4. CASE parse' = NoParse /\ UNCHANGED file
      <3>1. SplitTo(<<>>, 0)
        BY NothingSplit DEF ParseInv
      <3>2. /\ parse'.pc = "split" /\ parse'.at = 0 /\ parse'.blocks = <<>>
            /\ parse'.built = <<>> /\ parse'.seen = {}
        BY <2>4 DEF NoParse
      <3>3. SplitTo(parse.blocks, parse.at)'
        BY <2>4, <3>1, <3>2, SameFile
      <3> QED  BY <3>2, <3>3 DEF AgreeInv, ParserAgrees
    <2>5. CASE UNCHANGED <<file, parse>>
      <3>1. /\ SplitTo(parse.blocks, parse.at)' <=> SplitTo(parse.blocks, parse.at)
            /\ SplitTo(parse.blocks, Len(file))' <=> SplitTo(parse.blocks, Len(file))
            /\ BuiltTo(parse.built, parse.seen, parse.at)'
                  <=> BuiltTo(parse.built, parse.seen, parse.at)
        BY <2>5, SameFile
      <3>2. ParserAgrees' <=> ParserAgrees
        BY <2>5, SameFile DEF ParserAgrees, ProperPlace
      <3> QED  BY <2>5, <3>1, <3>2 DEF AgreeInv
    <2> QED  BY <2>1, <2>2, <2>3, <2>4, <2>5, ParseCases
  <1> QED  BY <1>1, <1>2, ParserInvariant, PTL DEF Spec

\* Whatever the category file, it is parsed exactly when every heading is well
\* formed, names a category of its own and has an example, and then into one
\* category per heading in the order of the file (parse_categories).
THEOREM ParserCorrect == Spec => []ParserAgrees
  <1>1. AgreeInv => ParserAgrees
    BY DEF AgreeInv
  <1> QED  BY <1>1, AgreeInvariant, PTL
=============================================================================
