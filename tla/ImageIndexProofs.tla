-------------------------- MODULE ImageIndexProofs --------------------------
(***************************************************************************)
(* Proofs about the image index.  Within a transaction the tables are      *)
(* records that one statement after another changes: GoodTables are those  *)
(* whose n-grams are the words of the signatures and whose cache has only  *)
(* what is so.  Each statement is shown to keep them (CacheUpdated,        *)
(* FillKeeps, SyncEntryKeeps), the loops over entries and images are       *)
(* unfolded into sequences of tables (SyncsInOrder, FillsInOrder,          *)
(* RecalcsInOrder), and an induction over the numbers up to a bound        *)
(* carries the facts to the last one.                                      *)
(*                                                                         *)
(* The inductive invariant has two parts.  IInv (the rows follow the       *)
(* bodies, signatures are own, what is cached is so) holds without any     *)
(* condition.  WholeInv (what is so is cached) needs that the list of      *)
(* similar images, which the code cuts at MaxSimilar, was never too short: *)
(* FewAlike, a condition on each step.                                     *)
(***************************************************************************)
EXTENDS ImageIndex, FiniteSetTheorems, WellFoundedInduction, TLAPS

-----------------------------------------------------------------------------
(* Induction over the numbers up to a bound, and what is defined by it.    *)

\* A set of numbers has a least one
LEMMA LeastNumber ==
  ASSUME NEW T, T \subseteq Nat, T # {}
  PROVE  \E m \in T : \A n \in T : m <= n
<1>1. PICK m \in T : \A n \in T : ~ (<<n, m>> \in OpToRel(<, Nat))
  BY NatLessThanWellFounded, WFMin
<1>2. \A n \in T : ~ (n < m)
  BY <1>1 DEF OpToRel
<1> QED
  BY <1>2

\* Induction up to a bound, over a set of numbers
LEMMA ReachesAll ==
  ASSUME NEW N \in Nat, NEW G, 0 \in G, \A n \in 1 .. N : n - 1 \in G => n \in G
  PROVE  \A n \in 0 .. N : n \in G
<1> DEFINE Missing == {n \in 0 .. N : n \notin G}
<1> SUFFICES ASSUME Missing # {} PROVE FALSE
  OBVIOUS
<1>1. Missing \subseteq Nat
  OBVIOUS
<1>2. PICK m \in Missing : \A n \in Missing : m <= n
  BY <1>1, LeastNumber
<1>3. m \in 1 .. N /\ m - 1 \in 0 .. N /\ ~ (m <= m - 1)
  BY <1>2
<1>4. m - 1 \notin Missing
  BY <1>2, <1>3
<1> QED
  BY <1>2, <1>3, <1>4

\* A recursion over the numbers up to a bound has a value at each of them
Iterated(N, S, s0, step, g) ==
  /\ g \in [0 .. N -> S] /\ g[0] = s0
  /\ \A n \in 1 .. N : g[n] = step[<<n, g[n - 1]>>]

LEMMA Iterates ==
  ASSUME NEW N \in Nat, NEW S, NEW s0 \in S, NEW step \in [(1 .. N) \X S -> S]
  PROVE  \E g : Iterated(N, S, s0, step, g)
<1> DEFINE Runs(n, g) == g[0] = s0 /\ \A k \in 1 .. n : g[k] = step[<<k, g[k - 1]>>]
           Reached == {n \in 0 .. N : \E g \in [0 .. n -> S] : Runs(n, g)}
<1>1. 0 \in Reached
  <2>1. [k \in 0 .. 0 |-> s0] \in [0 .. 0 -> S] /\ Runs(0, [k \in 0 .. 0 |-> s0])
    OBVIOUS
  <2>2. 0 \in 0 .. N
    OBVIOUS
  <2> HIDE DEF Runs
  <2> QED
    BY <2>1, <2>2
<1>2. ASSUME NEW n \in 1 .. N, n - 1 \in Reached PROVE n \in Reached
  <2>1. PICK g \in [0 .. n - 1 -> S] : Runs(n - 1, g)
    BY <1>2
  <2> DEFINE h == [k \in 0 .. n |-> IF k = n THEN step[<<n, g[n - 1]>>] ELSE g[k]]
  <2>2. g[n - 1] \in S /\ <<n, g[n - 1]>> \in (1 .. N) \X S
    OBVIOUS
  <2>3. \A k \in 0 .. n : k # n => k \in 0 .. n - 1
    OBVIOUS
  <2>4. h \in [0 .. n -> S]
    BY <2>2, <2>3
  <2>5. h[0] = s0
    BY <2>1
  <2>6. ASSUME NEW k \in 1 .. n PROVE h[k] = step[<<k, h[k - 1]>>]
    <3>1. h[k - 1] = g[k - 1]
      OBVIOUS
    <3>2. k # n => h[k] = g[k] /\ k \in 1 .. n - 1
      OBVIOUS
    <3>3. k = n => h[k] = step[<<n, g[n - 1]>>]
      OBVIOUS
    <3> HIDE DEF h
    <3> QED
      BY <2>1, <3>1, <3>2, <3>3
  <2> HIDE DEF h
  <2>7. n \in 0 .. N
    OBVIOUS
  <2> QED
    BY <2>4, <2>5, <2>6, <2>7
<1> HIDE DEF Reached
<1>3. N \in Reached
  BY <1>1, <1>2, ReachesAll
<1> QED
  BY <1>3 DEF Reached, Iterated

\* A finite set of numbers has a greatest one
LEMMA GreatestIs ==
  ASSUME NEW S \in SUBSET Nat, IsFiniteSet(S), S # {}
  PROVE  Greatest(S) \in S /\ \A m \in S : m <= Greatest(S)
<1> DEFINE Top(T) == \E m \in T : \A k \in T : k <= m
           G == {n \in 0 .. Cardinality(S) :
                   \A T \in SUBSET S : Cardinality(T) = n /\ T # {} => Top(T)}
<1>1. Cardinality(S) \in Nat
  BY FS_CardinalityType
<1>2. \A T \in SUBSET S : IsFiniteSet(T) /\ Cardinality(T) \in Nat
  BY FS_Subset, FS_CardinalityType
<1>3. 0 \in G
  BY <1>1, <1>2, FS_EmptySet
<1>4. ASSUME NEW n \in 1 .. Cardinality(S), n - 1 \in G PROVE n \in G
  <2> SUFFICES ASSUME NEW T \in SUBSET S, Cardinality(T) = n, T # {} PROVE Top(T)
    BY <1>1
  <2>1. PICK x \in T : TRUE
    OBVIOUS
  <2>2. Cardinality(T \ {x}) = n - 1
    BY <1>2, <2>1, FS_RemoveElement
  <2>3. T \ {x} # {} => Top(T \ {x})
    BY <1>4, <2>2
  <2>4. CASE T \ {x} = {}
    <3>1. \A k \in T : k = x
      BY <2>4
    <3> QED
      BY <2>1, <3>1
  <2>5. CASE T \ {x} # {}
    <3>1. PICK m \in T \ {x} : \A k \in T \ {x} : k <= m
      BY <2>3, <2>5
    <3>2. m \in Nat /\ x \in Nat
      BY <2>1
    <3>3. CASE x <= m
      <4>1. \A k \in T : k <= m
        BY <3>1, <3>3
      <4> QED
        BY <4>1
    <3>4. CASE ~ (x <= m)
      <4>1. \A k \in T : k <= x
        BY <3>1, <3>2, <3>4
      <4> QED
        BY <2>1, <4>1
    <3> QED
      BY <3>3, <3>4
  <2> QED
    BY <2>4, <2>5
<1> HIDE DEF G, Top
<1>5. Cardinality(S) \in G
  <2>1. Cardinality(S) \in 0 .. Cardinality(S)
    BY <1>1
  <2> QED
    BY <1>1, <1>3, <1>4, <2>1, ReachesAll
<1>6. Top(S)
  BY <1>5 DEF G
<1> QED
  BY <1>6 DEF Top, Greatest

-----------------------------------------------------------------------------
(* The tables between two statements of a transaction.                     *)

Sig == SUBSET (0 .. SigBits - 1)
Word == (0 .. SigBits) \X Sig

AnyTables == [images: SUBSET Row, ngram: SUBSET (Nat \X Word), similar: SUBSET (Nat \X Nat)]

\* The n-grams and the cache are true, and an id is that of one row
GoodTables ==
  {D \in AnyTables : /\ DistinctIds(D.images) /\ IsFiniteSet(IdsOf(D.images))
                     /\ NgramsAreWords(D) /\ CacheIsTrue(D)}

LEMMA WordsType ==
  /\ Words(NoSig) = {}
  /\ \A sig \in Sig : Words(sig) \subseteq Word
<1>1. SigBits \in Nat /\ Window \in Nat /\ 1 <= Window
  BY ImageBounds
<1>2. \A i \in 0 .. SigBits - Window : i \in 0 .. SigBits
  BY <1>1
<1>3. Words(NoSig) = {}
  BY <1>2 DEF Words, NoSig
<1>4. \A sig \in Sig : Words(sig) \subseteq Word
  BY <1>2 DEF Words, Sig, Word
<1> QED
  BY <1>3, <1>4

LEMMA SigOfRow ==
  ASSUME NEW D, DistinctIds(D.images), NEW i \in D.images
  PROVE  SigIn(D, i.id) = i.sig
<1>1. (CHOOSE j \in D.images : j.id = i.id) = i
  BY DEF DistinctIds
<1> QED
  BY <1>1 DEF SigIn

LEMMA RowOfId ==
  ASSUME NEW D \in AnyTables, DistinctIds(D.images), NEW a \in IdsOf(D.images)
  PROVE  /\ a \in Nat /\ a # 0 /\ SigIn(D, a) \in Sig
         /\ \E i \in D.images : i.id = a /\ SigIn(D, a) = i.sig
<1>1. PICK i \in D.images : i.id = a
  BY DEF IdsOf
<1>2. i \in Row
  BY DEF AnyTables
<1> QED
  BY <1>1, <1>2, SigOfRow DEF Row, Sig

LEMMA ClosenessIsMutual ==
  ASSUME NEW D, NEW a, NEW b, Close(D, a, b)
  PROVE  Close(D, b, a)
<1>1. SigIn(D, a) \cap SigIn(D, b) = SigIn(D, b) \cap SigIn(D, a)
  OBVIOUS
<1>2. SigIn(D, a) \cup SigIn(D, b) = SigIn(D, b) \cup SigIn(D, a)
  OBVIOUS
<1>3. Words(SigIn(D, a)) \cap Words(SigIn(D, b)) = Words(SigIn(D, b)) \cap Words(SigIn(D, a))
  OBVIOUS
<1> QED
  BY <1>1, <1>2, <1>3 DEF Close, Alike, Resembles

\* A row without a signature is like no other
LEMMA CloseHaveSigs ==
  ASSUME NEW D, NEW a, NEW b, Close(D, a, b)
  PROVE  SigIn(D, a) # NoSig /\ SigIn(D, b) # NoSig
  BY WordsType DEF Close, Alike

LEMMA SharedAreCommon ==
  ASSUME NEW D \in AnyTables, DistinctIds(D.images), NgramsAreWords(D),
         NEW a \in IdsOf(D.images), NEW b \in IdsOf(D.images)
  PROVE  SharedWords(D, a, b) = Words(SigIn(D, a)) \cap Words(SigIn(D, b))
<1> DEFINE W(c) == {x[2] : x \in {y \in D.ngram : y[1] = c}}
<1>1. ASSUME NEW c \in IdsOf(D.images) PROVE W(c) = Words(SigIn(D, c))
  <2>1. PICK i \in D.images : i.id = c /\ SigIn(D, c) = i.sig
    BY <1>1, RowOfId
  <2>2. \A y : y \in D.ngram <=> \E j \in D.images : y \in {j.id} \X Words(j.sig)
    BY DEF NgramsAreWords
  <2>3. \A j \in D.images : j.id = c => j = i
    BY <2>1 DEF DistinctIds
  <2>4. \A w \in Words(i.sig) : <<c, w>> \in D.ngram
    BY <2>1, <2>2
  <2>5. \A y \in D.ngram : y[1] = c => y[2] \in Words(i.sig)
    BY <2>2, <2>3
  <2>6. \A w \in W(c) : w \in Words(i.sig)
    BY <2>5
  <2>7. \A w \in Words(i.sig) : w \in W(c)
    <3> SUFFICES ASSUME NEW w \in Words(i.sig) PROVE w \in W(c)
      OBVIOUS
    <3>1. <<c, w>> \in D.ngram /\ <<c, w>>[1] = c /\ <<c, w>>[2] = w
      BY <2>4
    <3> QED
      BY <3>1
  <2> QED
    BY <2>1, <2>6, <2>7
<1> QED
  BY <1>1 DEF SharedWords

\* Who is similar to a row is like it, and all that are like it are similar to it
\* if the rows are few
LEMMA SimilarAreClose ==
  ASSUME NEW D \in AnyTables, DistinctIds(D.images), IsFiniteSet(IdsOf(D.images)),
         NgramsAreWords(D), NEW n \in IdsOf(D.images)
  PROVE  /\ \A o \in SimilarTo(D, n) : o \in IdsOf(D.images) /\ Close(D, n, o)
         /\ Cardinality({o \in IdsOf(D.images) : Close(D, n, o)}) <= MaxSimilar =>
              \A o \in IdsOf(D.images) : Close(D, n, o) => o \in SimilarTo(D, n)
<1> DEFINE ids == IdsOf(D.images)
           close == {o \in ListSimilarImages(D, n) : Resembles(SigIn(D, n), SigIn(D, o))}
           Score(o) == Cardinality(SharedWords(D, n, o))
           Before(p, o) == Score(p) > Score(o) \/ (Score(p) = Score(o) /\ p < o)
           better(o) == {p \in close : Before(p, o)}
<1>1. SimilarTo(D, n) = {o \in close : Cardinality(better(o)) < MaxSimilar}
  BY DEF SimilarTo
<1>2. close = {o \in ids : Close(D, n, o)}
  <2>1. \A o \in ids : SharedWords(D, n, o) = Words(SigIn(D, n)) \cap Words(SigIn(D, o))
    BY SharedAreCommon
  <2>2. \A o \in ids : o \in close <=> Close(D, n, o)
    BY <2>1 DEF ListSimilarImages, Close, Alike
  <2>3. \A o \in close : o \in ids
    BY DEF ListSimilarImages
  <2> QED
    BY <2>2, <2>3
<1>3. close \subseteq ids \ {n} /\ n \in ids /\ ids \subseteq Nat
  BY <1>2, RowOfId DEF Close
<1>4. ASSUME Cardinality(close) <= MaxSimilar, NEW o \in close
      PROVE  Cardinality(better(o)) < MaxSimilar
  <2>1. IsFiniteSet(close) /\ Cardinality(close) \in Nat
    <3>1. close \in SUBSET ids
      BY <1>3
    <3> HIDE DEF close
    <3> QED
      BY <3>1, FS_Subset, FS_CardinalityType
  <2>2. IsFiniteSet(close \ {o}) /\ Cardinality(close \ {o}) = Cardinality(close) - 1
    <3> HIDE DEF close
    <3> QED
      BY <2>1, FS_RemoveElement
  <2>3. o \notin better(o)
    <3>1. o \in Nat /\ ~ (o < o)
      BY <1>3
    <3>2. Score(o) \in Nat
      <4>1. SharedWords(D, n, o) \subseteq Words(SigIn(D, n))
        BY <1>3, SharedAreCommon
      <4>2. IsFiniteSet(Words(SigIn(D, n)))
        <5>1. IsFiniteSet(Word)
          <6>1. SigBits \in Nat /\ SigBits - 1 \in Int
            BY ImageBounds
          <6>2. IsFiniteSet(0 .. SigBits) /\ IsFiniteSet(0 .. SigBits - 1)
            BY <6>1, FS_Interval
          <6> QED
            BY <6>2, FS_SUBSET, FS_Product DEF Word, Sig
        <5>2. Words(SigIn(D, n)) \in SUBSET Word
          BY <1>3, RowOfId, WordsType
        <5> QED
          BY <5>1, <5>2, FS_Subset
      <4> QED
        BY <4>1, <4>2, FS_Subset, FS_CardinalityType
    <3>3. ~ (Score(o) > Score(o))
      BY <3>2
    <3> QED
      BY <3>1, <3>3
  <2>4. better(o) \in SUBSET (close \ {o})
    BY <2>3
  <2> HIDE DEF better, close
  <2>5. Cardinality(better(o)) <= Cardinality(close \ {o})
        /\ Cardinality(better(o)) \in Nat
    BY <2>2, <2>4, FS_Subset, FS_CardinalityType
  <2>6. MaxSimilar \in Nat
    BY ImageBounds
  <2> QED
    BY <1>4, <2>1, <2>2, <2>5, <2>6
<1>5. ASSUME Cardinality({o \in ids : Close(D, n, o)}) <= MaxSimilar
      PROVE  \A o \in ids : Close(D, n, o) => o \in SimilarTo(D, n)
  <2>1. Cardinality(close) <= MaxSimilar
    BY <1>2, <1>5
  <2>2. \A o \in close : Cardinality(better(o)) < MaxSimilar
    <3> HIDE DEF close, better
    <3> QED
      BY <1>4, <2>1
  <2>3. \A o \in ids : Close(D, n, o) => o \in close
    BY <1>2
  <2> HIDE DEF close, better
  <2> QED
    BY <1>1, <2>2, <2>3
<1>6. \A o \in SimilarTo(D, n) : o \in IdsOf(D.images) /\ Close(D, n, o)
  <2>1. \A o \in SimilarTo(D, n) : o \in close
    BY <1>1
  <2> HIDE DEF close
  <2> QED
    BY <1>2, <2>1
<1> QED
  BY <1>5, <1>6

LEMMA ClosenessOfRows ==
  ASSUME NEW D, NEW E, E.images = D.images
  PROVE  \A a, b : Close(E, a, b) <=> Close(D, a, b)
  BY DEF Close, SigIn

-----------------------------------------------------------------------------
(* The cache of one image is updated.                                      *)

\* What the statement leaves in the cache
LEMMA UpdatedIs ==
  ASSUME NEW D \in AnyTables, NEW n
  PROVE  LET E == UpdateSimilarImagesCache(D, n)
             others == SimilarTo(D, n)
         IN  /\ E = [D EXCEPT !.similar = {p \in D.similar : p[1] # n /\ p[2] # n}
                                            \cup ({n} \X others) \cup (others \X {n})]
             /\ E.images = D.images /\ E.ngram = D.ngram
             /\ E.similar = {p \in D.similar : p[1] # n /\ p[2] # n}
                              \cup ({n} \X others) \cup (others \X {n})
<1> DEFINE others == SimilarTo(D, n)
           keep == {p \in D.similar : p[1] # n /\ p[2] # n}
<1>1. UpdateSimilarImagesCache(D, n) = UpsertSimilarImages([D EXCEPT !.similar = keep], n, others)
  BY DEF UpdateSimilarImagesCache
<1> HIDE DEF keep, others
<1>2. UpdateSimilarImagesCache(D, n)
        = [D EXCEPT !.similar = keep \cup ({n} \X others) \cup (others \X {n})]
  BY <1>1 DEF UpsertSimilarImages, AnyTables
<1>3. UpdateSimilarImagesCache(D, n).images = D.images
  BY <1>2 DEF AnyTables
<1>4. UpdateSimilarImagesCache(D, n).ngram = D.ngram
  BY <1>2 DEF AnyTables
<1>5. UpdateSimilarImagesCache(D, n).similar = keep \cup ({n} \X others) \cup (others \X {n})
  BY <1>2 DEF AnyTables
<1> QED
  BY <1>2, <1>3, <1>4, <1>5 DEF keep, others

\* The cache is true afterwards if only what it had of this image was not
LEMMA CacheUpdated ==
  ASSUME NEW D \in AnyTables, DistinctIds(D.images), IsFiniteSet(IdsOf(D.images)),
         NgramsAreWords(D), NEW n \in IdsOf(D.images),
         \A p \in D.similar : p[1] # n /\ p[2] # n =>
           p[1] \in IdsOf(D.images) /\ p[2] \in IdsOf(D.images) /\ Close(D, p[1], p[2])
  PROVE  /\ UpdateSimilarImagesCache(D, n) \in GoodTables
         /\ UpdateSimilarImagesCache(D, n).images = D.images
<1> DEFINE E == UpdateSimilarImagesCache(D, n)
           others == SimilarTo(D, n)
           ids == IdsOf(D.images)
           keep == {p \in D.similar : p[1] # n /\ p[2] # n}
<1>1. /\ E = [D EXCEPT !.similar = keep \cup ({n} \X others) \cup (others \X {n})]
      /\ E.images = D.images /\ E.ngram = D.ngram
      /\ E.similar = keep \cup ({n} \X others) \cup (others \X {n})
  BY UpdatedIs
<1>2. \A o \in others : o \in ids /\ Close(D, n, o)
  BY SimilarAreClose
<1>3. \A a \in ids : a \in Nat
  BY RowOfId
<1> HIDE DEF E, others, ids
<1>4. keep \cup ({n} \X others) \cup (others \X {n}) \in SUBSET (Nat \X Nat)
  <2>1. n \in Nat /\ others \subseteq Nat
    BY <1>2, <1>3 DEF ids
  <2>2. keep \subseteq Nat \X Nat
    BY DEF AnyTables
  <2> QED
    BY <2>1, <2>2
<1> HIDE DEF keep
<1>5. E \in AnyTables
  BY <1>1, <1>4 DEF AnyTables
<1>6. NgramsAreWords(E)
  BY <1>1 DEF NgramsAreWords
<1>7. CacheIsTrue(E)
  <2>4. \A a, b : Close(E, a, b) <=> Close(D, a, b)
    BY <1>1, ClosenessOfRows
  <2>5. IdsOf(E.images) = ids
    BY <1>1 DEF ids
  <2> SUFFICES ASSUME NEW p \in E.similar
               PROVE  p[1] \in ids /\ p[2] \in ids /\ Close(D, p[1], p[2])
    BY <2>4, <2>5 DEF CacheIsTrue
  <2>1. CASE p \in keep
    BY <2>1 DEF keep, ids
  <2>2. CASE p \in {n} \X others
    BY <1>2, <2>2 DEF ids
  <2>3. CASE p \in others \X {n}
    BY <1>2, <2>3, ClosenessIsMutual DEF ids
  <2> QED
    BY <1>1, <2>1, <2>2, <2>3
<1>8. DistinctIds(E.images) /\ IsFiniteSet(IdsOf(E.images))
  BY <1>1
<1> QED
  BY <1>1, <1>5, <1>6, <1>7, <1>8 DEF GoodTables, E

\* If few are like it, the cache has afterwards all there is of this image
LEMMA CacheCompleted ==
  ASSUME NEW D \in AnyTables, DistinctIds(D.images), IsFiniteSet(IdsOf(D.images)),
         NgramsAreWords(D), NEW n \in IdsOf(D.images),
         Cardinality({o \in IdsOf(D.images) : Close(D, n, o)}) <= MaxSimilar, NEW left,
         \A a, b \in IdsOf(D.images) \ {n} :
           Close(D, a, b) => <<a, b>> \in D.similar \/ (a \in left /\ b \in left)
  PROVE  CacheIsWhole(UpdateSimilarImagesCache(D, n), left \ {n})
<1> DEFINE E == UpdateSimilarImagesCache(D, n)
           others == SimilarTo(D, n)
           ids == IdsOf(D.images)
           keep == {p \in D.similar : p[1] # n /\ p[2] # n}
<1>1. E.images = D.images /\ E.similar = keep \cup ({n} \X others) \cup (others \X {n})
  BY UpdatedIs
<1>2. \A o \in ids : Close(D, n, o) => o \in others
  BY SimilarAreClose
<1> HIDE DEF E, others
<1>6. (\A a, b : Close(E, a, b) <=> Close(D, a, b)) /\ IdsOf(E.images) = ids
  BY <1>1, ClosenessOfRows
<1> SUFFICES ASSUME NEW a \in ids, NEW b \in ids, Close(D, a, b)
             PROVE  <<a, b>> \in E.similar \/ (a \in left \ {n} /\ b \in left \ {n})
  BY <1>6 DEF CacheIsWhole, E
<1>3. CASE a = n
  <2>1. <<a, b>> \in {n} \X others
    BY <1>2, <1>3
  <2> QED
    BY <1>1, <2>1
<1>4. CASE b = n
  <2>1. <<a, b>> \in others \X {n}
    BY <1>2, <1>4, ClosenessIsMutual
  <2> QED
    BY <1>1, <2>1
<1>5. CASE a # n /\ b # n
  <2>1. <<a, b>>[1] = a /\ <<a, b>>[2] = b
    OBVIOUS
  <2>2. <<a, b>> \in D.similar => <<a, b>> \in keep
    BY <1>5, <2>1
  <2> QED
    BY <1>1, <1>5, <2>2
<1> QED
  BY <1>3, <1>4, <1>5

-----------------------------------------------------------------------------
(* An image is filled.                                                     *)

\* The rows after the image of a row has its signature
Filled(rows, image) ==
  {IF i.id = image.id THEN [i EXCEPT !.sig = SigOf[image.uri]] ELSE i : i \in rows}

LEMMA FilledRows ==
  ASSUME NEW rows \in SUBSET Row, DistinctIds(rows), NEW image \in Row, image.id \in IdsOf(rows)
  PROVE  /\ Filled(rows, image) \in SUBSET Row
         /\ IdsOf(Filled(rows, image)) = IdsOf(rows)
         /\ DistinctIds(Filled(rows, image))
         /\ \A i \in Filled(rows, image) :
              \E j \in rows : /\ i.id = j.id /\ i.uri = j.uri /\ i.entry = j.entry
                              /\ i.sig = IF j.id = image.id THEN SigOf[image.uri] ELSE j.sig
                              /\ i = IF j.id = image.id THEN [j EXCEPT !.sig = SigOf[image.uri]] ELSE j
         /\ \A j \in rows : \E i \in Filled(rows, image) :
              /\ i.id = j.id /\ i.uri = j.uri /\ i.entry = j.entry
              /\ i.sig = IF j.id = image.id THEN SigOf[image.uri] ELSE j.sig
<1> DEFINE F(j) == IF j.id = image.id THEN [j EXCEPT !.sig = SigOf[image.uri]] ELSE j
<1>1. SigOf[image.uri] \in Sig
  BY ImageBounds DEF Row, Sig
<1>2. ASSUME NEW j \in rows
      PROVE  /\ F(j) \in Row /\ F(j).id = j.id /\ F(j).uri = j.uri /\ F(j).entry = j.entry
             /\ F(j).sig = IF j.id = image.id THEN SigOf[image.uri] ELSE j.sig
  <2>1. j \in Row
    OBVIOUS
  <2>2. CASE j.id = image.id
    <3>1. F(j) = [j EXCEPT !.sig = SigOf[image.uri]]
      BY <2>2
    <3> HIDE DEF F
    <3> QED
      BY <1>1, <2>1, <2>2, <3>1 DEF Row, Sig
  <2>3. CASE j.id # image.id
    <3>1. F(j) = j
      BY <2>3
    <3> HIDE DEF F
    <3> QED
      BY <2>1, <2>3, <3>1
  <2> QED
    BY <2>2, <2>3
<1>3. Filled(rows, image) = {F(j) : j \in rows}
  BY DEF Filled
<1>4. \A i \in Filled(rows, image) : \E j \in rows : i = F(j)
  BY <1>3
<1>5. \A j \in rows : F(j) \in Filled(rows, image)
  BY <1>3
<1> HIDE DEF F
<1>6. Filled(rows, image) \in SUBSET Row
  BY <1>2, <1>4
<1>7. \A i \in Filled(rows, image) :
        \E j \in rows : /\ i.id = j.id /\ i.uri = j.uri /\ i.entry = j.entry
                        /\ i.sig = IF j.id = image.id THEN SigOf[image.uri] ELSE j.sig
                        /\ i = F(j)
  BY <1>2, <1>4
<1>8. \A j \in rows : \E i \in Filled(rows, image) :
        /\ i.id = j.id /\ i.uri = j.uri /\ i.entry = j.entry
        /\ i.sig = IF j.id = image.id THEN SigOf[image.uri] ELSE j.sig
  BY <1>2, <1>5
<1>9. IdsOf(Filled(rows, image)) = IdsOf(rows)
  <2>1. \A a \in IdsOf(Filled(rows, image)) : a \in IdsOf(rows)
    BY <1>7 DEF IdsOf
  <2>2. \A a \in IdsOf(rows) : a \in IdsOf(Filled(rows, image))
    BY <1>8 DEF IdsOf
  <2> QED
    BY <2>1, <2>2
<1>10. DistinctIds(Filled(rows, image))
  <2> SUFFICES ASSUME NEW i \in Filled(rows, image), NEW k \in Filled(rows, image), i.id = k.id
               PROVE  i = k
    BY DEF DistinctIds
  <2>1. PICK j \in rows : i.id = j.id /\ i = F(j)
    BY <1>7
  <2>2. PICK l \in rows : k.id = l.id /\ k = F(l)
    BY <1>7
  <2>3. j = l
    BY <2>1, <2>2 DEF DistinctIds
  <2> QED
    BY <2>1, <2>2, <2>3
<1> QED
  BY <1>6, <1>7, <1>8, <1>9, <1>10 DEF F

\* A row that no image is written to has the signature that it had
LEMMA FilledSigs ==
  ASSUME NEW D \in AnyTables, DistinctIds(D.images), NEW image \in Row,
         image.id \in IdsOf(D.images), NEW C, C.images = Filled(D.images, image)
  PROVE  /\ \A a \in IdsOf(D.images) \ {image.id} : SigIn(C, a) = SigIn(D, a)
         /\ \A a, b \in IdsOf(D.images) \ {image.id} : Close(C, a, b) <=> Close(D, a, b)
<1>1. D.images \in SUBSET Row
  BY DEF AnyTables
<1>2. /\ DistinctIds(C.images)
      /\ \A j \in D.images : \E i \in C.images :
           i.id = j.id /\ i.sig = IF j.id = image.id THEN SigOf[image.uri] ELSE j.sig
  BY <1>1, FilledRows
<1>3. ASSUME NEW a \in IdsOf(D.images) \ {image.id} PROVE SigIn(C, a) = SigIn(D, a)
  <2>1. PICK j \in D.images : j.id = a
    BY DEF IdsOf
  <2>2. SigIn(D, j.id) = j.sig
    BY <2>1, SigOfRow
  <2>3. PICK i \in C.images : i.id = j.id /\ i.sig = j.sig
    BY <1>2, <2>1
  <2>4. SigIn(C, i.id) = i.sig
    BY <1>2, <2>3, SigOfRow
  <2> QED
    BY <2>1, <2>2, <2>3, <2>4
<1> QED
  BY <1>3 DEF Close

\* The rows and the n-grams before the cache is updated
LEMMA WordsWritten ==
  ASSUME NEW D \in AnyTables, DistinctIds(D.images), NgramsAreWords(D), NEW image \in Row,
         image.id \in IdsOf(D.images)
  PROVE  LET sig == SigOf[image.uri]
             C == CreateNgrams(UpdateImageSig(D, image.id, sig), image.id, sig)
         IN  /\ C \in AnyTables /\ C.images = Filled(D.images, image) /\ C.similar = D.similar
             /\ NgramsAreWords(C)
<1> DEFINE id == image.id
           sig == SigOf[image.uri]
           rows == Filled(D.images, image)
           words == {x \in D.ngram : x[1] # id} \cup ({id} \X Words(sig))
           C == CreateNgrams(UpdateImageSig(D, id, sig), id, sig)
<1>1. UpdateImageSig(D, id, sig) = [D EXCEPT !.images = rows]
  BY DEF UpdateImageSig, Filled, AnyTables
<1>2. sig \in Sig /\ id \in Nat
  BY ImageBounds DEF Row, Sig
<1>3. rows \in SUBSET Row
      /\ (\A i \in rows : \E j \in D.images :
            i.id = j.id /\ i.sig = IF j.id = id THEN sig ELSE j.sig)
      /\ (\A j \in D.images : \E i \in rows :
            i.id = j.id /\ i.sig = IF j.id = id THEN sig ELSE j.sig)
  <2>1. D.images \in SUBSET Row
    BY DEF AnyTables
  <2> QED
    BY <2>1, FilledRows
<1> HIDE DEF rows
<1>4. C = [D EXCEPT !.images = rows, !.ngram = words]
  BY <1>1 DEF CreateNgrams, AnyTables
<1>5. words \in SUBSET (Nat \X Word)
  <2>1. Words(sig) \subseteq Word
    BY <1>2, WordsType
  <2>2. D.ngram \subseteq Nat \X Word
    BY DEF AnyTables
  <2> QED
    BY <1>2, <2>1, <2>2
<1>6. words = UNION {{i.id} \X Words(i.sig) : i \in rows}
  <2>1. \A x : x \in D.ngram <=> \E j \in D.images : x \in {j.id} \X Words(j.sig)
    BY DEF NgramsAreWords
  <2>2. PICK k \in D.images : k.id = id
    BY DEF IdsOf
  <2> HIDE DEF sig, id
  <2>3. ASSUME NEW x \in words PROVE \E i \in rows : x \in {i.id} \X Words(i.sig)
    <3>1. CASE x \in D.ngram /\ x[1] # id
      <4>1. PICK j \in D.images : x \in {j.id} \X Words(j.sig)
        BY <2>1, <3>1
      <4>2. PICK i \in rows : i.id = j.id /\ i.sig = IF j.id = id THEN sig ELSE j.sig
        BY <1>3
      <4>3. j.id # id
        BY <3>1, <4>1
      <4> QED
        BY <4>1, <4>2, <4>3
    <3>2. CASE x \in {id} \X Words(sig)
      <4>1. PICK i \in rows : i.id = k.id /\ i.sig = IF k.id = id THEN sig ELSE k.sig
        BY <1>3
      <4> QED
        BY <2>2, <3>2, <4>1
    <3> QED
      BY <3>1, <3>2
  <2>4. ASSUME NEW i \in rows, NEW x \in {i.id} \X Words(i.sig) PROVE x \in words
    <3>1. PICK j \in D.images : i.id = j.id /\ i.sig = IF j.id = id THEN sig ELSE j.sig
      BY <1>3
    <3>2. CASE j.id = id
      BY <3>1, <3>2
    <3>3. CASE j.id # id
      <4>1. x \in {j.id} \X Words(j.sig) /\ x[1] = j.id
        BY <3>1, <3>3
      <4>2. x \in D.ngram
        BY <2>1, <4>1
      <4> QED
        BY <3>3, <4>1, <4>2
    <3> QED
      BY <3>2, <3>3
  <2>5. \A x : x \in words <=> \E i \in rows : x \in {i.id} \X Words(i.sig)
    BY <2>3, <2>4
  <2> HIDE DEF words
  <2> QED
    BY <2>5
<1> HIDE DEF words, C
<1>7. C \in AnyTables /\ C.images = rows /\ C.ngram = words /\ C.similar = D.similar
  BY <1>3, <1>4, <1>5 DEF AnyTables
<1>8. NgramsAreWords(C)
  BY <1>6, <1>7 DEF NgramsAreWords
<1> QED
  BY <1>7, <1>8 DEF C, rows

\* A fill keeps what is true, and all there is
LEMMA FillKeeps ==
  ASSUME NEW D \in GoodTables, NEW image \in Row, image.id \in IdsOf(D.images)
  PROVE  /\ FillImage(D, image) \in GoodTables
         /\ FillImage(D, image).images = Filled(D.images, image)
         /\ Cardinality({o \in IdsOf(D.images) : Close(FillImage(D, image), image.id, o)}) <= MaxSimilar =>
              \A left : CacheIsWhole(D, left) => CacheIsWhole(FillImage(D, image), left)
<1> DEFINE id == image.id
           sig == SigOf[image.uri]
           C == CreateNgrams(UpdateImageSig(D, id, sig), id, sig)
           ids == IdsOf(D.images)
<1>1. D \in AnyTables /\ DistinctIds(D.images) /\ IsFiniteSet(ids) /\ NgramsAreWords(D) /\ CacheIsTrue(D)
  BY DEF GoodTables
<1>2. /\ C \in AnyTables /\ C.images = Filled(D.images, image) /\ C.similar = D.similar
      /\ NgramsAreWords(C)
  BY <1>1, WordsWritten
<1>3. FillImage(D, image) = UpdateSimilarImagesCache(C, id)
  BY DEF FillImage
<1> HIDE DEF C
<1>4. IdsOf(C.images) = ids /\ DistinctIds(C.images)
  <2>1. D.images \in SUBSET Row
    BY <1>1 DEF AnyTables
  <2> QED
    BY <1>1, <1>2, <2>1, FilledRows
<1>5. \A a, b \in ids \ {id} : Close(C, a, b) <=> Close(D, a, b)
  BY <1>1, <1>2, FilledSigs
<1> HIDE DEF id, ids
<1>6. id \in ids
  BY DEF id, ids
<1>7. \A p \in C.similar : p[1] # id /\ p[2] # id =>
        p[1] \in IdsOf(C.images) /\ p[2] \in IdsOf(C.images) /\ Close(C, p[1], p[2])
  <2>1. \A p \in D.similar : p[1] \in ids /\ p[2] \in ids /\ Close(D, p[1], p[2])
    BY <1>1 DEF CacheIsTrue, ids
  <2> QED
    BY <1>2, <1>4, <1>5, <2>1
<1>8. id \in IdsOf(C.images) /\ IsFiniteSet(IdsOf(C.images))
  BY <1>1, <1>4, <1>6
<1>9. /\ UpdateSimilarImagesCache(C, id) \in GoodTables
      /\ UpdateSimilarImagesCache(C, id).images = C.images
  BY <1>2, <1>4, <1>7, <1>8, CacheUpdated
<1>10. ASSUME Cardinality({o \in ids : Close(UpdateSimilarImagesCache(C, id), id, o)}) <= MaxSimilar,
              NEW left, CacheIsWhole(D, left)
       PROVE  CacheIsWhole(UpdateSimilarImagesCache(C, id), left)
  <2>1. \A a, b \in ids : Close(D, a, b) => <<a, b>> \in D.similar \/ (a \in left /\ b \in left)
    BY <1>10 DEF CacheIsWhole, ids
  <2>2. \A a, b \in IdsOf(C.images) \ {id} :
          Close(C, a, b) => <<a, b>> \in C.similar \/ (a \in left /\ b \in left)
    BY <1>2, <1>4, <1>5, <2>1
  <2>3. Cardinality({o \in IdsOf(C.images) : Close(C, id, o)}) <= MaxSimilar
    <3>1. \A a, b : Close(UpdateSimilarImagesCache(C, id), a, b) <=> Close(C, a, b)
      BY <1>9, ClosenessOfRows
    <3> QED
      BY <1>4, <1>10, <3>1
  <2>4. CacheIsWhole(UpdateSimilarImagesCache(C, id), left \ {id})
    BY <1>2, <1>4, <1>8, <2>2, <2>3, CacheCompleted
  <2> QED
    BY <2>4 DEF CacheIsWhole
<1> QED
  BY <1>2, <1>3, <1>9, <1>10 DEF id, ids

-----------------------------------------------------------------------------
(* The rows of an entry become those of its body.                          *)

\* With rows goes what the other tables have of them
LEMMA WithoutKeeps ==
  ASSUME NEW D \in GoodTables, NEW gone
  PROVE  LET K == Without(D, gone)
         IN  /\ K \in GoodTables /\ K.images = {i \in D.images : i.id \notin gone}
             /\ \A left : CacheIsWhole(D, left) => CacheIsWhole(K, left)
<1> DEFINE K == Without(D, gone)
<1>1. D \in AnyTables /\ DistinctIds(D.images) /\ IsFiniteSet(IdsOf(D.images))
      /\ NgramsAreWords(D) /\ CacheIsTrue(D)
  BY DEF GoodTables
<1>2. /\ K.images = {i \in D.images : i.id \notin gone}
      /\ K.ngram = {x \in D.ngram : x[1] \notin gone}
      /\ K.similar = {p \in D.similar : p[1] \notin gone /\ p[2] \notin gone}
  BY DEF Without
<1>3. K \in AnyTables
  BY <1>1 DEF AnyTables, Without
<1> HIDE DEF K
<1>4. DistinctIds(K.images)
  BY <1>1, <1>2 DEF DistinctIds
<1>5. \A a : a \in IdsOf(K.images) <=> a \in IdsOf(D.images) /\ a \notin gone
  BY <1>2 DEF IdsOf
<1>6. IsFiniteSet(IdsOf(K.images))
  <2>1. IdsOf(K.images) \in SUBSET IdsOf(D.images)
    BY <1>5
  <2> QED
    BY <1>1, <2>1, FS_Subset
<1>7. \A a \in IdsOf(K.images) : SigIn(K, a) = SigIn(D, a)
  <2> SUFFICES ASSUME NEW a \in IdsOf(K.images) PROVE SigIn(K, a) = SigIn(D, a)
    OBVIOUS
  <2>1. PICK i \in K.images : i.id = a
    BY DEF IdsOf
  <2>2. SigIn(K, i.id) = i.sig
    BY <1>4, SigOfRow
  <2>3. SigIn(D, i.id) = i.sig
    BY <1>1, <1>2, SigOfRow
  <2> QED
    BY <2>1, <2>2, <2>3
<1>8. \A a, b \in IdsOf(K.images) : Close(K, a, b) <=> Close(D, a, b)
  BY <1>7 DEF Close
<1>9. NgramsAreWords(K)
  <2>1. \A x : x \in D.ngram <=> \E i \in D.images : x \in {i.id} \X Words(i.sig)
    BY <1>1 DEF NgramsAreWords
  <2>2. \A i \in D.images : \A x \in {i.id} \X Words(i.sig) : x[1] = i.id
    OBVIOUS
  <2>3. \A x : x \in K.ngram <=> \E i \in K.images : x \in {i.id} \X Words(i.sig)
    BY <1>2, <2>1, <2>2
  <2> QED
    BY <2>3 DEF NgramsAreWords
<1>10. CacheIsTrue(K)
  <2>1. \A p \in D.similar : p[1] \in IdsOf(D.images) /\ p[2] \in IdsOf(D.images) /\ Close(D, p[1], p[2])
    BY <1>1 DEF CacheIsTrue
  <2> SUFFICES ASSUME NEW p \in K.similar
               PROVE  p[1] \in IdsOf(K.images) /\ p[2] \in IdsOf(K.images) /\ Close(K, p[1], p[2])
    BY DEF CacheIsTrue
  <2>2. p \in D.similar /\ p[1] \notin gone /\ p[2] \notin gone
    BY <1>2
  <2>3. p[1] \in IdsOf(K.images) /\ p[2] \in IdsOf(K.images)
    BY <1>5, <2>1, <2>2
  <2> QED
    BY <1>8, <2>1, <2>2, <2>3
<1>11. ASSUME NEW left, CacheIsWhole(D, left) PROVE CacheIsWhole(K, left)
  <2> SUFFICES ASSUME NEW a \in IdsOf(K.images), NEW b \in IdsOf(K.images), Close(K, a, b)
               PROVE  <<a, b>> \in K.similar \/ (a \in left /\ b \in left)
    BY DEF CacheIsWhole
  <2>1. a \in IdsOf(D.images) /\ a \notin gone /\ b \in IdsOf(D.images) /\ b \notin gone
    BY <1>5
  <2>2. <<a, b>> \in D.similar \/ (a \in left /\ b \in left)
    BY <1>8, <1>11, <2>1 DEF CacheIsWhole
  <2>3. <<a, b>>[1] = a /\ <<a, b>>[2] = b
    OBVIOUS
  <2> QED
    BY <1>2, <2>1, <2>2, <2>3
<1> QED
  BY <1>2, <1>3, <1>4, <1>6, <1>9, <1>10, <1>11 DEF GoodTables, K

\* New rows have new ids, one for each image, and no signature
LEMMA CreatedRows ==
  ASSUME NEW rows \in SUBSET Row, IsFiniteSet(IdsOf(rows)), NEW e \in Entry,
         NEW uris \in SUBSET Uri, NEW rank \in Order
  PROVE  LET new == Created(rows, e, uris, rank)
         IN  /\ new \in SUBSET Row /\ DistinctIds(new) /\ UrisOnce(new) /\ IsFiniteSet(IdsOf(new))
             /\ \A i \in new : i.uri \in uris /\ i.entry = e /\ i.sig = NoSig /\ i.id \notin IdsOf(rows)
             /\ \A u \in uris : \E i \in new : i.uri = u
<1> DEFINE new == Created(rows, e, uris, rank)
           top == Greatest(IdsOf(rows) \cup {0})
           Upto(u) == {v \in uris : rank[v] <= rank[u]}
           R(u) == [id |-> top + Cardinality(Upto(u)), uri |-> u, entry |-> e, sig |-> NoSig]
<1>1. new = {R(u) : u \in uris}
  BY DEF Created
<1>2. /\ top \in Nat
      /\ \A a \in IdsOf(rows) : a \in Nat /\ a <= top
  <2>1. IdsOf(rows) \cup {0} \in SUBSET Nat
    BY DEF IdsOf, Row
  <2>2. IsFiniteSet(IdsOf(rows) \cup {0})
    BY FS_AddElement
  <2>3. IdsOf(rows) \cup {0} # {}
    OBVIOUS
  <2>4. top \in IdsOf(rows) \cup {0} /\ \A a \in IdsOf(rows) \cup {0} : a <= top
    BY <2>1, <2>2, <2>3, GreatestIs
  <2> HIDE DEF top
  <2> QED
    BY <2>1, <2>4
<1> HIDE DEF top
<1>3. \A u \in Uri : rank[u] \in Int
  <2>1. Cardinality(Uri) \in Nat
    BY ImageBounds, FS_CardinalityType
  <2> QED
    BY <2>1 DEF Order
<1>4. \A u, v \in Uri : rank[u] = rank[v] => u = v
  BY DEF Order
<1>5. IsFiniteSet(uris) /\ Cardinality(uris) \in Nat
  BY ImageBounds, FS_Subset, FS_CardinalityType
<1>6. ASSUME NEW u \in uris
      PROVE  IsFiniteSet(Upto(u)) /\ Cardinality(Upto(u)) \in 1 .. Cardinality(uris)
  <2>1. u \in Upto(u)
    BY <1>3
  <2>2. Upto(u) \in SUBSET uris
    OBVIOUS
  <2> HIDE DEF Upto
  <2>3. IsFiniteSet(Upto(u)) /\ Cardinality(Upto(u)) <= Cardinality(uris) /\ Cardinality(Upto(u)) \in Nat
    BY <1>5, <2>2, FS_Subset, FS_CardinalityType
  <2>4. Cardinality(Upto(u)) # 0
    BY <2>1, <2>3, FS_EmptySet
  <2> QED
    BY <1>5, <2>3, <2>4
<1>7. ASSUME NEW u \in uris, NEW v \in uris, rank[u] < rank[v]
      PROVE  Cardinality(Upto(u)) # Cardinality(Upto(v))
  <2>1. Upto(u) \in SUBSET Upto(v)
    BY <1>3, <1>7
  <2>2. v \in Upto(v) /\ v \notin Upto(u)
    BY <1>3, <1>7
  <2>3. IsFiniteSet(Upto(v))
    BY <1>6
  <2> HIDE DEF Upto
  <2> QED
    BY <2>1, <2>2, <2>3, FS_Subset
<1>8. ASSUME NEW u \in uris, NEW v \in uris, Cardinality(Upto(u)) = Cardinality(Upto(v))
      PROVE  u = v
  <2>1. ~ (rank[u] < rank[v]) /\ ~ (rank[v] < rank[u])
    <3> HIDE DEF Upto
    <3> QED
      BY <1>7, <1>8
  <2>2. rank[u] = rank[v]
    BY <1>3, <2>1
  <2> QED
    BY <1>4, <2>2
<1> HIDE DEF Upto
<1>9. ASSUME NEW u \in uris
      PROVE  /\ R(u) \in Row /\ R(u).id = top + Cardinality(Upto(u)) /\ R(u).uri = u
             /\ R(u).entry = e /\ R(u).sig = NoSig
             /\ R(u).id \notin IdsOf(rows)
             /\ R(u).id \in top + 1 .. top + Cardinality(uris)
  <2>1. Cardinality(Upto(u)) \in 1 .. Cardinality(uris)
    BY <1>6
  <2>2. top + Cardinality(Upto(u)) \in Nat \ {0}
    BY <1>2, <2>1, <1>5
  <2>3. top + Cardinality(Upto(u)) \notin IdsOf(rows)
    BY <1>2, <2>1, <1>5
  <2>4. top + Cardinality(Upto(u)) \in top + 1 .. top + Cardinality(uris)
    BY <1>2, <2>1, <1>5
  <2> QED
    BY <2>2, <2>3, <2>4 DEF Row, NoSig
<1> HIDE DEF R, new
<1>10. \A i \in new : \E u \in uris : i = R(u)
  BY <1>1
<1>11. new \in SUBSET Row
  BY <1>9, <1>10
<1>12. DistinctIds(new)
  <2> SUFFICES ASSUME NEW i \in new, NEW j \in new, i.id = j.id PROVE i = j
    BY DEF DistinctIds
  <2>1. PICK u \in uris : i = R(u)
    BY <1>10
  <2>2. PICK v \in uris : j = R(v)
    BY <1>10
  <2>3. top + Cardinality(Upto(u)) = top + Cardinality(Upto(v))
    BY <1>9, <2>1, <2>2
  <2>4. Cardinality(Upto(u)) \in Nat /\ Cardinality(Upto(v)) \in Nat
    BY <1>6, FS_CardinalityType
  <2>5. Cardinality(Upto(u)) = Cardinality(Upto(v))
    BY <1>2, <2>3, <2>4
  <2> QED
    BY <1>8, <2>1, <2>2, <2>5
<1>13. UrisOnce(new)
  BY <1>9, <1>10 DEF UrisOnce
<1>14. IsFiniteSet(IdsOf(new))
  <2>1. top + 1 \in Int /\ top + Cardinality(uris) \in Int
    BY <1>2, <1>5
  <2>2. IsFiniteSet(top + 1 .. top + Cardinality(uris))
    BY <2>1, FS_Interval
  <2>3. IdsOf(new) \in SUBSET (top + 1 .. top + Cardinality(uris))
    BY <1>9, <1>10 DEF IdsOf
  <2> QED
    BY <2>2, <2>3, FS_Subset
<1>15. \A i \in new : i.uri \in uris /\ i.entry = e /\ i.sig = NoSig /\ i.id \notin IdsOf(rows)
  BY <1>9, <1>10
<1>16. \A u \in uris : \E i \in new : i.uri = u
  BY <1>1, <1>9
<1> QED
  BY <1>11, <1>12, <1>13, <1>14, <1>15, <1>16 DEF new

\* New rows without a signature are similar to none
LEMMA AddedRows ==
  ASSUME NEW D \in GoodTables, NEW new \in SUBSET Row, DistinctIds(new), IsFiniteSet(IdsOf(new)),
         \A i \in new : i.sig = NoSig /\ i.id \notin IdsOf(D.images),
         NEW E, E = [D EXCEPT !.images = D.images \cup new]
  PROVE  /\ E \in GoodTables /\ E.images = D.images \cup new
         /\ \A left : CacheIsWhole(D, left) => CacheIsWhole(E, left)
<1>1. D \in AnyTables /\ DistinctIds(D.images) /\ IsFiniteSet(IdsOf(D.images))
      /\ NgramsAreWords(D) /\ CacheIsTrue(D)
  BY DEF GoodTables
<1>2. E.images = D.images \cup new /\ E.ngram = D.ngram /\ E.similar = D.similar /\ E \in AnyTables
  BY <1>1 DEF AnyTables
<1>3. DistinctIds(E.images)
  <2>1. \A i \in D.images : i.id \in IdsOf(D.images)
    BY DEF IdsOf
  <2> QED
    BY <1>1, <1>2, <2>1 DEF DistinctIds
<1>4. IdsOf(E.images) = IdsOf(D.images) \cup IdsOf(new)
  BY <1>2 DEF IdsOf
<1>5. IsFiniteSet(IdsOf(E.images))
  BY <1>1, <1>4, FS_Union
<1>6. \A a \in IdsOf(D.images) : SigIn(E, a) = SigIn(D, a)
  <2> SUFFICES ASSUME NEW a \in IdsOf(D.images) PROVE SigIn(E, a) = SigIn(D, a)
    OBVIOUS
  <2>1. PICK i \in D.images : i.id = a
    BY DEF IdsOf
  <2>2. SigIn(E, i.id) = i.sig
    BY <1>2, <1>3, SigOfRow
  <2>3. SigIn(D, i.id) = i.sig
    BY <1>1, SigOfRow
  <2> QED
    BY <2>1, <2>2, <2>3
<1>7. \A a \in IdsOf(new) : SigIn(E, a) = NoSig
  <2> SUFFICES ASSUME NEW a \in IdsOf(new) PROVE SigIn(E, a) = NoSig
    OBVIOUS
  <2>1. PICK i \in new : i.id = a
    BY DEF IdsOf
  <2>2. SigIn(E, i.id) = i.sig
    BY <1>2, <1>3, SigOfRow
  <2> QED
    BY <2>1, <2>2
<1>8. \A a, b \in IdsOf(E.images) :
        Close(E, a, b) => a \in IdsOf(D.images) /\ b \in IdsOf(D.images) /\ Close(D, a, b)
  <2> SUFFICES ASSUME NEW a \in IdsOf(E.images), NEW b \in IdsOf(E.images), Close(E, a, b)
               PROVE  a \in IdsOf(D.images) /\ b \in IdsOf(D.images) /\ Close(D, a, b)
    OBVIOUS
  <2>1. SigIn(E, a) # NoSig /\ SigIn(E, b) # NoSig
    BY CloseHaveSigs
  <2>2. a \in IdsOf(D.images) /\ b \in IdsOf(D.images)
    BY <1>4, <1>7, <2>1
  <2> QED
    BY <1>6, <2>2 DEF Close
<1>9. NgramsAreWords(E)
  <2>1. \A x : x \in D.ngram <=> \E i \in D.images : x \in {i.id} \X Words(i.sig)
    BY <1>1 DEF NgramsAreWords
  <2>2. \A i \in new : Words(i.sig) = {}
    BY WordsType
  <2>3. \A x : x \in E.ngram <=> \E i \in E.images : x \in {i.id} \X Words(i.sig)
    BY <1>2, <2>1, <2>2
  <2> QED
    BY <2>3 DEF NgramsAreWords
<1>10. CacheIsTrue(E)
  <2>1. \A p \in D.similar : p[1] \in IdsOf(D.images) /\ p[2] \in IdsOf(D.images) /\ Close(D, p[1], p[2])
    BY <1>1 DEF CacheIsTrue
  <2>2. \A a, b \in IdsOf(D.images) : Close(D, a, b) => Close(E, a, b)
    BY <1>6 DEF Close
  <2>3. \A p \in E.similar : p[1] \in IdsOf(E.images) /\ p[2] \in IdsOf(E.images) /\ Close(E, p[1], p[2])
    BY <1>2, <1>4, <2>1, <2>2
  <2> QED
    BY <2>3 DEF CacheIsTrue
<1>11. ASSUME NEW left, CacheIsWhole(D, left) PROVE CacheIsWhole(E, left)
  <2> SUFFICES ASSUME NEW a \in IdsOf(E.images), NEW b \in IdsOf(E.images), Close(E, a, b)
               PROVE  <<a, b>> \in E.similar \/ (a \in left /\ b \in left)
    BY DEF CacheIsWhole
  <2>1. a \in IdsOf(D.images) /\ b \in IdsOf(D.images) /\ Close(D, a, b)
    BY <1>8
  <2> QED
    BY <1>2, <1>11, <2>1 DEF CacheIsWhole
<1> QED
  BY <1>2, <1>3, <1>5, <1>9, <1>10, <1>11 DEF GoodTables

RowsOf(D, e) == {i \in D.images : i.entry = e}

\* E is D with the rows of an entry synchronised: the others are as they were, a
\* row that is kept keeps its id and its signature, a new one has none
Synchronised(D, E, e, uris) ==
  /\ E \in GoodTables
  /\ \A i \in E.images : i \in D.images \/ (i.sig = NoSig /\ i.entry = e)
  /\ \A i \in D.images : i.entry # e => i \in E.images
  /\ UrisOf(RowsOf(E, e)) = uris
  /\ UrisOnce(D.images) => UrisOnce(E.images)
  /\ \A left : CacheIsWhole(D, left) => CacheIsWhole(E, left)

LEMMA SyncEntryKeeps ==
  ASSUME NEW D \in GoodTables, NEW e \in Entry, NEW uris \in SUBSET Uri, NEW rank \in Order
  PROVE  Synchronised(D, SyncEntry(D, e, uris, rank), e, uris)
<1> DEFINE mine == {i \in D.images : i.entry = e}
           gone == IdsOf({i \in mine : i.uri \notin uris})
           kept == Without(D, gone)
           missing == uris \ UrisOf(mine)
           new == Created(kept.images, e, missing, rank)
           E == SyncEntry(D, e, uris, rank)
<1>1. D \in AnyTables /\ DistinctIds(D.images) /\ D.images \in SUBSET Row
  BY DEF GoodTables, AnyTables
<1>2. /\ kept \in GoodTables /\ kept.images = {i \in D.images : i.id \notin gone}
      /\ \A left : CacheIsWhole(D, left) => CacheIsWhole(kept, left)
  BY WithoutKeeps
<1>3. \A i \in D.images : i.id \in gone <=> i.entry = e /\ i.uri \notin uris
  BY <1>1 DEF IdsOf, DistinctIds
<1>4. \A i : i \in kept.images <=> i \in D.images /\ (i.entry # e \/ i.uri \in uris)
  BY <1>2, <1>3
<1> HIDE DEF kept, gone
<1>5. kept.images \in SUBSET Row /\ IsFiniteSet(IdsOf(kept.images))
  BY <1>2 DEF GoodTables, AnyTables
<1>6. missing \in SUBSET Uri
  OBVIOUS
<1>7. \A u : u \in missing <=> u \in uris /\ \A i \in D.images : i.entry = e => i.uri # u
  BY DEF UrisOf
<1> HIDE DEF missing
<1>8. /\ new \in SUBSET Row /\ DistinctIds(new) /\ UrisOnce(new) /\ IsFiniteSet(IdsOf(new))
      /\ \A i \in new : /\ i.uri \in missing /\ i.entry = e /\ i.sig = NoSig
                        /\ i.id \notin IdsOf(kept.images)
      /\ \A u \in missing : \E i \in new : i.uri = u
  BY <1>5, <1>6, CreatedRows
<1>9. E = [kept EXCEPT !.images = kept.images \cup new]
  BY <1>2 DEF SyncEntry, kept, gone, missing, GoodTables, AnyTables
<1> HIDE DEF new, E
<1>16. \A i \in new : i.sig = NoSig /\ i.id \notin IdsOf(kept.images)
  BY <1>8
<1>10. /\ E \in GoodTables /\ E.images = kept.images \cup new
       /\ \A left : CacheIsWhole(kept, left) => CacheIsWhole(E, left)
  BY <1>2, <1>8, <1>9, <1>16, AddedRows
<1>11. \A i \in E.images : i \in D.images \/ (i.sig = NoSig /\ i.entry = e)
  BY <1>4, <1>8, <1>10
<1>12. \A i \in D.images : i.entry # e => i \in E.images
  BY <1>4, <1>10
<1>13. \A u : u \in uris <=> \E i \in E.images : i.entry = e /\ i.uri = u
  <2>1. ASSUME NEW u \in uris PROVE \E i \in E.images : i.entry = e /\ i.uri = u
    <3>1. CASE u \in missing
      BY <1>8, <1>10, <3>1
    <3>2. CASE u \notin missing
      <4>1. PICK i \in D.images : i.entry = e /\ i.uri = u
        BY <1>7, <3>2
      <4> QED
        BY <1>4, <1>10, <4>1
    <3> QED
      BY <3>1, <3>2
  <2>2. ASSUME NEW i \in E.images, i.entry = e PROVE i.uri \in uris
    BY <1>4, <1>7, <1>8, <1>10, <2>2
  <2> QED
    BY <2>1, <2>2
<1>14. UrisOf(RowsOf(E, e)) = uris
  <2>1. \A u : u \in UrisOf(RowsOf(E, e)) <=> \E i \in E.images : i.entry = e /\ i.uri = u
    BY DEF UrisOf, RowsOf
  <2> QED
    BY <1>13, <2>1
<1>15. ASSUME UrisOnce(D.images) PROVE UrisOnce(E.images)
  <2> SUFFICES ASSUME NEW i \in E.images, NEW j \in E.images, i.entry = j.entry, i.uri = j.uri
               PROVE  i = j
    BY DEF UrisOnce
  <2>1. CASE i \in kept.images /\ j \in kept.images
    BY <1>4, <1>15, <2>1 DEF UrisOnce
  <2>2. CASE i \in new /\ j \in new
    BY <1>8, <2>2 DEF UrisOnce
  <2>3. ASSUME NEW k \in new, NEW l \in kept.images, k.entry = l.entry, k.uri = l.uri
        PROVE  FALSE
    BY <1>4, <1>7, <1>8, <2>3
  <2> QED
    BY <1>10, <2>1, <2>2, <2>3
<1> QED
  BY <1>2, <1>10, <1>11, <1>12, <1>14, <1>15 DEF Synchronised, E

-----------------------------------------------------------------------------
(* The loops over the entries and the images of a transaction.             *)

\* The tables after each entry of a chunk
LEMMA SyncsInOrder ==
  ASSUME NEW D \in GoodTables, NEW places \in SUBSET Entry,
         NEW bodies \in [Entry -> SUBSET Uri], NEW rank \in Order
  PROVE  \E h : /\ h[0] = D /\ SyncImagesForEntries(D, places, bodies, rank) = h[MaxEntry]
                /\ \A n \in 0 .. MaxEntry : h[n] \in GoodTables
                /\ \A n \in 1 .. MaxEntry :
                     h[n] = IF n \in places THEN SyncEntry(h[n - 1], Listed[n], bodies[Listed[n]], rank)
                            ELSE h[n - 1]
<1> DEFINE Body(K, n) == IF n \in places THEN SyncEntry(K, Listed[n], bodies[Listed[n]], rank) ELSE K
           step == [x \in (1 .. MaxEntry) \X GoodTables |-> Body(x[2], x[1])]
           Is(h) == h = [n \in 0 .. MaxEntry |->
                           IF n = 0 THEN D
                           ELSE IF n \in places THEN SyncEntry(h[n - 1], Listed[n], bodies[Listed[n]], rank)
                           ELSE h[n - 1]]
           upTo == CHOOSE h : Is(h)
<1>1. MaxEntry \in Nat
  BY ImageBounds
<1>2. \A K \in GoodTables : \A n \in 1 .. MaxEntry : Body(K, n) \in GoodTables
  <2> SUFFICES ASSUME NEW K \in GoodTables, NEW n \in 1 .. MaxEntry PROVE Body(K, n) \in GoodTables
    OBVIOUS
  <2>1. Listed[n] \in Entry /\ bodies[Listed[n]] \in SUBSET Uri
    BY ImageBounds DEF Entry
  <2>2. SyncEntry(K, Listed[n], bodies[Listed[n]], rank) \in GoodTables
    BY <2>1, SyncEntryKeeps DEF Synchronised
  <2> QED
    BY <2>2
<1>3. step \in [(1 .. MaxEntry) \X GoodTables -> GoodTables]
  BY <1>2
<1>4. \A K \in GoodTables : \A n \in 1 .. MaxEntry : step[<<n, K>>] = Body(K, n)
  OBVIOUS
<1> HIDE DEF step
<1>5. PICK g : Iterated(MaxEntry, GoodTables, D, step, g)
  BY <1>1, <1>3, Iterates
<1>6. /\ g \in [0 .. MaxEntry -> GoodTables] /\ g[0] = D
      /\ \A n \in 1 .. MaxEntry : g[n] = step[<<n, g[n - 1]>>]
  BY <1>5 DEF Iterated
<1>7. \A n \in 1 .. MaxEntry : n - 1 \in 0 .. MaxEntry
  BY <1>1
<1>8. \A n \in 1 .. MaxEntry : g[n] = Body(g[n - 1], n)
  BY <1>4, <1>6, <1>7
<1>9. Is(g)
  <2>1. \A n \in 0 .. MaxEntry : n # 0 => n \in 1 .. MaxEntry
    BY <1>1
  <2>2. g = [n \in 0 .. MaxEntry |-> g[n]]
    BY <1>6
  <2>3. \A n \in 0 .. MaxEntry :
          g[n] = IF n = 0 THEN D
                 ELSE IF n \in places THEN SyncEntry(g[n - 1], Listed[n], bodies[Listed[n]], rank)
                 ELSE g[n - 1]
    BY <1>6, <1>8, <2>1
  <2> QED
    BY <2>2, <2>3
<1>10. Is(upTo)
  <2> HIDE DEF Is
  <2> QED
    BY <1>9
<1>11. SyncImagesForEntries(D, places, bodies, rank) = upTo[MaxEntry]
  BY DEF SyncImagesForEntries
<1> HIDE DEF upTo
<1>12. upTo[0] = D /\ \A n \in 1 .. MaxEntry : upTo[n] = Body(upTo[n - 1], n)
  BY <1>1, <1>10
<1> HIDE DEF Body
<1>13. \A n \in 0 .. MaxEntry : upTo[n] \in GoodTables
  <2> DEFINE Good == {n \in 0 .. MaxEntry : upTo[n] \in GoodTables}
  <2>1. 0 \in Good
    BY <1>1, <1>12
  <2>2. ASSUME NEW n \in 1 .. MaxEntry, n - 1 \in Good PROVE n \in Good
    BY <1>1, <1>2, <1>12, <2>2
  <2> HIDE DEF Good
  <2>3. \A n \in 0 .. MaxEntry : n \in Good
    BY <1>1, <2>1, <2>2, ReachesAll
  <2> QED
    BY <2>3 DEF Good
<1> QED
  BY <1>11, <1>12, <1>13 DEF Body

\* The tables in which a row is for each id of ids
TablesWith(ids) == {D \in GoodTables : IdsOf(D.images) = ids}

\* The image of those loaded that has an id
LoadedAs(loaded, n) == CHOOSE i \in loaded : i.id = n

LEMMA LoadedAsIs ==
  ASSUME NEW loaded \in SUBSET Row, NEW n \in IdsOf(loaded)
  PROVE  LoadedAs(loaded, n) \in loaded /\ LoadedAs(loaded, n).id = n
  BY DEF IdsOf, LoadedAs

LEMMA FillKeepsIds ==
  ASSUME NEW D \in GoodTables, NEW image \in Row, image.id \in IdsOf(D.images)
  PROVE  FillImage(D, image) \in TablesWith(IdsOf(D.images))
<1>1. D.images \in SUBSET Row /\ DistinctIds(D.images)
  BY DEF GoodTables, AnyTables
<1>2. FillImage(D, image) \in GoodTables /\ FillImage(D, image).images = Filled(D.images, image)
  BY FillKeeps
<1>3. IdsOf(Filled(D.images, image)) = IdsOf(D.images)
  BY <1>1, FilledRows
<1> QED
  BY <1>2, <1>3 DEF TablesWith

\* The tables after each image that is written
LEMMA FillsInOrder ==
  ASSUME NEW D \in GoodTables, NEW loaded \in SUBSET Row, IdsOf(loaded) \subseteq IdsOf(D.images)
  PROVE  \E h, top : /\ top \in Nat /\ \A n \in IdsOf(loaded) : n \in 1 .. top
                     /\ h[0] = D /\ FillImages(D, loaded) = h[top]
                     /\ \A n \in 0 .. top : h[n] \in TablesWith(IdsOf(D.images))
                     /\ \A n \in 1 .. top :
                          h[n] = IF n \in IdsOf(loaded)
                                 THEN FillImage(h[n - 1], LoadedAs(loaded, n)) ELSE h[n - 1]
<1> DEFINE ids == IdsOf(D.images)
           top == Greatest(IdsOf(loaded) \cup {0})
           S == TablesWith(ids)
           Body(K, n) == IF n \in IdsOf(loaded) THEN FillImage(K, LoadedAs(loaded, n)) ELSE K
           step == [x \in (1 .. top) \X S |-> Body(x[2], x[1])]
           Is(h) == h = [n \in 0 .. top |->
                           IF n = 0 THEN D
                           ELSE IF n \in IdsOf(loaded)
                           THEN FillImage(h[n - 1], LoadedAs(loaded, n))
                           ELSE h[n - 1]]
           upTo == CHOOSE h : Is(h)
<1>1. top \in Nat /\ \A n \in IdsOf(loaded) : n \in 1 .. top
  <2>1. IsFiniteSet(IdsOf(loaded))
    BY FS_Subset DEF GoodTables
  <2>2. \A n \in IdsOf(loaded) : n \in Nat \ {0}
    BY DEF IdsOf, Row
  <2>3. IdsOf(loaded) \cup {0} \in SUBSET Nat
    BY <2>2
  <2>4. IsFiniteSet(IdsOf(loaded) \cup {0})
    BY <2>1, FS_AddElement
  <2>5. IdsOf(loaded) \cup {0} # {}
    OBVIOUS
  <2>6. top \in IdsOf(loaded) \cup {0} /\ \A n \in IdsOf(loaded) \cup {0} : n <= top
    BY <2>3, <2>4, <2>5, GreatestIs
  <2> HIDE DEF top
  <2> QED
    BY <2>2, <2>3, <2>6
<1>2. FillImages(D, loaded) = upTo[top]
  BY DEF FillImages, LoadedAs
<1> HIDE DEF top
<1>3. \A K \in S : \A n \in 1 .. top : Body(K, n) \in S
  <2> SUFFICES ASSUME NEW K \in S, NEW n \in 1 .. top PROVE Body(K, n) \in S
    OBVIOUS
  <2>1. K \in GoodTables /\ IdsOf(K.images) = ids
    BY DEF TablesWith
  <2>2. CASE n \in IdsOf(loaded)
    <3>1. LoadedAs(loaded, n) \in Row /\ LoadedAs(loaded, n).id = n
      BY <2>2, LoadedAsIs
    <3>2. FillImage(K, LoadedAs(loaded, n)) \in S
      BY <2>1, <2>2, <3>1, FillKeepsIds
    <3> QED
      BY <2>2, <3>2
  <2>3. CASE n \notin IdsOf(loaded)
    BY <2>3
  <2> QED
    BY <2>2, <2>3
<1>4. D \in S
  BY DEF TablesWith
<1> HIDE DEF S
<1>5. step \in [(1 .. top) \X S -> S]
  BY <1>3
<1>6. \A K \in S : \A n \in 1 .. top : step[<<n, K>>] = Body(K, n)
  OBVIOUS
<1> HIDE DEF step
<1>7. PICK g : Iterated(top, S, D, step, g)
  BY <1>1, <1>4, <1>5, Iterates
<1>8. /\ g \in [0 .. top -> S] /\ g[0] = D
      /\ \A n \in 1 .. top : g[n] = step[<<n, g[n - 1]>>]
  BY <1>7 DEF Iterated
<1>9. \A n \in 1 .. top : n - 1 \in 0 .. top
  BY <1>1
<1>10. \A n \in 1 .. top : g[n] = Body(g[n - 1], n)
  BY <1>6, <1>8, <1>9
<1>11. Is(g)
  <2>1. \A n \in 0 .. top : n # 0 => n \in 1 .. top
    BY <1>1
  <2>2. g = [n \in 0 .. top |-> g[n]]
    BY <1>8
  <2>3. \A n \in 0 .. top :
          g[n] = IF n = 0 THEN D
                 ELSE IF n \in IdsOf(loaded) THEN FillImage(g[n - 1], LoadedAs(loaded, n))
                 ELSE g[n - 1]
    BY <1>8, <1>10, <2>1
  <2> QED
    BY <2>2, <2>3
<1>12. Is(upTo)
  <2> HIDE DEF Is
  <2> QED
    BY <1>11
<1> HIDE DEF upTo
<1>13. upTo[0] = D /\ \A n \in 1 .. top : upTo[n] = Body(upTo[n - 1], n)
  BY <1>1, <1>12
<1> HIDE DEF Body
<1>14. \A n \in 0 .. top : upTo[n] \in S
  <2> DEFINE Good == {n \in 0 .. top : upTo[n] \in S}
  <2>1. 0 \in Good
    BY <1>1, <1>4, <1>13
  <2>2. ASSUME NEW n \in 1 .. top, n - 1 \in Good PROVE n \in Good
    BY <1>1, <1>3, <1>13, <2>2
  <2> HIDE DEF Good
  <2>3. \A n \in 0 .. top : n \in Good
    BY <1>1, <2>1, <2>2, ReachesAll
  <2> QED
    BY <2>3 DEF Good
<1> QED
  BY <1>1, <1>2, <1>13, <1>14 DEF Body, S

\* The rows of a chunk follow the bodies, the others stay
LEMMA SyncsKeep ==
  ASSUME NEW D \in GoodTables, NEW places \in SUBSET Entry,
         NEW bodies \in [Entry -> SUBSET Uri], NEW rank \in Order
  PROVE  LET E == SyncImagesForEntries(D, places, bodies, rank)
         IN  /\ E \in GoodTables
             /\ \A i \in E.images : i \in D.images \/ i.sig = NoSig
             /\ \A e \in Entry : IF e \in EntriesAt(places) THEN UrisOf(RowsOf(E, e)) = bodies[e]
                                 ELSE RowsOf(E, e) = RowsOf(D, e)
             /\ UrisOnce(D.images) => UrisOnce(E.images)
             /\ \A left : CacheIsWhole(D, left) => CacheIsWhole(E, left)
<1>1. PICK h : /\ h[0] = D /\ SyncImagesForEntries(D, places, bodies, rank) = h[MaxEntry]
               /\ \A n \in 0 .. MaxEntry : h[n] \in GoodTables
               /\ \A n \in 1 .. MaxEntry :
                    h[n] = IF n \in places
                           THEN SyncEntry(h[n - 1], Listed[n], bodies[Listed[n]], rank)
                           ELSE h[n - 1]
  BY SyncsInOrder
<1> DEFINE RowsFrom(E) == \A i \in E.images : i \in D.images \/ i.sig = NoSig
           Others(E) == \A e \in Entry \ EntriesAt(places) : RowsOf(E, e) = RowsOf(D, e)
           Follow(E, n) ==
             \A m \in places : m <= n => UrisOf(RowsOf(E, Listed[m])) = bodies[Listed[m]]
           Once(E) == UrisOnce(D.images) => UrisOnce(E.images)
           Whole(E) == \A left : CacheIsWhole(D, left) => CacheIsWhole(E, left)
           Kept(E, n) == RowsFrom(E) /\ Others(E) /\ Follow(E, n) /\ Once(E) /\ Whole(E)
           G == {n \in 0 .. MaxEntry : Kept(h[n], n)}
<1>2. MaxEntry \in Nat /\ \A n \in Entry : Listed[n] \in Entry
  BY ImageBounds
<1>3. 0 \in G
  BY <1>1, <1>2 DEF Entry
<1>4. ASSUME NEW n \in 1 .. MaxEntry, n - 1 \in G PROVE n \in G
  <2>1. Kept(h[n - 1], n - 1) /\ n - 1 \in 0 .. MaxEntry /\ n \in 0 .. MaxEntry /\ n \in Entry
    BY <1>4 DEF Entry
  <2>2. CASE n \in places
    <3>1. h[n] = SyncEntry(h[n - 1], Listed[n], bodies[Listed[n]], rank)
      BY <1>1, <2>2
    <3>2. h[n - 1] \in GoodTables /\ Listed[n] \in Entry /\ bodies[Listed[n]] \in SUBSET Uri
      BY <1>1, <1>2, <2>1
    <3>3. Synchronised(h[n - 1], h[n], Listed[n], bodies[Listed[n]])
      BY <2>1, <3>1, <3>2, SyncEntryKeeps
    <3>4. RowsFrom(h[n])
      BY <2>1, <3>3 DEF Synchronised
    <3>5. \A e \in Entry : e # Listed[n] => RowsOf(h[n], e) = RowsOf(h[n - 1], e)
      BY <3>3 DEF Synchronised, RowsOf
    <3>6. Others(h[n])
      <4>1. Listed[n] \in EntriesAt(places)
        BY <2>2 DEF EntriesAt
      <4> QED
        BY <2>1, <3>5, <4>1
    <3>7. Follow(h[n], n)
      <4> SUFFICES ASSUME NEW m \in places, m <= n
                   PROVE  UrisOf(RowsOf(h[n], Listed[m])) = bodies[Listed[m]]
        OBVIOUS
      <4>1. CASE Listed[m] = Listed[n]
        BY <3>3, <4>1 DEF Synchronised
      <4>2. CASE Listed[m] # Listed[n]
        <5>1. m <= n - 1 /\ Listed[m] \in Entry
          BY <1>2, <4>2 DEF Entry
        <5> QED
          BY <2>1, <3>5, <4>2, <5>1
      <4> QED
        BY <4>1, <4>2
    <3>8. Once(h[n]) /\ Whole(h[n])
      BY <2>1, <3>3 DEF Synchronised
    <3> QED
      BY <2>1, <3>4, <3>6, <3>7, <3>8
  <2>3. CASE n \notin places
    <3>1. h[n] = h[n - 1]
      BY <1>1, <2>3
    <3>2. \A m \in places : m <= n => m <= n - 1
      BY <2>3 DEF Entry
    <3>3. Follow(h[n], n)
      BY <2>1, <3>1, <3>2
    <3> QED
      BY <2>1, <3>1, <3>3
  <2> QED
    BY <2>2, <2>3
<1> HIDE DEF G
<1>5. MaxEntry \in G
  <2>1. \A n \in 0 .. MaxEntry : n \in G
    BY <1>2, <1>3, <1>4, ReachesAll
  <2> QED
    BY <1>2, <2>1
<1>6. \A m \in places : m <= MaxEntry
  BY DEF Entry
<1>7. MaxEntry \in 0 .. MaxEntry
  BY <1>2
<1>8. Kept(h[MaxEntry], MaxEntry)
  BY <1>5 DEF G
<1>9. \A e \in EntriesAt(places) : UrisOf(RowsOf(h[MaxEntry], e)) = bodies[e]
  BY <1>6, <1>8 DEF EntriesAt
<1> QED
  BY <1>1, <1>7, <1>8, <1>9

\* E is D with the images up to n filled
FilledUpTo(D, E, loaded, n) ==
  /\ \A i \in E.images : \E j \in D.images :
       /\ i.id = j.id /\ i.uri = j.uri /\ i.entry = j.entry
       /\ i.sig = IF j.id \in IdsOf(loaded) /\ j.id <= n THEN SigOf[LoadedAs(loaded, j.id).uri]
                  ELSE j.sig
  /\ \A j \in D.images : \E i \in E.images : i.id = j.id /\ i.uri = j.uri /\ i.entry = j.entry

\* The images that are like the row i, before or after a step from D to E
LikeIt(D, E, i) ==
  {k \in {l \in D.images \cup E.images : l.id \in IdsOf(E.images) \ {i.id}} : Alike(i.sig, k.sig)}

LEMMA FillsKeep ==
  ASSUME NEW D \in GoodTables, NEW loaded \in SUBSET Row, IdsOf(loaded) \subseteq IdsOf(D.images)
  PROVE  LET E == FillImages(D, loaded)
         IN  /\ E \in GoodTables
             /\ \E top \in Nat : /\ \A n \in IdsOf(loaded) : n <= top
                                 /\ FilledUpTo(D, E, loaded, top)
             /\ (\A i \in E.images : Cardinality(IdsOf(LikeIt(D, E, i))) <= MaxSimilar) =>
                  \A left : CacheIsWhole(D, left) => CacheIsWhole(E, left)
<1>1. PICK h, top :
        /\ top \in Nat /\ \A n \in IdsOf(loaded) : n \in 1 .. top
        /\ h[0] = D /\ FillImages(D, loaded) = h[top]
        /\ \A n \in 0 .. top : h[n] \in TablesWith(IdsOf(D.images))
        /\ \A n \in 1 .. top :
             h[n] = IF n \in IdsOf(loaded)
                    THEN FillImage(h[n - 1], LoadedAs(loaded, n)) ELSE h[n - 1]
  BY FillsInOrder
<1> DEFINE ids == IdsOf(D.images)
<1>2. \A n \in 0 .. top : h[n] \in GoodTables /\ IdsOf(h[n].images) = ids
  BY <1>1 DEF TablesWith
<1>3. \A n \in 0 .. top : h[n].images \in SUBSET Row /\ DistinctIds(h[n].images)
  BY <1>2 DEF GoodTables, AnyTables
<1>4. \A j \in D.images : j.id \in Nat \ {0} /\ j.id \in ids
  BY <1>1, <1>3 DEF Row, IdsOf
<1>5. ASSUME NEW n \in 1 .. top, n \in IdsOf(loaded)
      PROVE  /\ LoadedAs(loaded, n) \in Row /\ LoadedAs(loaded, n).id = n
             /\ n \in IdsOf(h[n - 1].images) /\ n - 1 \in 0 .. top /\ n \in 0 .. top
             /\ h[n] = FillImage(h[n - 1], LoadedAs(loaded, n))
             /\ h[n].images = Filled(h[n - 1].images, LoadedAs(loaded, n))
  <2>1. n - 1 \in 0 .. top /\ n \in 0 .. top
    BY <1>1
  <2>2. LoadedAs(loaded, n) \in Row /\ LoadedAs(loaded, n).id = n
    BY <1>5, LoadedAsIs
  <2>3. n \in IdsOf(h[n - 1].images)
    BY <1>2, <1>5, <2>1
  <2>4. h[n] = FillImage(h[n - 1], LoadedAs(loaded, n))
    BY <1>1, <1>5
  <2> QED
    BY <1>2, <2>1, <2>2, <2>3, <2>4, FillKeeps
<1>6. \A n \in 0 .. top : FilledUpTo(D, h[n], loaded, n)
  <2> DEFINE G == {n \in 0 .. top : FilledUpTo(D, h[n], loaded, n)}
  <2>1. 0 \in G
    BY <1>1, <1>4 DEF FilledUpTo
  <2>2. ASSUME NEW n \in 1 .. top, n - 1 \in G PROVE n \in G
    <3>1. n - 1 \in 0 .. top /\ n \in 0 .. top /\ FilledUpTo(D, h[n - 1], loaded, n - 1)
      BY <2>2
    <3>2. CASE n \in IdsOf(loaded)
      <4> DEFINE image == LoadedAs(loaded, n)
      <4>1. /\ \A i \in h[n].images : \E j \in h[n - 1].images :
                 /\ i.id = j.id /\ i.uri = j.uri /\ i.entry = j.entry
                 /\ i.sig = IF j.id = n THEN SigOf[image.uri] ELSE j.sig
            /\ \A j \in h[n - 1].images : \E i \in h[n].images :
                 i.id = j.id /\ i.uri = j.uri /\ i.entry = j.entry
        <5>1. /\ h[n - 1].images \in SUBSET Row /\ DistinctIds(h[n - 1].images)
              /\ image \in Row /\ image.id = n /\ image.id \in IdsOf(h[n - 1].images)
              /\ h[n].images = Filled(h[n - 1].images, image)
          BY <1>3, <1>5, <3>1, <3>2
        <5> HIDE DEF image
        <5> QED
          BY <5>1, FilledRows
      <4> HIDE DEF image
      <4>2. ASSUME NEW i \in h[n].images
            PROVE  \E j \in D.images :
                     /\ i.id = j.id /\ i.uri = j.uri /\ i.entry = j.entry
                     /\ i.sig = IF j.id \in IdsOf(loaded) /\ j.id <= n
                                THEN SigOf[LoadedAs(loaded, j.id).uri] ELSE j.sig
        <5>1. PICK k \in h[n - 1].images :
                /\ i.id = k.id /\ i.uri = k.uri /\ i.entry = k.entry
                /\ i.sig = IF k.id = n THEN SigOf[image.uri] ELSE k.sig
          BY <4>1
        <5>2. PICK j \in D.images :
                /\ k.id = j.id /\ k.uri = j.uri /\ k.entry = j.entry
                /\ k.sig = IF j.id \in IdsOf(loaded) /\ j.id <= n - 1
                           THEN SigOf[LoadedAs(loaded, j.id).uri] ELSE j.sig
          BY <3>1 DEF FilledUpTo
        <5>3. CASE j.id = n
          BY <3>2, <5>1, <5>2, <5>3 DEF image
        <5>4. CASE j.id # n
          <6>1. j.id <= n <=> j.id <= n - 1
            BY <1>4, <5>4
          <6> QED
            BY <5>1, <5>2, <5>4, <6>1
        <5> QED
          BY <5>3, <5>4
      <4>3. \A j \in D.images : \E i \in h[n].images :
              i.id = j.id /\ i.uri = j.uri /\ i.entry = j.entry
        BY <3>1, <4>1 DEF FilledUpTo
      <4> QED
        BY <3>1, <4>2, <4>3 DEF FilledUpTo
    <3>3. CASE n \notin IdsOf(loaded)
      <4>1. h[n] = h[n - 1]
        BY <1>1, <3>3
      <4>2. \A j \in D.images : j.id \in IdsOf(loaded) => (j.id <= n <=> j.id <= n - 1)
        BY <1>4, <3>3
      <4> QED
        BY <3>1, <4>1, <4>2 DEF FilledUpTo
    <3> QED
      BY <3>2, <3>3
  <2> HIDE DEF G
  <2>3. \A n \in 0 .. top : n \in G
    BY <1>1, <2>1, <2>2, ReachesAll
  <2> QED
    BY <2>3 DEF G
<1>7. top \in 0 .. top /\ \A n \in IdsOf(loaded) : n <= top /\ n \in Nat
  BY <1>1
<1>12. IdsOf(h[top].images) = ids /\ FilledUpTo(D, h[top], loaded, top)
  BY <1>2, <1>6, <1>7
<1>13. \A i \in h[top].images :
         i.id \in IdsOf(loaded) => i.sig = SigOf[LoadedAs(loaded, i.id).uri]
  <2> SUFFICES ASSUME NEW i \in h[top].images, i.id \in IdsOf(loaded)
               PROVE  i.sig = SigOf[LoadedAs(loaded, i.id).uri]
    OBVIOUS
  <2>1. PICK j \in D.images :
          /\ i.id = j.id
          /\ i.sig = IF j.id \in IdsOf(loaded) /\ j.id <= top THEN SigOf[LoadedAs(loaded, j.id).uri]
                     ELSE j.sig
    BY <1>12 DEF FilledUpTo
  <2> QED
    BY <1>7, <2>1
<1>8. ASSUME \A i \in h[top].images : Cardinality(IdsOf(LikeIt(D, h[top], i))) <= MaxSimilar,
             NEW n \in 1 .. top, n \in IdsOf(loaded)
      PROVE  Cardinality({o \in ids : Close(h[n], n, o)}) <= MaxSimilar
  <2>1. n \in 0 .. top /\ n \in ids
    BY <1>1, <1>2, <1>5, <1>8
  <2>2. PICK i \in h[top].images : i.id = n
    BY <1>12, <2>1 DEF IdsOf
  <2>3. i.sig = SigOf[LoadedAs(loaded, n).uri]
    BY <1>8, <1>13, <2>2
  <2>4. \A o \in ids : \E r \in h[n].images : r.id = o /\ SigIn(h[n], o) = r.sig
    BY <1>2, <1>3, <2>1, SigOfRow DEF IdsOf
  <2>5. SigIn(h[n], n) = i.sig
    <3>1. PICK r \in h[n].images : r.id = n /\ SigIn(h[n], n) = r.sig
      BY <2>1, <2>4
    <3>2. n <= n
      OBVIOUS
    <3> QED
      BY <1>6, <1>8, <2>1, <2>3, <3>1, <3>2 DEF FilledUpTo
  <2>6. ASSUME NEW o \in ids, Close(h[n], n, o) PROVE o \in IdsOf(LikeIt(D, h[top], i))
    <3>1. o # n /\ Alike(i.sig, SigIn(h[n], o))
      BY <2>5, <2>6 DEF Close
    <3>2. PICK r \in h[n].images : r.id = o /\ SigIn(h[n], o) = r.sig
      BY <2>4
    <3>3. PICK j \in D.images :
            /\ r.id = j.id
            /\ r.sig = IF j.id \in IdsOf(loaded) /\ j.id <= n THEN SigOf[LoadedAs(loaded, j.id).uri]
                       ELSE j.sig
      BY <1>6, <2>1 DEF FilledUpTo
    <3>4. \E k \in D.images \cup h[top].images : k.id = o /\ k.sig = r.sig
      <4>1. CASE o \in IdsOf(loaded) /\ o <= n
        <5>1. PICK k \in h[top].images : k.id = o
          BY <1>12 DEF IdsOf
        <5>2. k.sig = SigOf[LoadedAs(loaded, o).uri]
          BY <1>13, <4>1, <5>1
        <5> QED
          BY <3>2, <3>3, <4>1, <5>1, <5>2
      <4>2. CASE ~ (o \in IdsOf(loaded) /\ o <= n)
        BY <3>2, <3>3, <4>2
      <4> QED
        BY <4>1, <4>2
    <3>5. o \in IdsOf(h[top].images) \ {i.id}
      BY <1>2, <1>7, <2>2, <3>1
    <3>6. \E k \in LikeIt(D, h[top], i) : k.id = o
      BY <3>1, <3>2, <3>4, <3>5 DEF LikeIt
    <3> QED
      BY <3>6 DEF IdsOf
  <2>7. {o \in ids : Close(h[n], n, o)} \in SUBSET IdsOf(LikeIt(D, h[top], i))
    BY <2>6
  <2>8. IsFiniteSet(IdsOf(LikeIt(D, h[top], i)))
    <3>1. IdsOf(LikeIt(D, h[top], i)) \in SUBSET IdsOf(h[top].images)
      BY DEF IdsOf, LikeIt
    <3>2. IsFiniteSet(IdsOf(h[top].images))
      BY <1>2, <1>7 DEF GoodTables
    <3> QED
      BY <3>1, <3>2, FS_Subset
  <2>9. /\ Cardinality({o \in ids : Close(h[n], n, o)}) <= Cardinality(IdsOf(LikeIt(D, h[top], i)))
        /\ Cardinality({o \in ids : Close(h[n], n, o)}) \in Nat
        /\ Cardinality(IdsOf(LikeIt(D, h[top], i))) \in Nat
    BY <2>7, <2>8, FS_Subset, FS_CardinalityType
  <2>10. MaxSimilar \in Nat /\ Cardinality(IdsOf(LikeIt(D, h[top], i))) <= MaxSimilar
    BY <1>8, ImageBounds
  <2> QED
    BY <2>9, <2>10
<1>9. ASSUME \A i \in h[top].images : Cardinality(IdsOf(LikeIt(D, h[top], i))) <= MaxSimilar,
             NEW left, CacheIsWhole(D, left)
      PROVE  CacheIsWhole(h[top], left)
  <2> DEFINE G == {n \in 0 .. top : CacheIsWhole(h[n], left)}
  <2>1. 0 \in G
    BY <1>1, <1>9
  <2>2. ASSUME NEW n \in 1 .. top, n - 1 \in G PROVE n \in G
    <3>1. CacheIsWhole(h[n - 1], left) /\ n - 1 \in 0 .. top /\ n \in 0 .. top
      BY <2>2
    <3>2. CASE n \in IdsOf(loaded)
      <4>1. /\ LoadedAs(loaded, n) \in Row /\ LoadedAs(loaded, n).id = n
            /\ n \in IdsOf(h[n - 1].images)
            /\ h[n] = FillImage(h[n - 1], LoadedAs(loaded, n))
        BY <1>5, <3>2
      <4>2. h[n - 1] \in GoodTables /\ IdsOf(h[n - 1].images) = ids
        BY <1>2, <3>1
      <4>3. Cardinality({o \in ids : Close(h[n], n, o)}) <= MaxSimilar
        BY <1>8, <1>9, <3>2
      <4>4. Cardinality({o \in IdsOf(h[n - 1].images) :
                           Close(FillImage(h[n - 1], LoadedAs(loaded, n)), LoadedAs(loaded, n).id, o)})
              <= MaxSimilar
        BY <4>1, <4>2, <4>3
      <4>5. CacheIsWhole(FillImage(h[n - 1], LoadedAs(loaded, n)), left)
        BY <3>1, <4>1, <4>2, <4>4, FillKeeps
      <4> QED
        BY <3>1, <4>1, <4>5
    <3>3. CASE n \notin IdsOf(loaded)
      BY <1>1, <3>1, <3>3
    <3> QED
      BY <3>2, <3>3
  <2> HIDE DEF G
  <2>3. \A n \in 0 .. top : n \in G
    BY <1>1, <2>1, <2>2, ReachesAll
  <2> QED
    BY <1>7, <2>3 DEF G
<1>10. \E t \in Nat : (\A n \in IdsOf(loaded) : n <= t) /\ FilledUpTo(D, h[top], loaded, t)
  BY <1>1, <1>6, <1>7
<1>11. h[top] \in GoodTables
  BY <1>2, <1>7
<1> QED
  BY <1>1, <1>9, <1>10, <1>11

\* A chunk of the images is recalculated
LEMMA RecalcsInOrder ==
  ASSUME NEW D \in GoodTables, NEW todo \in SUBSET Nat, IsFiniteSet(todo), todo # {},
         ChunkOf(todo) \subseteq IdsOf(D.images)
  PROVE  \E h, top : /\ top \in Nat /\ \A n \in ChunkOf(todo) : n \in 1 .. top
                     /\ h[0] = D /\ RecalcChunk(D, todo) = h[top]
                     /\ \A n \in 0 .. top : h[n] \in GoodTables /\ h[n].images = D.images
                     /\ \A n \in 1 .. top :
                          h[n] = IF n \in ChunkOf(todo) THEN UpdateSimilarImagesCache(h[n - 1], n)
                                 ELSE h[n - 1]
<1> DEFINE chunk == ChunkOf(todo)
           top == Greatest(todo)
           S == {K \in GoodTables : K.images = D.images}
           Body(K, n) == IF n \in chunk THEN UpdateSimilarImagesCache(K, n) ELSE K
           step == [x \in (1 .. top) \X S |-> Body(x[2], x[1])]
           Is(h) == h = [n \in 0 .. top |->
                           IF n = 0 THEN D
                           ELSE IF n \in chunk THEN UpdateSimilarImagesCache(h[n - 1], n)
                           ELSE h[n - 1]]
           upTo == CHOOSE h : Is(h)
<1>1. top \in Nat /\ \A n \in chunk : n \in 1 .. top
  <2>1. top \in todo /\ \A n \in todo : n <= top
    BY GreatestIs
  <2>2. \A n \in chunk : n \in todo /\ n \in IdsOf(D.images)
    BY DEF ChunkOf
  <2>3. \A n \in IdsOf(D.images) : n # 0
    BY DEF IdsOf, GoodTables, AnyTables, Row
  <2> HIDE DEF top, chunk
  <2>4. \A n \in chunk : n \in Nat /\ n # 0 /\ n <= top
    BY <2>1, <2>2, <2>3
  <2>5. top \in Nat
    BY <2>1
  <2> QED
    BY <2>4, <2>5
<1>2. RecalcChunk(D, todo) = upTo[top]
  BY DEF RecalcChunk
<1>3. \A n \in chunk : n \in IdsOf(D.images)
  OBVIOUS
<1> HIDE DEF top, chunk
<1>4. \A K \in S : \A n \in 1 .. top : Body(K, n) \in S
  <2> SUFFICES ASSUME NEW K \in S, NEW n \in 1 .. top PROVE Body(K, n) \in S
    OBVIOUS
  <2>1. /\ K \in GoodTables /\ K.images = D.images
        /\ K \in AnyTables /\ DistinctIds(K.images) /\ IsFiniteSet(IdsOf(K.images))
        /\ NgramsAreWords(K) /\ CacheIsTrue(K)
    BY DEF GoodTables
  <2>2. CASE n \in chunk
    <3>1. n \in IdsOf(K.images)
      BY <1>3, <2>1, <2>2
    <3>2. UpdateSimilarImagesCache(K, n) \in GoodTables
          /\ UpdateSimilarImagesCache(K, n).images = K.images
      BY <2>1, <3>1, CacheUpdated DEF CacheIsTrue
    <3> QED
      BY <2>1, <2>2, <3>2
  <2>3. CASE n \notin chunk
    BY <2>3
  <2> QED
    BY <2>2, <2>3
<1>5. D \in S
  OBVIOUS
<1> HIDE DEF S
<1>6. step \in [(1 .. top) \X S -> S]
  BY <1>4
<1>7. \A K \in S : \A n \in 1 .. top : step[<<n, K>>] = Body(K, n)
  OBVIOUS
<1> HIDE DEF step
<1>8. PICK g : Iterated(top, S, D, step, g)
  BY <1>1, <1>5, <1>6, Iterates
<1>9. /\ g \in [0 .. top -> S] /\ g[0] = D
      /\ \A n \in 1 .. top : g[n] = step[<<n, g[n - 1]>>]
  BY <1>8 DEF Iterated
<1>10. \A n \in 1 .. top : n - 1 \in 0 .. top
  BY <1>1
<1>11. \A n \in 1 .. top : g[n] = Body(g[n - 1], n)
  BY <1>7, <1>9, <1>10
<1>12. Is(g)
  <2>1. \A n \in 0 .. top : n # 0 => n \in 1 .. top
    BY <1>1
  <2>2. g = [n \in 0 .. top |-> g[n]]
    BY <1>9
  <2>3. \A n \in 0 .. top :
          g[n] = IF n = 0 THEN D
                 ELSE IF n \in chunk THEN UpdateSimilarImagesCache(g[n - 1], n)
                 ELSE g[n - 1]
    BY <1>9, <1>11, <2>1
  <2> QED
    BY <2>2, <2>3
<1>13. Is(upTo)
  <2> HIDE DEF Is
  <2> QED
    BY <1>12
<1> HIDE DEF upTo
<1>14. upTo[0] = D /\ \A n \in 1 .. top : upTo[n] = Body(upTo[n - 1], n)
  BY <1>1, <1>13
<1> HIDE DEF Body
<1>15. \A n \in 0 .. top : upTo[n] \in S
  <2> DEFINE Good == {n \in 0 .. top : upTo[n] \in S}
  <2>1. 0 \in Good
    BY <1>1, <1>5, <1>14
  <2>2. ASSUME NEW n \in 1 .. top, n - 1 \in Good PROVE n \in Good
    BY <1>1, <1>4, <1>14, <2>2
  <2> HIDE DEF Good
  <2>3. \A n \in 0 .. top : n \in Good
    BY <1>1, <2>1, <2>2, ReachesAll
  <2> QED
    BY <2>3 DEF Good
<1> QED
  BY <1>1, <1>2, <1>14, <1>15 DEF Body, S, chunk

\* It keeps the rows, and what was left of the cache but for the chunk is there
LEMMA RecalcKeeps ==
  ASSUME NEW D \in GoodTables, NEW todo \in SUBSET Nat, IsFiniteSet(todo), todo # {},
         ChunkOf(todo) \subseteq IdsOf(D.images)
  PROVE  LET E == RecalcChunk(D, todo)
         IN  /\ E \in GoodTables /\ E.images = D.images
             /\ (\A i \in D.images : Cardinality(IdsOf(LikeIt(D, E, i))) <= MaxSimilar)
                  /\ CacheIsWhole(D, todo) => CacheIsWhole(E, todo \ ChunkOf(todo))
<1>1. PICK h, top :
        /\ top \in Nat /\ \A n \in ChunkOf(todo) : n \in 1 .. top
        /\ h[0] = D /\ RecalcChunk(D, todo) = h[top]
        /\ \A n \in 0 .. top : h[n] \in GoodTables /\ h[n].images = D.images
        /\ \A n \in 1 .. top :
             h[n] = IF n \in ChunkOf(todo) THEN UpdateSimilarImagesCache(h[n - 1], n)
                    ELSE h[n - 1]
  BY RecalcsInOrder
<1> DEFINE ids == IdsOf(D.images)
           rest(n) == todo \ {m \in ChunkOf(todo) : m <= n}
<1>2. top \in 0 .. top
  BY <1>1
<1>3. D.images \in SUBSET Row /\ DistinctIds(D.images) /\ D \in AnyTables /\ IsFiniteSet(ids)
  BY DEF GoodTables, AnyTables
<1>4. ASSUME \A i \in D.images : Cardinality(IdsOf(LikeIt(D, h[top], i))) <= MaxSimilar,
             NEW n \in ids
      PROVE  Cardinality({o \in ids : Close(D, n, o)}) <= MaxSimilar
  <2>1. PICK i \in D.images : i.id = n /\ SigIn(D, n) = i.sig
    BY <1>3, RowOfId
  <2>2. ASSUME NEW o \in ids, Close(D, n, o) PROVE o \in IdsOf(LikeIt(D, h[top], i))
    <3>1. PICK k \in D.images : k.id = o /\ SigIn(D, o) = k.sig
      BY <1>3, RowOfId
    <3>2. o # n /\ Alike(i.sig, k.sig)
      BY <2>1, <2>2, <3>1 DEF Close
    <3>3. k \in LikeIt(D, h[top], i)
      BY <1>1, <1>2, <2>1, <3>1, <3>2 DEF LikeIt
    <3> QED
      BY <3>1, <3>3 DEF IdsOf
  <2>3. {o \in ids : Close(D, n, o)} \in SUBSET IdsOf(LikeIt(D, h[top], i))
    BY <2>2
  <2>4. IsFiniteSet(IdsOf(LikeIt(D, h[top], i)))
    <3>1. IdsOf(LikeIt(D, h[top], i)) \in SUBSET ids
      BY <1>1, <1>2 DEF IdsOf, LikeIt
    <3> QED
      BY <1>3, <3>1, FS_Subset
  <2>5. /\ Cardinality({o \in ids : Close(D, n, o)}) <= Cardinality(IdsOf(LikeIt(D, h[top], i)))
        /\ Cardinality({o \in ids : Close(D, n, o)}) \in Nat
        /\ Cardinality(IdsOf(LikeIt(D, h[top], i))) \in Nat
    BY <2>3, <2>4, FS_Subset, FS_CardinalityType
  <2>6. MaxSimilar \in Nat /\ Cardinality(IdsOf(LikeIt(D, h[top], i))) <= MaxSimilar
    BY <1>4, ImageBounds
  <2> QED
    BY <2>5, <2>6
<1>5. ASSUME \A i \in D.images : Cardinality(IdsOf(LikeIt(D, h[top], i))) <= MaxSimilar,
             CacheIsWhole(D, todo)
      PROVE  CacheIsWhole(h[top], todo \ ChunkOf(todo))
  <2> DEFINE G == {n \in 0 .. top : CacheIsWhole(h[n], rest(n))}
  <2>1. 0 \in G
    <3>1. rest(0) = todo
      BY <1>1
    <3>2. 0 \in 0 .. top
      BY <1>1
    <3> HIDE DEF rest
    <3> QED
      BY <1>1, <1>5, <3>1, <3>2
  <2>2. ASSUME NEW n \in 1 .. top, n - 1 \in G PROVE n \in G
    <3>1. CacheIsWhole(h[n - 1], rest(n - 1)) /\ n - 1 \in 0 .. top /\ n \in 0 .. top
      BY <2>2
    <3>2. CASE n \in ChunkOf(todo)
      <4>1. h[n] = UpdateSimilarImagesCache(h[n - 1], n)
        BY <1>1, <3>2
      <4>2. h[n - 1] \in GoodTables /\ h[n - 1].images = D.images
        BY <1>1, <3>1
      <4>3. /\ h[n - 1] \in AnyTables /\ DistinctIds(h[n - 1].images)
            /\ IsFiniteSet(IdsOf(h[n - 1].images)) /\ NgramsAreWords(h[n - 1])
            /\ n \in IdsOf(h[n - 1].images)
        BY <3>2, <4>2 DEF GoodTables
      <4>4. Cardinality({o \in IdsOf(h[n - 1].images) : Close(h[n - 1], n, o)}) <= MaxSimilar
        <5>1. \A a, b : Close(h[n - 1], a, b) <=> Close(D, a, b)
          BY <4>2, ClosenessOfRows
        <5>2. Cardinality({o \in ids : Close(D, n, o)}) <= MaxSimilar
          BY <1>4, <1>5, <3>2
        <5> QED
          BY <4>2, <5>1, <5>2
      <4>5. \A a, b \in IdsOf(h[n - 1].images) \ {n} :
              Close(h[n - 1], a, b) =>
                <<a, b>> \in h[n - 1].similar \/ (a \in rest(n - 1) /\ b \in rest(n - 1))
        BY <3>1 DEF CacheIsWhole
      <4>6. CacheIsWhole(UpdateSimilarImagesCache(h[n - 1], n), rest(n - 1) \ {n})
        <5> HIDE DEF rest
        <5> QED
          BY <4>3, <4>4, <4>5, CacheCompleted
      <4>7. rest(n - 1) \ {n} = rest(n)
        <5>1. \A m \in ChunkOf(todo) : m \in Nat
          BY DEF ChunkOf
        <5>2. \A m \in ChunkOf(todo) : m <= n <=> m <= n - 1 \/ m = n
          BY <5>1
        <5> QED
          BY <3>2, <5>2
      <4> QED
        BY <3>1, <4>1, <4>6, <4>7
    <3>3. CASE n \notin ChunkOf(todo)
      <4>1. \A m \in ChunkOf(todo) : m \in Nat
        BY DEF ChunkOf
      <4>2. \A m \in ChunkOf(todo) : m <= n <=> m <= n - 1
        BY <3>3, <4>1
      <4>3. rest(n - 1) = rest(n) /\ h[n] = h[n - 1]
        BY <1>1, <3>3, <4>2
      <4> QED
        BY <3>1, <4>3
    <3> QED
      BY <3>2, <3>3
  <2> HIDE DEF G
  <2>3. \A n \in 0 .. top : n \in G
    BY <1>1, <2>1, <2>2, ReachesAll
  <2>4. rest(top) = todo \ ChunkOf(todo)
    BY <1>1
  <2> HIDE DEF rest
  <2>5. CacheIsWhole(h[top], rest(top))
    BY <1>2, <2>3 DEF G
  <2> QED
    BY <2>4, <2>5
<1> QED
  BY <1>1, <1>2, <1>5

-----------------------------------------------------------------------------
(* The tables before and after a step.                                     *)

LEMMA TablesAreGood ==
  ASSUME RowsAreGood, CacheInv
  PROVE  /\ Tables \in GoodTables
         /\ Tables.images = images /\ Tables.ngram = ngram /\ Tables.similar = similar
<1>1. Tables.images = images /\ Tables.ngram = ngram /\ Tables.similar = similar
  BY DEF Tables
<1>2. ngram \in SUBSET (Nat \X Word)
  <2>1. \A x : x \in ngram <=> \E i \in images : x \in {i.id} \X Words(i.sig)
    BY <1>1 DEF CacheInv, NgramsAreWords
  <2>2. \A i \in images : i.id \in Nat /\ Words(i.sig) \subseteq Word
    BY WordsType DEF RowsAreGood, Row, Sig
  <2>3. \A i \in images : \A x \in {i.id} \X Words(i.sig) : x \in Nat \X Word
    BY <2>2
  <2> QED
    BY <2>1, <2>3
<1>3. Tables \in AnyTables
  BY <1>2 DEF Tables, AnyTables, RowsAreGood
<1> QED
  BY <1>1, <1>3 DEF GoodTables, RowsAreGood, CacheInv

LEMMA BecomesGood ==
  ASSUME NEW D \in GoodTables, Become(D), UrisOnce(D.images)
  PROVE  Tables' = D /\ images' = D.images /\ RowsAreGood' /\ CacheInv'
<1>1. images' = D.images /\ ngram' = D.ngram /\ similar' = D.similar
  BY DEF Become
<1>2. D \in AnyTables /\ DistinctIds(D.images) /\ IsFiniteSet(IdsOf(D.images))
      /\ NgramsAreWords(D) /\ CacheIsTrue(D)
  BY DEF GoodTables
<1>3. Tables' = D
  BY <1>1, <1>2 DEF Tables, AnyTables
<1>4. RowsAreGood'
  BY <1>1, <1>2 DEF RowsAreGood, AnyTables
<1>5. CacheInv'
  BY <1>2, <1>3 DEF CacheInv
<1> QED
  BY <1>1, <1>3, <1>4, <1>5

LEMMA TablesStay ==
  ASSUME RowsAreGood, CacheInv, UNCHANGED tables
  PROVE  /\ RowsAreGood' /\ CacheInv' /\ Tables' = Tables
         /\ \A e : ImagesOf(e)' = ImagesOf(e)
<1>1. images' = images /\ ngram' = ngram /\ similar' = similar
  BY DEF tables
<1>2. Tables' = Tables
  BY <1>1 DEF Tables
<1> QED
  BY <1>1, <1>2 DEF RowsAreGood, CacheInv, ImagesOf

\* The rows that are written have the signatures of the images that were loaded
LEMMA WriteKeeps ==
  ASSUME RowsAreGood, CacheInv, SignatureIsOwn, NEW loaded \in SUBSET Row, DistinctIds(loaded),
         Write(loaded)
  PROVE  /\ RowsAreGood' /\ CacheInv' /\ SignatureIsOwn'
         /\ \A e : UrisOf(ImagesOf(e)') = UrisOf(ImagesOf(e))
         /\ FewAlike => \A left : CacheIsWhole(Tables, left) => CacheIsWhole(Tables', left)
<1> DEFINE D == Tables
           E == FillImages(Tables, loaded)
<1>0. /\ IdsOf(loaded) \subseteq IdsOf(images) /\ Become(E)
      /\ mistaken' = (mistaken \ IdsOf(loaded)) \cup
           {i.id : i \in {l \in loaded : \E r \in images : r.id = l.id /\ r.uri # l.uri}}
  BY DEF Write, CanFill
<1>1. D \in GoodTables /\ D.images = images
  BY TablesAreGood
<1> HIDE DEF D
<1>2. /\ E \in GoodTables
      /\ \E top \in Nat : /\ \A n \in IdsOf(loaded) : n <= top
                          /\ FilledUpTo(D, E, loaded, top)
      /\ (\A i \in E.images : Cardinality(IdsOf(LikeIt(D, E, i))) <= MaxSimilar) =>
           \A left : CacheIsWhole(D, left) => CacheIsWhole(E, left)
  BY <1>0, <1>1, FillsKeep DEF D
<1> HIDE DEF E
<1>3. PICK top \in Nat : (\A n \in IdsOf(loaded) : n <= top) /\ FilledUpTo(D, E, loaded, top)
  BY <1>2
<1>4. \A i \in E.images : \E j \in images :
        /\ i.id = j.id /\ i.uri = j.uri /\ i.entry = j.entry
        /\ i.sig = IF j.id \in IdsOf(loaded) THEN SigOf[LoadedAs(loaded, j.id).uri] ELSE j.sig
  BY <1>1, <1>3 DEF FilledUpTo
<1>5. \A j \in images : \E i \in E.images : i.id = j.id /\ i.uri = j.uri /\ i.entry = j.entry
  BY <1>1, <1>3 DEF FilledUpTo
<1>6. UrisOnce(E.images)
  <2> SUFFICES ASSUME NEW i \in E.images, NEW k \in E.images, i.entry = k.entry, i.uri = k.uri
               PROVE  i = k
    BY DEF UrisOnce
  <2>1. PICK j \in images : i.id = j.id /\ i.uri = j.uri /\ i.entry = j.entry
    BY <1>4
  <2>2. PICK l \in images : k.id = l.id /\ k.uri = l.uri /\ k.entry = l.entry
    BY <1>4
  <2>3. j = l
    BY <2>1, <2>2 DEF RowsAreGood, UrisOnce
  <2> QED
    BY <1>2, <2>1, <2>2, <2>3 DEF GoodTables, DistinctIds
<1>7. Tables' = E /\ images' = E.images /\ RowsAreGood' /\ CacheInv'
  BY <1>0, <1>2, <1>6, BecomesGood DEF E
<1>8. SignatureIsOwn'
  <2> SUFFICES ASSUME NEW i \in E.images, i.id \notin mistaken' PROVE i.sig \in {NoSig, SigOf[i.uri]}
    BY <1>7 DEF SignatureIsOwn
  <2>1. PICK j \in images :
          /\ i.id = j.id /\ i.uri = j.uri
          /\ i.sig = IF j.id \in IdsOf(loaded) THEN SigOf[LoadedAs(loaded, j.id).uri] ELSE j.sig
    BY <1>4
  <2>2. CASE j.id \in IdsOf(loaded)
    <3>1. LoadedAs(loaded, j.id) \in loaded /\ LoadedAs(loaded, j.id).id = j.id
      BY <2>2, LoadedAsIs
    <3>2. LoadedAs(loaded, j.id).uri = j.uri
      BY <1>0, <2>1, <3>1
    <3> QED
      BY <2>1, <2>2, <3>2
  <2>3. CASE j.id \notin IdsOf(loaded)
    BY <1>0, <2>1, <2>3 DEF SignatureIsOwn
  <2> QED
    BY <2>2, <2>3
<1>9. ASSUME NEW e PROVE UrisOf(ImagesOf(e)') = UrisOf(ImagesOf(e))
  <2>1. ImagesOf(e)' = {i \in E.images : i.entry = e}
    BY <1>7 DEF ImagesOf
  <2>2. \A u : (\E i \in E.images : i.entry = e /\ i.uri = u) <=>
               (\E j \in images : j.entry = e /\ j.uri = u)
    BY <1>4, <1>5
  <2>3. \A u : u \in UrisOf(ImagesOf(e)') <=> \E i \in E.images : i.entry = e /\ i.uri = u
    BY <2>1 DEF UrisOf
  <2>4. \A u : u \in UrisOf(ImagesOf(e)) <=> \E j \in images : j.entry = e /\ j.uri = u
    BY DEF UrisOf, ImagesOf
  <2>5. \A u : u \in UrisOf(ImagesOf(e)') <=> u \in UrisOf(ImagesOf(e))
    BY <2>2, <2>3, <2>4
  <2> QED
    BY <2>5
<1>10. ASSUME FewAlike PROVE \A i \in E.images : Cardinality(IdsOf(LikeIt(D, E, i))) <= MaxSimilar
  BY <1>1, <1>7, <1>10 DEF FewAlike, LikeIt
<1> QED
  BY <1>2, <1>7, <1>8, <1>9, <1>10 DEF D

\* What a synchronisation makes of the tables
LEMMA WriteSyncKeeps ==
  ASSUME RowsAreGood, CacheInv, SignatureIsOwn, NEW D \in GoodTables, WriteSync(D),
         \A i \in D.images : i \in images \/ i.sig = NoSig,
         UrisOnce(images) => UrisOnce(D.images),
         \A left : CacheIsWhole(Tables, left) => CacheIsWhole(D, left)
  PROVE  /\ RowsAreGood' /\ CacheInv' /\ SignatureIsOwn' /\ images' = D.images
         /\ \A left : CacheIsWhole(Tables, left) => CacheIsWhole(Tables', left)
<1>0. Become(D) /\ mistaken' = {n \in mistaken : \E i \in D.images \cap images : i.id = n}
  BY DEF WriteSync
<1>1. Tables' = D /\ images' = D.images /\ RowsAreGood' /\ CacheInv'
  BY <1>0, BecomesGood DEF RowsAreGood
<1>2. SignatureIsOwn'
  <2> SUFFICES ASSUME NEW i \in D.images, i.id \notin mistaken' PROVE i.sig \in {NoSig, SigOf[i.uri]}
    BY <1>1 DEF SignatureIsOwn
  <2>1. CASE i \in images
    BY <1>0, <2>1 DEF SignatureIsOwn
  <2>2. CASE i \notin images
    BY <2>2
  <2> QED
    BY <2>1, <2>2
<1> QED
  BY <1>1, <1>2

-----------------------------------------------------------------------------
(* The rows follow the bodies, and what is cached is so, in every step.    *)

IInv == RowsInv /\ CacheInv

LEMMA SiteStays ==
  ASSUME SiteShape, UNCHANGED <<body, due, behind, torn>>
  PROVE  SiteShape'
  BY DEF SiteShape

LEMMA JobStays ==
  ASSUME JobShape, UNCHANGED job
  PROVE  JobShape'
  BY DEF JobShape

LEMMA ToolStays ==
  ASSUME ToolShape, UNCHANGED tool
  PROVE  ToolShape'
  BY DEF ToolShape

LEMMA IdleIsJob == ASSUME job' = Idle PROVE JobShape'
  BY DEF JobShape, Idle, NoEntry, DistinctIds

LEMMA OffIsTool == ASSUME tool' = Off PROVE ToolShape'
<1>1. IsFiniteSet({})
  BY FS_EmptySet
<1> QED
  BY <1>1 DEF ToolShape, Off, DistinctIds

\* The tables are as they were, and so is what the history says of them
LEMMA RowsStay ==
  ASSUME IInv, UNCHANGED <<images, ngram, similar, mistaken>>
  PROVE  /\ RowsAreGood' /\ CacheInv' /\ SignatureIsOwn'
         /\ \A e : UrisOf(ImagesOf(e)') = UrisOf(ImagesOf(e))
<1>1. RowsAreGood /\ CacheInv /\ UNCHANGED tables
  BY DEF IInv, RowsInv, tables
<1>2. RowsAreGood' /\ CacheInv' /\ \A e : ImagesOf(e)' = ImagesOf(e)
  BY <1>1, TablesStay
<1>3. SignatureIsOwn'
  BY DEF IInv, RowsInv, SignatureIsOwn
<1> QED
  BY <1>2, <1>3

\* The entries that are neither due nor behind are those of before, with their rows
LEMMA FollowStay ==
  ASSUME RowsFollow, UNCHANGED body, due \cup behind \subseteq due' \cup behind',
         \A e : UrisOf(ImagesOf(e)') = UrisOf(ImagesOf(e)),
         job.pc = "read" => \/ job'.pc = "read" /\ job'.entry = job.entry
                            \/ job.entry \in due' \cup behind',
         job'.pc = "read" => UNCHANGED job
  PROVE  RowsFollow'
<1>1. ASSUME NEW e \in Entry \ (due' \cup behind')
      PROVE  (job'.pc = "read" /\ job'.entry = e) \/ UrisOf(ImagesOf(e)') = body'[e]
  <2>1. (job.pc = "read" /\ job.entry = e) \/ UrisOf(ImagesOf(e)) = body[e]
    BY <1>1 DEF RowsFollow
  <2> QED
    BY <1>1, <2>1
<1>2. job'.pc = "read" /\ job'.body # body'[job'.entry] => job'.entry \in due' \cup behind'
  BY DEF RowsFollow
<1> QED
  BY <1>1, <1>2 DEF RowsFollow

LEMMA ImageInit == Init => IInv
<1> SUFFICES ASSUME Init PROVE IInv
  OBVIOUS
<1>0. /\ body = [e \in Entry |-> {}] /\ images = {} /\ ngram = {} /\ similar = {} /\ due = {}
      /\ job = Idle /\ tool = Off /\ behind = {} /\ torn = FALSE
  BY DEF Init
<1>1. IdsOf(images) = {} /\ \A e : UrisOf(ImagesOf(e)) = {}
  BY <1>0 DEF IdsOf, UrisOf, ImagesOf
<1>2. RowsAreGood
  BY <1>0, <1>1, FS_EmptySet DEF RowsAreGood, DistinctIds, UrisOnce
<1>3. SiteShape /\ RowsFollow /\ SignatureIsOwn
  BY <1>0, <1>1 DEF SiteShape, RowsFollow, SignatureIsOwn, Idle
<1>4. JobShape
  BY <1>0 DEF JobShape, Idle, NoEntry, DistinctIds
<1>5. ToolShape
  BY <1>0, FS_EmptySet DEF ToolShape, Off, DistinctIds
<1>6. CacheInv
  BY <1>0 DEF CacheInv, NgramsAreWords, CacheIsTrue, Tables
<1> QED
  BY <1>2, <1>3, <1>4, <1>5, <1>6 DEF IInv, RowsInv

LEMMA UploadKeeps ==
  ASSUME IInv, UNCHANGED <<body, tables, due, job, tool, behind, mistaken, torn>>
  PROVE  IInv'
<1>1. UNCHANGED <<body, images, ngram, similar, due, job, tool, behind, mistaken, torn>>
  BY DEF tables
<1>2. /\ RowsAreGood' /\ CacheInv' /\ SignatureIsOwn'
      /\ \A e : UrisOf(ImagesOf(e)') = UrisOf(ImagesOf(e))
  BY <1>1, RowsStay
<1>3. RowsFollow'
  BY <1>1, <1>2, FollowStay DEF IInv, RowsInv
<1> QED
  BY <1>1, <1>2, <1>3, SiteStays, JobStays, ToolStays DEF IInv, RowsInv

LEMMA SaveKeeps ==
  ASSUME IInv, NEW e \in Entry, NEW uris \in SUBSET Uri, NEW public \in BOOLEAN,
         Save(e, uris, public)
  PROVE  IInv'
<1>0. /\ body' = [body EXCEPT ![e] = uris]
      /\ due' = IF public THEN due \cup {e} ELSE due
      /\ behind' = IF public THEN behind ELSE behind \cup {e}
      /\ UNCHANGED <<images, ngram, similar, job, tool, mistaken, torn>>
  BY DEF Save, tables
<1>1. /\ RowsAreGood' /\ CacheInv' /\ SignatureIsOwn'
      /\ \A f : UrisOf(ImagesOf(f)') = UrisOf(ImagesOf(f))
  BY <1>0, RowsStay
<1>2. SiteShape'
  BY <1>0 DEF IInv, RowsInv, SiteShape
<1>3. RowsFollow'
  <2>0. \A f \in Entry \ {e} : body'[f] = body[f]
    BY <1>0 DEF IInv, RowsInv, SiteShape
  <2>1. ASSUME NEW f \in Entry \ (due' \cup behind')
        PROVE  (job'.pc = "read" /\ job'.entry = f) \/ UrisOf(ImagesOf(f)') = body'[f]
    <3>1. f # e /\ f \notin due /\ f \notin behind
      BY <1>0, <2>1
    <3>2. (job.pc = "read" /\ job.entry = f) \/ UrisOf(ImagesOf(f)) = body[f]
      BY <3>1 DEF IInv, RowsInv, RowsFollow
    <3> QED
      BY <1>0, <1>1, <2>0, <3>1, <3>2
  <2>2. ASSUME job.pc = "read", job.body # body'[job.entry]
        PROVE  job.entry \in due' \cup behind'
    <3>1. job.entry \in Entry
      BY <2>2 DEF IInv, RowsInv, JobShape
    <3>2. CASE job.entry = e
      BY <1>0, <3>2
    <3>3. CASE job.entry # e
      <4>1. job.entry \in due \cup behind
        BY <2>0, <2>2, <3>1, <3>3 DEF IInv, RowsInv, RowsFollow
      <4> QED
        BY <1>0, <4>1
    <3> QED
      BY <3>2, <3>3
  <2> QED
    BY <1>0, <2>1, <2>2 DEF RowsFollow
<1> QED
  BY <1>0, <1>1, <1>2, <1>3, JobStays, ToolStays DEF IInv, RowsInv

LEMMA StartKeeps ==
  ASSUME IInv, NEW e \in Entry, Start(e)
  PROVE  IInv'
<1>0. /\ job = Idle /\ due' = due \ {e}
      /\ job' = [Idle EXCEPT !.pc = "read", !.entry = e, !.body = body[e]]
      /\ UNCHANGED <<body, images, ngram, similar, tool, behind, mistaken, torn>>
  BY DEF Start, tables
<1>1. /\ RowsAreGood' /\ CacheInv' /\ SignatureIsOwn'
      /\ \A f : UrisOf(ImagesOf(f)') = UrisOf(ImagesOf(f))
  BY <1>0, RowsStay
<1>2. SiteShape'
  BY <1>0 DEF IInv, RowsInv, SiteShape
<1>3. job.pc = "idle" /\ job'.pc = "read" /\ job'.entry = e
  BY <1>0 DEF Idle
<1>4. JobShape'
  <2>1. body[e] \in SUBSET Uri
    BY DEF IInv, RowsInv, SiteShape
  <2> QED
    BY <1>0, <2>1 DEF JobShape, Idle, DistinctIds
<1>5. RowsFollow'
  <2> SUFFICES ASSUME NEW f \in Entry \ (due' \cup behind'), f # e
               PROVE  UrisOf(ImagesOf(f)') = body'[f]
    BY <1>0, <1>3 DEF RowsFollow, Idle
  <2>1. f \notin due /\ f \notin behind
    BY <1>0
  <2>2. job.pc # "read"
    BY <1>0 DEF Idle
  <2> QED
    BY <1>0, <1>1, <2>1, <2>2 DEF IInv, RowsInv, RowsFollow
<1> QED
  BY <1>0, <1>1, <1>2, <1>4, <1>5, ToolStays DEF IInv, RowsInv

LEMMA SyncImagesKeeps ==
  ASSUME IInv, NEW rank \in Order, SyncImages(rank)
  PROVE  IInv'
<1> DEFINE D == SyncEntry(Tables, job.entry, job.body, rank)
           e == job.entry
<1>0. /\ job.pc = "read" /\ WriteSync(D) /\ UNCHANGED torn
      /\ job' = [job EXCEPT !.pc = "synced"]
      /\ behind' = IF job.body = body[e] THEN behind \ {e} ELSE behind
      /\ UNCHANGED <<body, due, tool>>
  BY DEF SyncImages, WriteSync
<1>1. Tables \in GoodTables /\ Tables.images = images
  BY TablesAreGood DEF IInv, RowsInv
<1>2. e \in Entry /\ job.body \in SUBSET Uri
  BY <1>0 DEF IInv, RowsInv, JobShape
<1>3. Synchronised(Tables, D, e, job.body)
  BY <1>1, <1>2, SyncEntryKeeps
<1> HIDE DEF D
<1>4. /\ D \in GoodTables
      /\ \A i \in D.images : i \in images \/ (i.sig = NoSig /\ i.entry = e)
      /\ \A i \in images : i.entry # e => i \in D.images
      /\ UrisOf(RowsOf(D, e)) = job.body
      /\ UrisOnce(images) => UrisOnce(D.images)
      /\ \A left : CacheIsWhole(Tables, left) => CacheIsWhole(D, left)
  BY <1>1, <1>3 DEF Synchronised
<1>5. RowsAreGood' /\ CacheInv' /\ SignatureIsOwn' /\ images' = D.images
  BY <1>0, <1>4, WriteSyncKeeps DEF IInv, RowsInv
<1>6. RowsFollow'
  <2> SUFFICES ASSUME NEW f \in Entry \ (due' \cup behind') PROVE UrisOf(ImagesOf(f)') = body'[f]
    BY <1>0 DEF IInv, RowsInv, JobShape, RowsFollow
  <2>1. CASE f = e
    <3>1. ImagesOf(f)' = RowsOf(D, e)
      BY <1>5, <2>1 DEF ImagesOf, RowsOf
    <3>2. job.body = body[e]
      BY <1>0, <2>1 DEF IInv, RowsInv, RowsFollow
    <3> QED
      BY <1>0, <1>4, <2>1, <3>1, <3>2
  <2>2. CASE f # e
    <3>1. ImagesOf(f)' = ImagesOf(f)
      BY <1>4, <1>5, <2>2 DEF ImagesOf
    <3>2. f \notin due /\ f \notin behind
      BY <1>0, <2>2
    <3> QED
      BY <1>0, <2>2, <3>1, <3>2 DEF IInv, RowsInv, RowsFollow
  <2> QED
    BY <2>1, <2>2
<1>7. SiteShape'
  BY <1>0, <1>2 DEF IInv, RowsInv, SiteShape
<1>8. JobShape'
  BY <1>0 DEF IInv, RowsInv, JobShape
<1> QED
  BY <1>0, <1>5, <1>6, <1>7, <1>8, ToolStays DEF IInv, RowsInv

LEMMA LoadedRows ==
  ASSUME IInv, NEW entries, NEW force, NEW loaded, NEW failed, Load(entries, force, loaded, failed)
  PROVE  loaded \in SUBSET Row /\ DistinctIds(loaded)
<1>1. loaded \subseteq images
  BY DEF Load, Unfilled
<1> QED
  BY <1>1 DEF IInv, RowsInv, RowsAreGood, DistinctIds

LEMMA LoadImagesKeeps ==
  ASSUME IInv, NEW loaded, NEW failed, LoadImages(loaded, failed)
  PROVE  IInv'
<1>0. /\ job.pc = "synced" /\ Load({job.entry}, FALSE, loaded, failed)
      /\ job' = IF Unfilled({job.entry}, FALSE) = {} THEN Idle
                ELSE [job EXCEPT !.pc = "loaded", !.loaded = loaded]
      /\ UNCHANGED <<body, images, ngram, similar, due, tool, behind, mistaken, torn>>
  BY DEF LoadImages, tables
<1>1. /\ RowsAreGood' /\ CacheInv' /\ SignatureIsOwn'
      /\ \A f : UrisOf(ImagesOf(f)') = UrisOf(ImagesOf(f))
  BY <1>0, RowsStay
<1>2. loaded \in SUBSET Row /\ DistinctIds(loaded)
  BY <1>0, LoadedRows
<1>3. JobShape'
  <2>1. CASE job' = Idle
    BY <2>1, IdleIsJob
  <2>2. CASE job' = [job EXCEPT !.pc = "loaded", !.loaded = loaded]
    BY <1>0, <1>2, <2>2 DEF IInv, RowsInv, JobShape
  <2> QED
    BY <1>0, <2>1, <2>2
<1>4. RowsFollow'
  <2>1. job'.pc # "read"
    BY <1>0 DEF IInv, RowsInv, JobShape, Idle
  <2> QED
    BY <1>0, <1>1, <2>1, FollowStay DEF IInv, RowsInv
<1> QED
  BY <1>0, <1>1, <1>3, <1>4, SiteStays, ToolStays DEF IInv, RowsInv

LEMMA WriteImagesKeeps ==
  ASSUME IInv, WriteImages
  PROVE  IInv'
<1>0. /\ job.pc = "loaded" /\ Write(job.loaded) /\ job' = Idle
      /\ tool' = [tool EXCEPT !.raced = @ \/ tool.phase = "clear"]
      /\ UNCHANGED <<body, due, behind, torn>>
  BY DEF WriteImages
<1>1. job.loaded \in SUBSET Row /\ DistinctIds(job.loaded)
  BY DEF IInv, RowsInv, JobShape
<1>2. /\ RowsAreGood' /\ CacheInv' /\ SignatureIsOwn'
      /\ \A e : UrisOf(ImagesOf(e)') = UrisOf(ImagesOf(e))
  BY <1>0, <1>1, WriteKeeps DEF IInv, RowsInv
<1>3. ToolShape'
  BY <1>0 DEF IInv, RowsInv, ToolShape
<1>4. RowsFollow'
  BY <1>0, <1>2, FollowStay DEF IInv, RowsInv, Idle
<1> QED
  BY <1>0, <1>2, <1>3, <1>4, SiteStays, IdleIsJob DEF IInv, RowsInv

LEMMA JobFailsKeeps ==
  ASSUME IInv, JobFails
  PROVE  IInv'
<1>0. /\ job # Idle /\ job' = Idle
      /\ \/ due' = due \cup {job.entry} /\ UNCHANGED behind
         \/ behind' = behind \cup {job.entry} /\ UNCHANGED due
      /\ UNCHANGED <<body, images, ngram, similar, tool, mistaken, torn>>
  BY DEF JobFails, tables
<1>1. /\ RowsAreGood' /\ CacheInv' /\ SignatureIsOwn'
      /\ \A e : UrisOf(ImagesOf(e)') = UrisOf(ImagesOf(e))
  BY <1>0, RowsStay
<1>2. job.entry \in Entry
  BY <1>0 DEF IInv, RowsInv, JobShape
<1>3. SiteShape'
  BY <1>0, <1>2 DEF IInv, RowsInv, SiteShape
<1>4. RowsFollow'
  BY <1>0, <1>1, FollowStay DEF IInv, RowsInv, Idle
<1> QED
  BY <1>0, <1>1, <1>3, <1>4, IdleIsJob, ToolStays DEF IInv, RowsInv

-----------------------------------------------------------------------------
(* The subcommands.                                                        *)

LEMMA EntriesAreFinite == IsFiniteSet(Entry) /\ Entry # {} /\ Entry \subseteq Nat
<1>1. MaxEntry \in Nat /\ MaxEntry # 0
  BY ImageBounds
<1>2. 1 \in Entry
  BY <1>1 DEF Entry
<1>3. IsFiniteSet(1 .. MaxEntry)
  BY <1>1, FS_Interval
<1> QED
  BY <1>1, <1>2, <1>3 DEF Entry

\* What the subcommand has yet to take after a transaction
LEMMA Proceeds ==
  ASSUME ToolShape, NEW phase \in {"sync", "fill", "recalc"}, Proceed(phase),
         phase # "recalc" => tool.todo \subseteq Entry
  PROVE  /\ ToolShape'
         /\ tool'.phase # "clear"
         /\ tool'.phase = "recalc" => phase = "recalc"
         /\ phase = "recalc" => Left' = tool.todo \ ChunkOf(tool.todo)
<1> DEFINE rest == tool.todo \ ChunkOf(tool.todo)
<1>1. tool' = IF rest # {} THEN [tool EXCEPT !.phase = phase, !.todo = rest, !.body = {}, !.loaded = {}]
              ELSE IF phase = "sync" /\ tool.fill THEN [Off EXCEPT !.phase = "list", !.overwrite = tool.overwrite]
              ELSE Off
  BY DEF Proceed
<1>2. rest \in SUBSET tool.todo /\ IsFiniteSet(rest)
  <2>1. IsFiniteSet(tool.todo)
    BY DEF ToolShape
  <2> QED
    BY <2>1, FS_Difference
<1> HIDE DEF rest
<1>3. CASE rest # {}
  <2>1. tool' = [tool EXCEPT !.phase = phase, !.todo = rest, !.body = {}, !.loaded = {}]
    BY <1>1, <1>3
  <2>2. /\ tool' \in [phase: {"off", "sync", "read", "list", "fill", "loaded", "clear", "recalc"},
                      fill: BOOLEAN, overwrite: BOOLEAN, todo: SUBSET Nat, body: SUBSET Uri,
                      loaded: SUBSET Row, raced: BOOLEAN]
        /\ tool'.phase = phase /\ tool'.todo = rest /\ tool'.loaded = {}
    BY <1>2, <2>1 DEF ToolShape
  <2>3. ToolShape'
    BY <1>2, <1>3, <2>2 DEF ToolShape, DistinctIds
  <2> QED
    BY <2>2, <2>3 DEF Left, rest
<1>4. CASE rest = {} /\ phase = "sync" /\ tool.fill
  <2>1. tool' = [Off EXCEPT !.phase = "list", !.overwrite = tool.overwrite]
    BY <1>1, <1>4
  <2>2. tool'.phase = "list" /\ tool'.todo = {} /\ tool'.loaded = {}
    BY <2>1 DEF Off
  <2>3. tool.overwrite \in BOOLEAN
    BY DEF ToolShape
  <2>4. ToolShape'
    BY <2>1, <2>2, <2>3, FS_EmptySet DEF ToolShape, Off, DistinctIds
  <2> QED
    BY <1>4, <2>2, <2>4
<1>5. CASE rest = {} /\ ~(phase = "sync" /\ tool.fill)
  <2>1. tool' = Off
    BY <1>1, <1>5
  <2>2. tool'.phase = "off"
    BY <2>1 DEF Off
  <2> QED
    BY <1>5, <2>1, <2>2, OffIsTool DEF Left, rest
<1> QED
  BY <1>3, <1>4, <1>5

\* Steps of the subcommand that write no tables
LEMMA ToolAloneKeeps ==
  ASSUME IInv, ToolShape', torn' \in BOOLEAN,
         UNCHANGED <<body, images, ngram, similar, due, job, behind, mistaken>>
  PROVE  IInv'
<1>1. /\ RowsAreGood' /\ CacheInv' /\ SignatureIsOwn'
      /\ \A e : UrisOf(ImagesOf(e)') = UrisOf(ImagesOf(e))
  BY RowsStay
<1>2. SiteShape'
  BY DEF IInv, RowsInv, SiteShape
<1>3. RowsFollow'
  BY <1>1, FollowStay DEF IInv, RowsInv
<1> QED
  BY <1>1, <1>2, <1>3, JobStays DEF IInv, RowsInv

LEMMA IndexImagesKeeps ==
  ASSUME IInv, NEW sync \in BOOLEAN, NEW fill \in BOOLEAN, NEW overwrite \in BOOLEAN,
         IndexImages(sync, fill, overwrite)
  PROVE  IInv'
<1>0. /\ tool' = [Off EXCEPT !.phase = IF sync THEN "sync" ELSE "list", !.fill = fill,
                             !.overwrite = overwrite, !.todo = IF sync THEN Entry ELSE {}]
      /\ UNCHANGED <<body, images, ngram, similar, due, job, behind, mistaken, torn>>
  BY DEF IndexImages, tables
<1>1. tool'.phase = (IF sync THEN "sync" ELSE "list") /\ tool'.todo = (IF sync THEN Entry ELSE {})
      /\ tool'.loaded = {}
  BY <1>0 DEF Off
<1>2. tool'.todo \in SUBSET Nat /\ IsFiniteSet(tool'.todo)
  BY <1>1, EntriesAreFinite, FS_EmptySet
<1>3. tool' \in [phase: {"off", "sync", "read", "list", "fill", "loaded", "clear", "recalc"},
                   fill: BOOLEAN, overwrite: BOOLEAN, todo: SUBSET Nat, body: SUBSET Uri,
                   loaded: SUBSET Row, raced: BOOLEAN]
  BY <1>0, EntriesAreFinite DEF Off
<1>4. ToolShape'
  BY <1>1, <1>2, <1>3, EntriesAreFinite DEF ToolShape, DistinctIds
<1> QED
  BY <1>0, <1>4, ToolAloneKeeps DEF IInv, RowsInv, SiteShape

LEMMA ToolReadEntryKeeps ==
  ASSUME IInv, ToolReadEntry
  PROVE  IInv'
<1>0. /\ tool.phase = "sync" /\ tool' = [tool EXCEPT !.phase = "read", !.body = body[Listed[Least(tool.todo)]]]
      /\ UNCHANGED <<body, images, ngram, similar, due, job, behind, mistaken, torn>>
  BY DEF ToolReadEntry, tables
<1>1. Least(tool.todo) \in Entry
  <2>1. tool.todo # {} /\ tool.todo \subseteq Entry /\ tool.todo \subseteq Nat
    BY <1>0 DEF IInv, RowsInv, ToolShape
  <2>2. \E m \in tool.todo : \A n \in tool.todo : m <= n
    BY <2>1, LeastNumber
  <2> QED
    BY <2>1, <2>2 DEF Least
<1>2. body[Listed[Least(tool.todo)]] \in SUBSET Uri
  BY <1>1, ImageBounds DEF IInv, RowsInv, SiteShape
<1>3. ToolShape'
  BY <1>0, <1>2 DEF IInv, RowsInv, ToolShape
<1> QED
  BY <1>0, <1>3, ToolAloneKeeps DEF IInv, RowsInv, SiteShape

\* The rows of the chunk are those of the bodies that were read
LEMMA ToolSyncWrites ==
  ASSUME IInv, NEW rank \in Order, ToolSync(rank)
  PROVE  LET places == ChunkOf(tool.todo)
             chunk == EntriesAt(places)
             bodies == [body EXCEPT ![Listed[Least(tool.todo)]] = tool.body]
             D == SyncImagesForEntries(Tables, places, bodies, rank)
         IN  /\ WriteSync(D) /\ D \in GoodTables
             /\ \A i \in D.images : i \in images \/ i.sig = NoSig
             /\ \A e \in Entry : IF e \in chunk THEN UrisOf(RowsOf(D, e)) = bodies[e]
                                 ELSE RowsOf(D, e) = ImagesOf(e)
             /\ UrisOnce(images) => UrisOnce(D.images)
             /\ \A left : CacheIsWhole(Tables, left) => CacheIsWhole(D, left)
<1> DEFINE places == ChunkOf(tool.todo)
           chunk == EntriesAt(places)
           bodies == [body EXCEPT ![Listed[Least(tool.todo)]] = tool.body]
           D == SyncImagesForEntries(Tables, places, bodies, rank)
<1>0. tool.phase = "read" /\ WriteSync(D)
  BY DEF ToolSync
<1>1. Tables \in GoodTables /\ Tables.images = images
  BY TablesAreGood DEF IInv, RowsInv
<1>2. places \in SUBSET Entry
  BY <1>0 DEF ChunkOf, IInv, RowsInv, ToolShape
<1>3. bodies \in [Entry -> SUBSET Uri]
  <2>1. body \in [Entry -> SUBSET Uri] /\ tool.body \in SUBSET Uri
    BY DEF IInv, RowsInv, SiteShape, ToolShape
  <2> HIDE DEF places
  <2> QED
    BY <2>1
<1> HIDE DEF places, chunk, bodies
<1>4. /\ D \in GoodTables
      /\ \A i \in D.images : i \in Tables.images \/ i.sig = NoSig
      /\ \A e \in Entry : IF e \in EntriesAt(places) THEN UrisOf(RowsOf(D, e)) = bodies[e]
                          ELSE RowsOf(D, e) = RowsOf(Tables, e)
      /\ UrisOnce(Tables.images) => UrisOnce(D.images)
      /\ \A left : CacheIsWhole(Tables, left) => CacheIsWhole(D, left)
  BY <1>1, <1>2, <1>3, SyncsKeep
<1>5. \A e : RowsOf(Tables, e) = ImagesOf(e)
  BY <1>1 DEF RowsOf, ImagesOf
<1> HIDE DEF D
<1> QED
  BY <1>0, <1>1, <1>4, <1>5 DEF D, places, chunk, bodies

LEMMA ToolSyncKeeps ==
  ASSUME IInv, NEW rank \in Order, ToolSync(rank)
  PROVE  IInv'
<1> DEFINE places == ChunkOf(tool.todo)
           chunk == EntriesAt(places)
           bodies == [body EXCEPT ![Listed[Least(tool.todo)]] = tool.body]
           D == SyncImagesForEntries(Tables, places, bodies, rank)
           fresh == {e \in chunk : bodies[e] = body[e]}
           open == {e \in chunk : job.pc = "read" /\ job.entry = e}
<1>0. /\ tool.phase = "read" /\ Proceed("sync") /\ UNCHANGED torn
      /\ behind' = (behind \ (fresh \ open)) \cup (chunk \ (fresh \cup due))
      /\ UNCHANGED <<body, due, job>>
  BY DEF ToolSync, WriteSync
<1>1. /\ WriteSync(D) /\ D \in GoodTables
      /\ \A i \in D.images : i \in images \/ i.sig = NoSig
      /\ \A e \in Entry : IF e \in chunk THEN UrisOf(RowsOf(D, e)) = bodies[e]
                          ELSE RowsOf(D, e) = ImagesOf(e)
      /\ UrisOnce(images) => UrisOnce(D.images)
      /\ \A left : CacheIsWhole(Tables, left) => CacheIsWhole(D, left)
  BY ToolSyncWrites
<1>2. chunk \in SUBSET Entry
  <2>1. places \in SUBSET Entry
    BY <1>0 DEF ChunkOf, IInv, RowsInv, ToolShape
  <2> QED
    BY <2>1, ImageBounds DEF EntriesAt
<1> HIDE DEF places, chunk, bodies, D
<1>3. RowsAreGood' /\ CacheInv' /\ SignatureIsOwn' /\ images' = D.images
  BY <1>1, WriteSyncKeeps DEF IInv, RowsInv
<1>4. RowsFollow'
  <2>0. job.pc = "read" /\ job.entry \in due \cup behind => job.entry \in due' \cup behind'
    BY <1>0
  <2> SUFFICES ASSUME NEW e \in Entry \ (due' \cup behind')
               PROVE  (job.pc = "read" /\ job.entry = e) \/ UrisOf(ImagesOf(e)') = body[e]
    BY <1>0, <2>0 DEF IInv, RowsInv, RowsFollow
  <2>1. ImagesOf(e)' = RowsOf(D, e)
    BY <1>3 DEF ImagesOf, RowsOf
  <2>2. CASE e \in chunk
    <3>1. bodies[e] = body[e]
      BY <1>0, <2>2
    <3> QED
      BY <1>1, <2>1, <2>2, <3>1
  <2>3. CASE e \notin chunk
    <3>1. e \notin due /\ e \notin behind
      BY <1>0, <2>3
    <3> QED
      BY <1>1, <2>1, <2>3, <3>1 DEF IInv, RowsInv, RowsFollow
  <2> QED
    BY <2>2, <2>3
<1>5. SiteShape'
  BY <1>0, <1>2 DEF IInv, RowsInv, SiteShape
<1>6. ToolShape'
  BY <1>0, Proceeds DEF IInv, RowsInv, ToolShape
<1> QED
  BY <1>0, <1>3, <1>4, <1>5, <1>6, JobStays DEF IInv, RowsInv

LEMMA ToolListKeeps ==
  ASSUME IInv, ToolList
  PROVE  IInv'
<1> DEFINE entries == EntriesToFill(tool.overwrite)
<1>0. /\ tool.phase = "list"
      /\ tool' = IF entries = {} THEN Off ELSE [tool EXCEPT !.phase = "fill", !.todo = entries]
      /\ UNCHANGED <<body, images, ngram, similar, due, job, behind, mistaken, torn>>
  BY DEF ToolList, tables
<1>1. entries \in SUBSET Entry
  BY DEF EntriesToFill, IInv, RowsInv, RowsAreGood, Row
<1> HIDE DEF entries
<1>2. entries \in SUBSET Nat /\ IsFiniteSet(entries)
  BY <1>1, EntriesAreFinite, FS_Subset
<1>3. ToolShape'
  <2>1. CASE entries = {}
    BY <1>0, <2>1, OffIsTool
  <2>2. CASE entries # {}
    BY <1>0, <1>1, <1>2, <2>2 DEF IInv, RowsInv, ToolShape
  <2> QED
    BY <2>1, <2>2
<1> QED
  BY <1>0, <1>3, ToolAloneKeeps DEF IInv, RowsInv, SiteShape

LEMMA ToolLoadKeeps ==
  ASSUME IInv, NEW loaded, NEW failed, ToolLoad(loaded, failed)
  PROVE  IInv'
<1>0. /\ tool.phase = "fill" /\ Load(ChunkOf(tool.todo), tool.overwrite, loaded, failed)
      /\ tool' = [tool EXCEPT !.phase = "loaded", !.loaded = loaded]
      /\ UNCHANGED <<body, images, ngram, similar, due, job, behind, mistaken, torn>>
  BY DEF ToolLoad, tables
<1>1. loaded \in SUBSET Row /\ DistinctIds(loaded)
  BY <1>0, LoadedRows
<1>2. ToolShape'
  BY <1>0, <1>1 DEF IInv, RowsInv, ToolShape
<1> QED
  BY <1>0, <1>2, ToolAloneKeeps DEF IInv, RowsInv, SiteShape

LEMMA ToolWriteKeeps ==
  ASSUME IInv, ToolWrite
  PROVE  IInv'
<1>0. /\ tool.phase = "loaded" /\ Write(tool.loaded) /\ Proceed("fill")
      /\ UNCHANGED <<body, due, job, behind, torn>>
  BY DEF ToolWrite
<1>1. tool.loaded \in SUBSET Row /\ DistinctIds(tool.loaded)
  BY DEF IInv, RowsInv, ToolShape
<1>2. /\ RowsAreGood' /\ CacheInv' /\ SignatureIsOwn'
      /\ \A e : UrisOf(ImagesOf(e)') = UrisOf(ImagesOf(e))
  BY <1>0, <1>1, WriteKeeps DEF IInv, RowsInv
<1>3. ToolShape'
  BY <1>0, Proceeds DEF IInv, RowsInv, ToolShape
<1>4. RowsFollow'
  BY <1>0, <1>2, FollowStay DEF IInv, RowsInv
<1> QED
  BY <1>0, <1>2, <1>3, <1>4, SiteStays, JobStays DEF IInv, RowsInv

LEMMA ToolChunkFailsKeeps ==
  ASSUME IInv, ToolChunkFails
  PROVE  IInv'
<1>0. /\ tool.phase \in {"read", "loaded"}
      /\ Proceed(IF tool.phase = "read" THEN "sync" ELSE "fill")
      /\ UNCHANGED <<body, images, ngram, similar, due, job, behind, mistaken, torn>>
  BY DEF ToolChunkFails, tables
<1>1. tool.todo \subseteq Entry /\ ToolShape
  BY <1>0 DEF IInv, RowsInv, ToolShape
<1>2. ToolShape'
  <2>1. CASE tool.phase = "read"
    BY <1>0, <1>1, <2>1, Proceeds
  <2>2. CASE tool.phase = "loaded"
    BY <1>0, <1>1, <2>2, Proceeds
  <2> QED
    BY <1>0, <2>1, <2>2
<1> QED
  BY <1>0, <1>2, ToolAloneKeeps DEF IInv, RowsInv, SiteShape

LEMMA RecalcImageSimilarityKeeps ==
  ASSUME IInv, RecalcImageSimilarity
  PROVE  IInv'
<1> DEFINE todo == IdsOf({i \in images : i.sig # NoSig})
<1>0. /\ tool' = [Off EXCEPT !.phase = "clear", !.todo = todo]
      /\ UNCHANGED <<body, images, ngram, similar, due, job, behind, mistaken, torn>>
  BY DEF RecalcImageSimilarity, tables
<1>1. todo \in SUBSET Nat /\ IsFiniteSet(todo)
  <2>1. todo \in SUBSET IdsOf(images) /\ todo \in SUBSET Nat
    BY DEF IdsOf, IInv, RowsInv, RowsAreGood, Row
  <2>2. IsFiniteSet(IdsOf(images))
    BY DEF IInv, RowsInv, RowsAreGood
  <2> QED
    BY <2>1, <2>2, FS_Subset
<1> HIDE DEF todo
<1>2. ToolShape'
  BY <1>0, <1>1 DEF ToolShape, Off, DistinctIds
<1> QED
  BY <1>0, <1>2, ToolAloneKeeps DEF IInv, RowsInv, SiteShape

LEMMA DeleteAllSimilarImagesKeeps ==
  ASSUME IInv, DeleteAllSimilarImages
  PROVE  IInv'
<1>0. /\ tool.phase = "clear" /\ similar' = {}
      /\ tool' = IF tool.todo = {} THEN Off ELSE [tool EXCEPT !.phase = "recalc"]
      /\ torn' = tool.raced
      /\ UNCHANGED <<body, images, ngram, due, job, behind, mistaken>>
  BY DEF DeleteAllSimilarImages
<1>1. RowsAreGood' /\ SignatureIsOwn'
  BY <1>0 DEF IInv, RowsInv, RowsAreGood, SignatureIsOwn
<1>2. CacheInv'
  BY <1>0 DEF IInv, CacheInv, NgramsAreWords, CacheIsTrue, Tables
<1>3. SiteShape'
  BY <1>0 DEF IInv, RowsInv, SiteShape, ToolShape
<1>4. \A e : UrisOf(ImagesOf(e)') = UrisOf(ImagesOf(e))
  BY <1>0 DEF ImagesOf
<1>5. RowsFollow'
  BY <1>0, <1>4, FollowStay DEF IInv, RowsInv
<1>6. ToolShape'
  <2>1. CASE tool.todo = {}
    BY <1>0, <2>1, OffIsTool
  <2>2. CASE tool.todo # {}
    BY <1>0, <2>2 DEF IInv, RowsInv, ToolShape
  <2> QED
    BY <2>1, <2>2
<1> QED
  BY <1>0, <1>1, <1>2, <1>3, <1>5, <1>6, JobStays DEF IInv, RowsInv

LEMMA RecalcWrites ==
  ASSUME IInv, RecalcBatch
  PROVE  LET D == RecalcChunk(Tables, tool.todo)
         IN  /\ D \in GoodTables /\ D.images = images /\ Become(D)
             /\ (\A i \in images : Cardinality(IdsOf(LikeIt(Tables, D, i))) <= MaxSimilar)
                  /\ CacheIsWhole(Tables, tool.todo)
                  => CacheIsWhole(D, tool.todo \ ChunkOf(tool.todo))
<1>0. /\ tool.phase = "recalc" /\ CanRecalc(ChunkOf(tool.todo))
      /\ Become(RecalcChunk(Tables, tool.todo))
  BY DEF RecalcBatch
<1>1. Tables \in GoodTables /\ Tables.images = images
  BY TablesAreGood DEF IInv, RowsInv
<1>2. tool.todo \in SUBSET Nat /\ IsFiniteSet(tool.todo) /\ tool.todo # {}
  BY <1>0 DEF IInv, RowsInv, ToolShape
<1>3. ChunkOf(tool.todo) \subseteq IdsOf(Tables.images)
  BY <1>0, <1>1 DEF CanRecalc, IdsOf
<1> QED
  BY <1>0, <1>1, <1>2, <1>3, RecalcKeeps

LEMMA RecalcBatchKeeps ==
  ASSUME IInv, RecalcBatch
  PROVE  IInv'
<1> DEFINE D == RecalcChunk(Tables, tool.todo)
<1>0. /\ tool.phase = "recalc" /\ Proceed("recalc")
      /\ UNCHANGED <<body, due, job, behind, mistaken, torn>>
  BY DEF RecalcBatch
<1>1. D \in GoodTables /\ D.images = images /\ Become(D)
  BY RecalcWrites
<1> HIDE DEF D
<1>2. images' = images /\ RowsAreGood' /\ CacheInv'
  BY <1>1, BecomesGood DEF IInv, RowsInv, RowsAreGood
<1>3. SignatureIsOwn'
  BY <1>0, <1>2 DEF IInv, RowsInv, SignatureIsOwn
<1>4. \A e : UrisOf(ImagesOf(e)') = UrisOf(ImagesOf(e))
  BY <1>2 DEF ImagesOf
<1>5. RowsFollow'
  BY <1>0, <1>4, FollowStay DEF IInv, RowsInv
<1>6. ToolShape'
  BY <1>0, Proceeds DEF IInv, RowsInv
<1> QED
  BY <1>0, <1>2, <1>3, <1>5, <1>6, SiteStays, JobStays DEF IInv, RowsInv

LEMMA RecalcStopsKeeps ==
  ASSUME IInv, RecalcStops
  PROVE  IInv'
  BY OffIsTool, ToolAloneKeeps DEF RecalcStops, tables

LEMMA ToolEndsKeeps ==
  ASSUME IInv, ToolEnds
  PROVE  IInv'
<1>1. torn \in BOOLEAN
  BY DEF IInv, RowsInv, SiteShape
<1>2. /\ tool' = Off /\ torn' = (torn \/ tool.phase = "recalc")
      /\ UNCHANGED <<body, images, ngram, similar, due, job, behind, mistaken>>
  BY DEF ToolEnds, tables
<1> QED
  BY <1>1, <1>2, OffIsTool, ToolAloneKeeps

LEMMA ImageNext == IInv /\ [Next]_vars => IInv'
<1> SUFFICES ASSUME IInv, [Next]_vars PROVE IInv'
  OBVIOUS
<1>1. CASE \E u \in Uri : Upload(u)
  BY <1>1, UploadKeeps DEF Upload
<1>2. CASE \E e \in Entry, uris \in SUBSET Uri, public \in BOOLEAN : Save(e, uris, public)
  BY <1>2, SaveKeeps
<1>3. CASE JobStep
  BY <1>3, StartKeeps, SyncImagesKeeps, LoadImagesKeeps, WriteImagesKeeps, JobFailsKeeps
  DEF JobStep
<1>4. CASE ToolStep
  BY <1>4, IndexImagesKeeps, ToolReadEntryKeeps, ToolListKeeps, ToolWriteKeeps,
     ToolChunkFailsKeeps, ToolEndsKeeps, ToolSyncKeeps, ToolLoadKeeps,
     RecalcImageSimilarityKeeps, DeleteAllSimilarImagesKeeps, RecalcBatchKeeps, RecalcStopsKeeps
  DEF ToolStep
<1>5. CASE GCStep
  BY <1>5, UploadKeeps DEF GCStep, ListRows, ListOrphans, ListFails, DeleteOrphan
<1>6. CASE UNCHANGED vars
  BY <1>6, UploadKeeps DEF vars
<1> QED
  BY <1>1, <1>2, <1>3, <1>4, <1>5, <1>6 DEF Next

\* Between two transactions the rows have their own ids, an entry has an image
\* once, the n-grams are those of the signatures and the cache has no strangers
THEOREM InductiveInvariant == Spec => []IInv
  BY ImageInit, ImageNext, PTL DEF Spec

\* A row has the signature of its own image or none, although ids are used again
\* and pictures are loaded outside of the transaction that writes them
THEOREM SignaturesAreOwn == Spec => []SignatureIsOwn
<1>1. IInv => SignatureIsOwn
  BY DEF IInv, RowsInv
<1> QED
  BY <1>1, InductiveInvariant, PTL

LEMMA RowsOfSettled == IInv => ImagesFollowText
<1> SUFFICES ASSUME IInv, NEW e \in Settled
             PROVE  UrisOf(ImagesOf(e)) = body[e] /\ Cardinality(ImagesOf(e)) = Cardinality(body[e])
  BY DEF ImagesFollowText
<1>1. UrisOf(ImagesOf(e)) = body[e]
  BY DEF Settled, IInv, RowsInv, RowsFollow
<1>2. IsFiniteSet(body[e])
  <2>1. e \in Entry /\ body \in [Entry -> SUBSET Uri]
    BY DEF Settled, IInv, RowsInv, SiteShape
  <2> QED
    BY <2>1, ImageBounds, FS_Subset
<1> DEFINE f == [i \in ImagesOf(e) |-> i.uri]
<1>3. f \in [ImagesOf(e) -> body[e]]
  BY <1>1 DEF UrisOf
<1>4. \A i, j \in ImagesOf(e) : f[i] = f[j] => i = j
  BY DEF ImagesOf, IInv, RowsInv, RowsAreGood, UrisOnce
<1>5. \A u \in body[e] : \E i \in ImagesOf(e) : f[i] = u
  BY <1>1 DEF UrisOf
<1>6. f \in Injection(ImagesOf(e), body[e]) /\ f \in Surjection(ImagesOf(e), body[e])
  <2> HIDE DEF f
  <2> QED
    BY <1>3, <1>4, <1>5 DEF Injection, Surjection, IsInjective
<1>7. IsFiniteSet(ImagesOf(e)) /\ Cardinality(ImagesOf(e)) = Cardinality(body[e])
  BY <1>2, <1>6, FS_Injection
<1> QED
  BY <1>1, <1>7

\* An entry whose job has run has exactly the rows of the images it shows, each
\* once, unless the queue gave the job up or the subcommand wrote an old body
THEOREM RowsFollowText == Spec => []ImagesFollowText
  BY RowsOfSettled, InductiveInvariant, PTL

-----------------------------------------------------------------------------
(* What is so is cached, if no image is like more than the cache holds.    *)

LEMMA WholeInit == Init => WholeInv
<1> SUFFICES ASSUME Init PROVE WholeInv
  OBVIOUS
<1>1. tool.phase = "off" /\ images = {} /\ Tables.images = {}
  BY DEF Init, Off, Tables
<1> QED
  BY <1>1 DEF WholeInv, ClearSeesAll, CacheIsWhole, IdsOf

\* Before the cache is cleared, rows only get a signature in a race
LEMMA ClearStays ==
  ASSUME ClearSeesAll, UNCHANGED tool, \A i \in images' : i \in images \/ i.sig = NoSig
  PROVE  ClearSeesAll'
  BY DEF ClearSeesAll

\* Steps that keep what is cached and what is left
LEMMA WholeStays ==
  ASSUME WholeInv, UNCHANGED torn, ClearSeesAll', Left' = Left,
         CacheIsWhole(Tables, Left) => CacheIsWhole(Tables', Left)
  PROVE  WholeInv'
<1>1. ~torn' => CacheIsWhole(Tables', Left')
  BY DEF WholeInv
<1> QED
  BY <1>1 DEF WholeInv

\* Steps of the site and of the job that write no tables
LEMMA WholeIdles ==
  ASSUME WholeInv, UNCHANGED <<images, ngram, similar, tool, torn>>
  PROVE  WholeInv'
<1>1. Tables' = Tables /\ Left' = Left /\ ClearSeesAll'
  BY ClearStays DEF Tables, Left, WholeInv
<1> QED
  BY <1>1, WholeStays

\* Steps of the subcommand that write no tables, but for those of a recalculation
LEMMA WholeAlone ==
  ASSUME WholeInv, UNCHANGED <<images, ngram, similar, torn>>,
         tool.phase # "recalc", tool'.phase \notin {"clear", "recalc"}
  PROVE  WholeInv'
<1>1. Tables' = Tables /\ Left' = Left /\ ClearSeesAll'
  BY DEF Tables, Left, ClearSeesAll
<1> QED
  BY <1>1, WholeStays

LEMMA SyncImagesWhole ==
  ASSUME IInv, WholeInv, NEW rank \in Order, SyncImages(rank)
  PROVE  WholeInv'
<1> DEFINE D == SyncEntry(Tables, job.entry, job.body, rank)
<1>0. job.pc = "read" /\ WriteSync(D) /\ UNCHANGED <<torn, tool>>
  BY DEF SyncImages, WriteSync
<1>1. Tables \in GoodTables /\ Tables.images = images
  BY TablesAreGood DEF IInv, RowsInv
<1>2. job.entry \in Entry /\ job.body \in SUBSET Uri
  BY <1>0 DEF IInv, RowsInv, JobShape
<1>3. Synchronised(Tables, D, job.entry, job.body)
  BY <1>1, <1>2, SyncEntryKeeps
<1> HIDE DEF D
<1>4. /\ D \in GoodTables
      /\ \A i \in D.images : i \in images \/ i.sig = NoSig
      /\ UrisOnce(images) => UrisOnce(D.images)
      /\ \A left : CacheIsWhole(Tables, left) => CacheIsWhole(D, left)
  BY <1>1, <1>3 DEF Synchronised
<1>5. images' = D.images /\ \A left : CacheIsWhole(Tables, left) => CacheIsWhole(Tables', left)
  BY <1>0, <1>4, WriteSyncKeeps DEF IInv, RowsInv
<1>6. ClearSeesAll'
  BY <1>0, <1>4, <1>5, ClearStays DEF WholeInv
<1>7. Left' = Left
  BY <1>0 DEF Left
<1> QED
  BY <1>0, <1>5, <1>6, <1>7, WholeStays

LEMMA WriteImagesWhole ==
  ASSUME IInv, WholeInv, FewAlike, WriteImages
  PROVE  WholeInv'
<1>0. /\ Write(job.loaded) /\ UNCHANGED torn
      /\ tool' = [tool EXCEPT !.raced = @ \/ tool.phase = "clear"]
  BY DEF WriteImages
<1>1. job.loaded \in SUBSET Row /\ DistinctIds(job.loaded)
  BY DEF IInv, RowsInv, JobShape
<1>2. \A left : CacheIsWhole(Tables, left) => CacheIsWhole(Tables', left)
  BY <1>0, <1>1, WriteKeeps DEF IInv, RowsInv
<1>3. tool'.phase = tool.phase /\ tool'.todo = tool.todo
      /\ (tool'.phase = "clear" => tool'.raced)
  BY <1>0 DEF IInv, RowsInv, ToolShape
<1>4. Left' = Left /\ ClearSeesAll'
  BY <1>3 DEF Left, ClearSeesAll
<1> QED
  BY <1>0, <1>2, <1>4, WholeStays

LEMMA ToolSyncWhole ==
  ASSUME IInv, WholeInv, NEW rank \in Order, ToolSync(rank)
  PROVE  WholeInv'
<1> DEFINE places == ChunkOf(tool.todo)
           chunk == EntriesAt(places)
           bodies == [body EXCEPT ![Listed[Least(tool.todo)]] = tool.body]
           D == SyncImagesForEntries(Tables, places, bodies, rank)
<1>0. tool.phase = "read" /\ Proceed("sync") /\ UNCHANGED torn
  BY DEF ToolSync, WriteSync
<1>1. /\ WriteSync(D) /\ D \in GoodTables
      /\ \A i \in D.images : i \in images \/ i.sig = NoSig
      /\ UrisOnce(images) => UrisOnce(D.images)
      /\ \A left : CacheIsWhole(Tables, left) => CacheIsWhole(D, left)
  BY ToolSyncWrites
<1> HIDE DEF D
<1>2. \A left : CacheIsWhole(Tables, left) => CacheIsWhole(Tables', left)
  BY <1>1, WriteSyncKeeps DEF IInv, RowsInv
<1>3. tool'.phase # "clear" /\ tool'.phase # "recalc"
  BY <1>0, Proceeds DEF IInv, RowsInv, ToolShape
<1>4. Left' = Left /\ ClearSeesAll'
  BY <1>0, <1>3 DEF Left, ClearSeesAll
<1> QED
  BY <1>0, <1>2, <1>4, WholeStays

LEMMA ToolWriteWhole ==
  ASSUME IInv, WholeInv, FewAlike, ToolWrite
  PROVE  WholeInv'
<1>0. tool.phase = "loaded" /\ Write(tool.loaded) /\ Proceed("fill") /\ UNCHANGED torn
  BY DEF ToolWrite
<1>1. tool.loaded \in SUBSET Row /\ DistinctIds(tool.loaded)
  BY DEF IInv, RowsInv, ToolShape
<1>2. \A left : CacheIsWhole(Tables, left) => CacheIsWhole(Tables', left)
  BY <1>0, <1>1, WriteKeeps DEF IInv, RowsInv
<1>3. tool'.phase # "clear" /\ tool'.phase # "recalc"
  BY <1>0, Proceeds DEF IInv, RowsInv, ToolShape
<1>4. Left' = Left /\ ClearSeesAll'
  BY <1>0, <1>3 DEF Left, ClearSeesAll
<1> QED
  BY <1>0, <1>2, <1>4, WholeStays

\* Steps of the subcommand that only read
LEMMA ToolReadsWhole ==
  ASSUME IInv, WholeInv,
         \/ \E sync, fill, overwrite \in BOOLEAN : IndexImages(sync, fill, overwrite)
         \/ ToolReadEntry \/ ToolList \/ ToolChunkFails
         \/ \E loaded, failed \in SUBSET images : ToolLoad(loaded, failed)
  PROVE  WholeInv'
<1>1. UNCHANGED <<images, ngram, similar, torn>>
  BY DEF IndexImages, ToolReadEntry, ToolList, ToolChunkFails, ToolLoad, tables
<1>2. tool.phase # "recalc" /\ tool'.phase \notin {"clear", "recalc"}
  <2>1. CASE \E sync, fill, overwrite \in BOOLEAN : IndexImages(sync, fill, overwrite)
    <3>1. PICK sync, fill, overwrite \in BOOLEAN : IndexImages(sync, fill, overwrite)
      BY <2>1
    <3>2. tool = Off /\ tool'.phase = IF sync THEN "sync" ELSE "list"
      BY <3>1 DEF IndexImages, Off
    <3> QED
      BY <3>2 DEF Off
  <2>2. CASE ToolReadEntry
    BY <2>2 DEF ToolReadEntry, IInv, RowsInv, ToolShape
  <2>3. CASE ToolList
    BY <2>3 DEF ToolList, Off, IInv, RowsInv, ToolShape
  <2>4. CASE ToolChunkFails
    <3>1. /\ tool.phase \in {"read", "loaded"} /\ ToolShape /\ tool.todo \subseteq Entry
          /\ Proceed(IF tool.phase = "read" THEN "sync" ELSE "fill")
      BY <2>4 DEF ToolChunkFails, IInv, RowsInv, ToolShape
    <3>2. CASE tool.phase = "read"
      <4>1. tool'.phase # "clear" /\ tool'.phase # "recalc"
        BY <3>1, <3>2, Proceeds
      <4> QED
        BY <3>2, <4>1
    <3>3. CASE tool.phase = "loaded"
      <4>1. tool'.phase # "clear" /\ tool'.phase # "recalc"
        BY <3>1, <3>3, Proceeds
      <4> QED
        BY <3>3, <4>1
    <3> QED
      BY <3>1, <3>2, <3>3
  <2>5. CASE \E loaded, failed \in SUBSET images : ToolLoad(loaded, failed)
    BY <2>5 DEF ToolLoad, IInv, RowsInv, ToolShape
  <2> QED
    BY <2>1, <2>2, <2>3, <2>4, <2>5
<1> QED
  BY <1>1, <1>2, WholeAlone

LEMMA RecalcImageSimilarityWhole ==
  ASSUME IInv, WholeInv, RecalcImageSimilarity
  PROVE  WholeInv'
<1> DEFINE todo == IdsOf({i \in images : i.sig # NoSig})
<1>0. /\ tool = Off /\ tool' = [Off EXCEPT !.phase = "clear", !.todo = todo]
      /\ UNCHANGED <<images, ngram, similar, torn>>
  BY DEF RecalcImageSimilarity, tables
<1>1. \A i \in images : i.sig # NoSig => i.id \in todo
  BY DEF IdsOf
<1> HIDE DEF todo
<1>2. ClearSeesAll' /\ Left' = Left /\ Tables' = Tables
  BY <1>0, <1>1 DEF ClearSeesAll, Left, Tables, Off
<1> QED
  BY <1>0, <1>2, WholeStays

\* All that is so is left to be taken when the cache is cleared, unless a job raced
LEMMA DeleteAllSimilarImagesWhole ==
  ASSUME IInv, WholeInv, DeleteAllSimilarImages
  PROVE  WholeInv'
<1>0. /\ tool.phase = "clear" /\ torn' = tool.raced
      /\ tool' = IF tool.todo = {} THEN Off ELSE [tool EXCEPT !.phase = "recalc"]
      /\ UNCHANGED <<images, ngram>>
  BY DEF DeleteAllSimilarImages
<1>1. ClearSeesAll' /\ Left' = tool.todo
  <2>1. CASE tool.todo = {}
    BY <1>0, <2>1 DEF ClearSeesAll, Left, Off
  <2>2. CASE tool.todo # {}
    <3>1. tool'.phase = "recalc" /\ tool'.todo = tool.todo
      BY <1>0, <2>2 DEF IInv, RowsInv, ToolShape
    <3> QED
      BY <3>1 DEF ClearSeesAll, Left
  <2> QED
    BY <2>1, <2>2
<1>2. ASSUME ~tool.raced PROVE CacheIsWhole(Tables', tool.todo)
  <2>1. Tables \in AnyTables /\ DistinctIds(images) /\ Tables.images = images
        /\ Tables'.images = images
    BY <1>0, TablesAreGood DEF IInv, RowsInv, GoodTables, Tables
  <2>2. \A a, b : Close(Tables', a, b) <=> Close(Tables, a, b)
    BY <2>1, ClosenessOfRows
  <2>3. ASSUME NEW a \in IdsOf(images), SigIn(Tables, a) # NoSig PROVE a \in tool.todo
    <3>1. PICK i \in images : i.id = a /\ SigIn(Tables, a) = i.sig
      BY <2>1, RowOfId
    <3> QED
      BY <1>0, <1>2, <2>3, <3>1 DEF WholeInv, ClearSeesAll
  <2>4. \A a, b \in IdsOf(images) : Close(Tables, a, b) => a \in tool.todo /\ b \in tool.todo
    BY <2>3, CloseHaveSigs
  <2> QED
    BY <2>1, <2>2, <2>4 DEF CacheIsWhole
<1> QED
  BY <1>0, <1>1, <1>2 DEF WholeInv

LEMMA RecalcBatchWhole ==
  ASSUME IInv, WholeInv, FewAlike, RecalcBatch
  PROVE  WholeInv'
<1> DEFINE D == RecalcChunk(Tables, tool.todo)
<1>0. tool.phase = "recalc" /\ Proceed("recalc") /\ UNCHANGED torn
  BY DEF RecalcBatch
<1>1. /\ D \in GoodTables /\ D.images = images /\ Become(D)
      /\ (\A i \in images : Cardinality(IdsOf(LikeIt(Tables, D, i))) <= MaxSimilar)
           /\ CacheIsWhole(Tables, tool.todo)
           => CacheIsWhole(D, tool.todo \ ChunkOf(tool.todo))
  BY RecalcWrites
<1> HIDE DEF D
<1>2. Tables' = D /\ images' = images
  BY <1>1, BecomesGood DEF IInv, RowsInv, RowsAreGood
<1>3. \A i \in images : Cardinality(IdsOf(LikeIt(Tables, D, i))) <= MaxSimilar
  BY <1>1, <1>2 DEF FewAlike, LikeIt, Tables
<1>4. ClearSeesAll' /\ Left' = tool.todo \ ChunkOf(tool.todo)
  BY <1>0, Proceeds DEF IInv, RowsInv, ClearSeesAll
<1>5. ~torn => CacheIsWhole(Tables, tool.todo)
  BY <1>0 DEF WholeInv, Left
<1> QED
  BY <1>0, <1>1, <1>2, <1>3, <1>4, <1>5 DEF WholeInv

\* A recalculation that is broken off tears the cache
LEMMA StopsWhole ==
  ASSUME IInv, WholeInv, RecalcStops \/ ToolEnds
  PROVE  WholeInv'
<1>1. /\ tool' = Off /\ UNCHANGED <<images, ngram, similar>>
      /\ torn' = TRUE \/ (torn' = torn /\ tool.phase # "recalc")
  BY DEF RecalcStops, ToolEnds, tables, IInv, RowsInv, SiteShape
<1>2. tool'.phase = "off" /\ ClearSeesAll'
  BY <1>1 DEF Off, ClearSeesAll
<1>3. CASE torn' = TRUE
  BY <1>2, <1>3 DEF WholeInv
<1>4. CASE torn' = torn /\ tool.phase # "recalc"
  BY <1>1, <1>2, <1>4, WholeAlone
<1> QED
  BY <1>1, <1>3, <1>4

LEMMA WholeNext == IInv /\ WholeInv /\ [Next]_vars /\ [FewAlike]_vars => WholeInv'
<1> SUFFICES ASSUME IInv, WholeInv, [Next]_vars, [FewAlike]_vars PROVE WholeInv'
  OBVIOUS
<1>1. CASE UNCHANGED vars
  BY <1>1, WholeIdles DEF vars, tables
<1>2. CASE \/ \E u \in Uri : Upload(u)
           \/ \E e \in Entry, uris \in SUBSET Uri, public \in BOOLEAN : Save(e, uris, public)
           \/ \E e \in Entry : Start(e)
           \/ \E loaded, failed \in SUBSET images : LoadImages(loaded, failed)
           \/ JobFails \/ GCStep
  BY <1>2, WholeIdles DEF Upload, Save, Start, LoadImages, JobFails, GCStep, ListRows,
     ListOrphans, ListFails, DeleteOrphan, tables
<1>3. CASE \E rank \in Order : SyncImages(rank) \/ ToolSync(rank)
  BY <1>3, SyncImagesWhole, ToolSyncWhole
<1>4. CASE FewAlike /\ (WriteImages \/ ToolWrite \/ RecalcBatch)
  BY <1>4, WriteImagesWhole, ToolWriteWhole, RecalcBatchWhole
<1>5. CASE \/ \E sync, fill, overwrite \in BOOLEAN : IndexImages(sync, fill, overwrite)
           \/ ToolReadEntry \/ ToolList \/ ToolChunkFails
           \/ \E loaded, failed \in SUBSET images : ToolLoad(loaded, failed)
  BY <1>5, ToolReadsWhole
<1>6. CASE RecalcImageSimilarity \/ DeleteAllSimilarImages \/ RecalcStops \/ ToolEnds
  BY <1>6, RecalcImageSimilarityWhole, DeleteAllSimilarImagesWhole, StopsWhole
<1>7. Next \/ UNCHANGED vars
  OBVIOUS
<1>8. FewAlike \/ UNCHANGED vars
  OBVIOUS
<1> QED
  BY <1>1, <1>2, <1>3, <1>4, <1>5, <1>6, <1>7, <1>8 DEF Next, JobStep, ToolStep

\* While no image is like more than MaxSimilar others, all that is so is cached
THEOREM CacheHasAll == Spec /\ [][FewAlike]_vars => []WholeInv
  BY InductiveInvariant, WholeInit, WholeNext, PTL DEF Spec

LEMMA CacheOfEntries == IInv /\ WholeInv => CacheIsCurrent
<1> SUFFICES ASSUME IInv, WholeInv, ~torn, tool.phase # "recalc", NEW e \in Entry
             PROVE  SimilarImagesOf(e) = [id \in IdsOf(ImagesOf(e)) |-> TrulySimilar(id)]
  BY DEF CacheIsCurrent
<1>1. Tables \in AnyTables /\ DistinctIds(images) /\ Tables.images = images
      /\ Tables.similar = similar /\ CacheIsTrue(Tables)
  BY TablesAreGood DEF IInv, RowsInv, GoodTables
<1>2. CacheIsWhole(Tables, {})
  BY DEF WholeInv, Left
<1>3. \A a, o \in IdsOf(images) : <<a, o>> \in similar <=> Close(Tables, a, o)
  BY <1>1, <1>2 DEF CacheIsWhole, CacheIsTrue
<1>4. ASSUME NEW a \in IdsOf(ImagesOf(e))
      PROVE  {o \in IdsOf(images) : <<a, o>> \in similar} = TrulySimilar(a)
  <2>1. a \in IdsOf(images)
    BY DEF IdsOf, ImagesOf
  <2>2. \A o \in images : SigIn(Tables, o.id) = o.sig
    BY <1>1, SigOfRow
  <2>3. \A o \in images :
          Close(Tables, a, o.id) <=>
            o.id # a /\ Words(SigIn(Tables, a)) \cap Words(o.sig) # {} /\ Resembles(SigIn(Tables, a), o.sig)
    BY <2>2 DEF Close, Alike
  <2>4. \A n : n \in TrulySimilar(a) <=> \E o \in images : o.id = n /\ Close(Tables, a, o.id)
    BY <2>3 DEF TrulySimilar
  <2>5. \A n : n \in {o \in IdsOf(images) : <<a, o>> \in similar} <=>
               \E o \in images : o.id = n /\ Close(Tables, a, o.id)
    BY <1>3, <2>1 DEF IdsOf
  <2> QED
    BY <2>4, <2>5
<1> QED
  BY <1>4 DEF SimilarImagesOf, FindSimilarImagesBulk

\* The cache that is kept up incrementally finds for every image what a search
\* in the signatures would find, in both directions, while no image is like
\* more than MaxSimilar others, through edits, failures and overwriting, except
\* while it is filled again or after that was broken off or raced with a job
THEOREM CacheFindsAll == Spec /\ [][FewAlike]_vars => []CacheIsCurrent
  BY CacheOfEntries, InductiveInvariant, CacheHasAll, PTL

=============================================================================
