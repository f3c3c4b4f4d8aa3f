--------------------------- MODULE TrackCacheProofs ---------------------------
(***************************************************************************)
(* What TrackCache guarantees for any tracks, file sizes, limits and gate. *)
(***************************************************************************)
EXTENDS TrackCache, FiniteSetTheorems, SequenceTheorems, TLAPS

-----------------------------------------------------------------------------
(* Maps.                                                                   *)

\* A map with one more entry, or with one replaced.
LEMMA WithMap ==
    ASSUME NEW S, NEW T, NEW f, IsPartialFun(f, S, T), NEW x \in S, NEW y \in T
    PROVE  /\ IsPartialFun(With(f, x, y), S, T)
           /\ DOMAIN With(f, x, y) = DOMAIN f \cup {x}
           /\ With(f, x, y)[x] = y
           /\ \A z \in DOMAIN f : z # x => With(f, x, y)[z] = f[z]
BY DEF With, IsPartialFun

\* A map restricted to some of its keys.
LEMMA RestrictMap ==
    ASSUME NEW S, NEW T, NEW f, IsPartialFun(f, S, T), NEW U, U \subseteq DOMAIN f
    PROVE  /\ IsPartialFun(Restrict(f, U), S, T)
           /\ DOMAIN Restrict(f, U) = U
           /\ \A z \in U : Restrict(f, U)[z] = f[z]
BY DEF Restrict, IsPartialFun

\* A map without one of its keys.
LEMMA WithoutMap ==
    ASSUME NEW S, NEW T, NEW f, IsPartialFun(f, S, T), NEW x
    PROVE  /\ IsPartialFun(Without(f, x), S, T)
           /\ DOMAIN Without(f, x) = DOMAIN f \ {x}
           /\ \A z \in DOMAIN f : z # x => Without(f, x)[z] = f[z]
BY DEF Without, Restrict, IsPartialFun

\* The empty map.
LEMMA EmptyMap ==
    ASSUME NEW S, NEW T
    PROVE  IsPartialFun(<<>>, S, T) /\ DOMAIN <<>> = {}
BY DEF IsPartialFun

-----------------------------------------------------------------------------
(* Queues: sequences without repetition.                                   *)

Distinct(s) == \A i, j \in 1..Len(s) : s[i] = s[j] => i = j

\* x stands before y in s.
Before(s, x, y) == \E i, j \in 1..Len(s) : i < j /\ s[i] = x /\ s[j] = y

\* The range of a sequence.
LEMMA RangeSeq ==
    ASSUME NEW S, NEW s \in Seq(S)
    PROVE  /\ Range(s) = {s[i] : i \in 1..Len(s)}
           /\ Range(s) \subseteq S
BY DEF Range

\* A new track at the back keeps the queue one of distinct tracks.
LEMMA AppendQueue ==
    ASSUME NEW S, NEW s \in Seq(S), NEW t \in S, Distinct(s), t \notin Range(s)
    PROVE  /\ Append(s, t) \in Seq(S)
           /\ Distinct(Append(s, t))
           /\ Range(Append(s, t)) = Range(s) \cup {t}
           /\ \A x, y : Before(Append(s, t), x, y) =>
                  Before(s, x, y) \/ (y = t /\ x \in Range(s))
<1>1. /\ Append(s, t) \in Seq(S)
      /\ Len(Append(s, t)) = Len(s) + 1
      /\ \A i \in 1..Len(s) : Append(s, t)[i] = s[i]
      /\ Append(s, t)[Len(s) + 1] = t
  OBVIOUS
<1>2. Len(s) \in Nat
  OBVIOUS
<1>3. \A i \in 1..Len(s) : s[i] # t
  BY RangeSeq
<1>4. Distinct(Append(s, t))
  BY <1>1, <1>2, <1>3 DEF Distinct
<1>5. Range(Append(s, t)) = Range(s) \cup {t}
  <2>1. Range(Append(s, t)) = {Append(s, t)[i] : i \in 1..Len(s) + 1}
    BY <1>1, RangeSeq
  <2> QED
    BY <1>1, <1>2, <2>1, RangeSeq
<1>6. ASSUME NEW x, NEW y, Before(Append(s, t), x, y)
      PROVE  Before(s, x, y) \/ (y = t /\ x \in Range(s))
  BY <1>1, <1>2, <1>6, RangeSeq DEF Before
<1> QED
  BY <1>1, <1>4, <1>5, <1>6

\* The queue without its oldest track.
LEMMA TailQueue ==
    ASSUME NEW S, NEW s \in Seq(S), Distinct(s), s # <<>>
    PROVE  /\ Head(s) \in Range(s) /\ Tail(s) \in Seq(S)
           /\ Distinct(Tail(s))
           /\ Range(Tail(s)) = Range(s) \ {Head(s)}
           /\ \A x, y : Before(Tail(s), x, y) => Before(s, x, y)
<1>1. /\ Tail(s) \in Seq(S) /\ Head(s) = s[1]
      /\ Len(s) \in Nat \ {0} /\ Len(Tail(s)) = Len(s) - 1
      /\ \A i \in 1..Len(s) - 1 : Tail(s)[i] = s[i + 1]
  BY HeadTailProperties, EmptySeq
<1>2. Distinct(Tail(s))
  BY <1>1 DEF Distinct
<1>3. Range(Tail(s)) = Range(s) \ {Head(s)}
  <2>1. Range(Tail(s)) = {Tail(s)[i] : i \in 1..Len(Tail(s))}
    BY <1>1, RangeSeq
  <2>2. ASSUME NEW i \in 1..Len(Tail(s)) PROVE Tail(s)[i] \in Range(s) \ {Head(s)}
    <3>1. i + 1 \in 1..Len(s) /\ i + 1 # 1 /\ Tail(s)[i] = s[i + 1] /\ 1 \in 1..Len(s)
      BY <1>1
    <3> QED
      BY <1>1, <3>1, RangeSeq DEF Distinct
  <2>3. ASSUME NEW i \in 1..Len(s), s[i] # s[1]
        PROVE  \E j \in 1..Len(Tail(s)) : s[i] = Tail(s)[j]
    <3>1. i # 1 /\ i - 1 \in 1..Len(s) - 1 /\ i = (i - 1) + 1
      BY <1>1, <2>3
    <3> QED
      BY <1>1, <3>1
  <2> QED
    BY <1>1, <2>1, <2>2, <2>3, RangeSeq
<1>4. ASSUME NEW x, NEW y, Before(Tail(s), x, y) PROVE Before(s, x, y)
  <2>1. PICK i, j \in 1..Len(Tail(s)) : i < j /\ Tail(s)[i] = x /\ Tail(s)[j] = y
    BY <1>4 DEF Before
  <2>2. i + 1 \in 1..Len(s) /\ j + 1 \in 1..Len(s) /\ i + 1 < j + 1
    BY <1>1, <2>1
  <2> QED
    BY <1>1, <2>1, <2>2 DEF Before
<1> QED
  BY <1>1, <1>2, <1>3, <1>4, RangeSeq

\* order.retain drops exactly the track, since it is there once at most.
LEMMA RetainQueue ==
    ASSUME NEW S, NEW s \in Seq(S), NEW t, Distinct(s)
    PROVE  /\ Retain(s, t) \in Seq(S)
           /\ Distinct(Retain(s, t))
           /\ Range(Retain(s, t)) = Range(s) \ {t}
           /\ \A x, y : Before(Retain(s, t), x, y) => Before(s, x, y)
<1>1. CASE \A k \in 1..Len(s) : s[k] # t
  <2>1. Retain(s, t) = s
    BY <1>1 DEF Retain
  <2> QED
    BY <1>1, <2>1, RangeSeq
<1>2. CASE \E k \in 1..Len(s) : s[k] = t
  <2> DEFINE k == CHOOSE k \in 1..Len(s) : s[k] = t
             r == [i \in 1..Len(s) - 1 |-> IF i < k THEN s[i] ELSE s[i + 1]]
  <2>1. k \in 1..Len(s) /\ s[k] = t
    BY <1>2
  <2>2. Retain(s, t) = r
    BY <1>2 DEF Retain
  <2>3. Len(s) \in Nat
    OBVIOUS
  <2> HIDE DEF k
  <2>4. \A i \in 1..Len(s) : s[i] \in S
    OBVIOUS
  <2>5. r \in Seq(S) /\ Len(r) = Len(s) - 1
    BY <2>1, <2>3, <2>4
  <2>6. \A i \in 1..Len(r) : r[i] = IF i < k THEN s[i] ELSE s[i + 1]
    BY <2>5
  <2> HIDE DEF r
  <2>7. Distinct(r)
    BY <2>1, <2>3, <2>5, <2>6 DEF Distinct
  <2>8. Range(r) = Range(s) \ {t}
    <3>1. ASSUME NEW i \in 1..Len(r) PROVE r[i] \in Range(s) \ {t}
      BY <2>1, <2>3, <2>5, <2>6, RangeSeq DEF Distinct
    <3>2. ASSUME NEW i \in 1..Len(s), s[i] # t PROVE \E j \in 1..Len(r) : s[i] = r[j]
      <4>1. CASE i < k
        BY <2>1, <2>3, <2>5, <2>6, <4>1
      <4>2. CASE i > k
        <5>1. i - 1 \in 1..Len(r) /\ ~(i - 1 < k) /\ (i - 1) + 1 = i
          BY <2>1, <2>3, <2>5, <4>2
        <5> QED
          BY <2>6, <5>1
      <4> QED
        BY <2>1, <3>2, <4>1, <4>2
    <3> QED
      BY <2>5, <3>1, <3>2, RangeSeq
  <2>9. ASSUME NEW x, NEW y, Before(r, x, y) PROVE Before(s, x, y)
    <3>1. PICK i, j \in 1..Len(r) : i < j /\ r[i] = x /\ r[j] = y
      BY <2>9 DEF Before
    <3> DEFINE at(n) == IF n < k THEN n ELSE n + 1
    <3>2. at(i) \in 1..Len(s) /\ at(j) \in 1..Len(s) /\ at(i) < at(j)
      BY <2>1, <2>3, <2>5, <3>1
    <3>3. s[at(i)] = x /\ s[at(j)] = y
      BY <2>6, <3>1
    <3> QED
      BY <3>2, <3>3 DEF Before
  <2> QED
    BY <2>2, <2>5, <2>7, <2>8, <2>9
<1> QED
  BY <1>1, <1>2

-----------------------------------------------------------------------------
(* The sum of the sizes.                                                   *)

\* The bytes of one entry.
LEMMA Block ==
    ASSUME NEW x, NEW n \in Nat
    PROVE  /\ IsFiniteSet({x} \X (1..n))
           /\ Cardinality({x} \X (1..n)) = n
<1>1. IsFiniteSet(1..n) /\ Cardinality(1..n) = n
  BY FS_Interval
<1> DEFINE f == [i \in 1..n |-> <<x, i>>]
<1>2. f \in Bijection(1..n, {x} \X (1..n))
  BY DEF Bijection, Injection, Surjection, IsInjective
<1>3. ExistsBijection(1..n, {x} \X (1..n))
  BY <1>2 DEF ExistsBijection
<1> QED
  BY <1>1, <1>3, FS_Bijection

\* What a byte of the entries is.
LEMMA ByteOf ==
    ASSUME NEW e, NEW z
    PROVE  z \in Bytes(e) <=> \E x \in DOMAIN e : \E n \in 1..e[x].size : z = <<x, n>>
BY DEF Bytes

\* What is counted depends on the tracks and their sizes only.
LEMMA BytesSame ==
    ASSUME NEW e, NEW f, DOMAIN f = DOMAIN e, \A x \in DOMAIN e : f[x].size = e[x].size
    PROVE  Bytes(f) = Bytes(e)
<1>1. ASSUME NEW z PROVE z \in Bytes(f) <=> z \in Bytes(e)
  BY ByteOf
<1> QED
  BY <1>1

\* The bytes left when an entry goes.
LEMMA BytesWithout ==
    ASSUME NEW S, NEW e, IsPartialFun(e, S, Entry), IsFiniteSet(Bytes(e)), NEW x \in DOMAIN e
    PROVE  /\ IsFiniteSet(Bytes(Without(e, x)))
           /\ e[x].size \in Nat
           /\ Cardinality(Bytes(e)) = Cardinality(Bytes(Without(e, x))) + e[x].size
<1> DEFINE block == {x} \X (1..e[x].size)
           rest == Bytes(Without(e, x))
<1>1. e[x].size \in Nat
  BY DEF IsPartialFun, Entry
<1>2. /\ DOMAIN Without(e, x) = DOMAIN e \ {x}
      /\ \A z \in DOMAIN e : z # x => Without(e, x)[z] = e[z]
  BY DEF Without, Restrict
<1>3. Bytes(e) = rest \cup block
  <2>1. ASSUME NEW z PROVE z \in Bytes(e) <=> z \in rest \/ z \in block
    <3>1. z \in block <=> \E n \in 1..e[x].size : z = <<x, n>>
      OBVIOUS
    <3>2. z \in rest <=> \E y \in DOMAIN e \ {x} : \E n \in 1..e[y].size : z = <<y, n>>
      BY <1>2, ByteOf
    <3> QED
      BY <3>1, <3>2, ByteOf
  <2> QED
    BY <2>1
<1>4. rest \cap block = {}
  BY <1>2, ByteOf
<1>5. IsFiniteSet(rest)
  BY <1>3, FS_Subset
<1>6. IsFiniteSet(block) /\ Cardinality(block) = e[x].size
  BY <1>1, Block
<1>7. Cardinality(rest \cap block) = 0
  BY <1>4, FS_EmptySet
<1> HIDE DEF block, rest
<1>8. Cardinality(Bytes(e)) = Cardinality(rest) + Cardinality(block) - Cardinality(rest \cap block)
  BY <1>3, <1>5, <1>6, FS_Union
<1> QED
  BY <1>1, <1>5, <1>6, <1>7, <1>8, FS_CardinalityType DEF rest

\* The bytes there are when an entry comes.
LEMMA BytesWith ==
    ASSUME NEW S, NEW e, IsPartialFun(e, S, Entry), IsFiniteSet(Bytes(e)),
           NEW x \in S, x \notin DOMAIN e, NEW y \in Entry
    PROVE  /\ IsFiniteSet(Bytes(With(e, x, y)))
           /\ Cardinality(Bytes(With(e, x, y))) = Cardinality(Bytes(e)) + y.size
<1> DEFINE f == With(e, x, y)
<1>1. IsPartialFun(f, S, Entry) /\ x \in DOMAIN f /\ f[x] = y
      /\ DOMAIN f = DOMAIN e \cup {x} /\ \A z \in DOMAIN e : f[z] = e[z]
  BY DEF IsPartialFun, With
<1> HIDE DEF f
<1>2. DOMAIN Without(f, x) = DOMAIN e /\ \A z \in DOMAIN e : Without(f, x)[z] = e[z]
  BY <1>1 DEF Without, Restrict
<1>3. Bytes(Without(f, x)) = Bytes(e)
  BY <1>2, BytesSame
<1>4. IsFiniteSet(Bytes(f))
  <2>1. IsFiniteSet({x} \X (1..y.size))
    BY Block DEF Entry
  <2>2. Bytes(f) = Bytes(e) \cup ({x} \X (1..y.size))
    <3>1. ASSUME NEW z PROVE z \in Bytes(f) <=> z \in Bytes(e) \/ z \in {x} \X (1..y.size)
      <4>1. z \in {x} \X (1..y.size) <=> \E n \in 1..y.size : z = <<x, n>>
        OBVIOUS
      <4> QED
        BY <1>1, <4>1, ByteOf
    <3> QED
      BY <3>1
  <2>3. IsFiniteSet(Bytes(e) \cup ({x} \X (1..y.size)))
    BY <2>1, FS_Union
  <2> QED
    BY <2>2, <2>3
<1> QED
  BY <1>1, <1>3, <1>4, BytesWithout DEF f

\* Replacing an entry: one goes, one comes.
LEMMA BytesReplace ==
    ASSUME NEW S, NEW e, IsPartialFun(e, S, Entry), IsFiniteSet(Bytes(e)),
           NEW x \in DOMAIN e, NEW y \in Entry
    PROVE  /\ IsFiniteSet(Bytes(With(e, x, y)))
           /\ Cardinality(Bytes(With(e, x, y)))
                  = Cardinality(Bytes(e)) - e[x].size + y.size
<1> DEFINE d == Without(e, x)
<1>1. IsPartialFun(d, S, Entry) /\ DOMAIN d = DOMAIN e \ {x}
      /\ \A z \in DOMAIN e : z # x => d[z] = e[z]
  BY DEF IsPartialFun, Without, Restrict
<1>2. /\ IsFiniteSet(Bytes(d)) /\ e[x].size \in Nat
      /\ Cardinality(Bytes(e)) = Cardinality(Bytes(d)) + e[x].size
  BY BytesWithout
<1>3. x \in S
  BY DEF IsPartialFun
<1> HIDE DEF d
<1>4. With(d, x, y) = With(e, x, y)
  BY <1>1 DEF With
<1>5. /\ IsFiniteSet(Bytes(With(d, x, y)))
      /\ Cardinality(Bytes(With(d, x, y))) = Cardinality(Bytes(d)) + y.size
  BY <1>1, <1>2, <1>3, BytesWith
<1> QED
  BY <1>2, <1>4, <1>5, FS_CardinalityType DEF Entry

-----------------------------------------------------------------------------
(* Loading: the tracks of S, each once, by their stamps.                   *)

\* A queue rebuilt from the metadata lists the kept tracks once, oldest stamp first.
LEMMA LoadQueue ==
    ASSUME NEW e, NEW S, S \subseteq Track, NEW o \in LoadOrders(e, S)
    PROVE  /\ o \in Seq(Track) /\ Distinct(o) /\ Range(o) = S
           /\ \A x, y : Before(o, x, y) => e[x].stamp <= e[y].stamp
<1> DEFINE n == Cardinality(S)
<1>1. IsFiniteSet(S) /\ n \in Nat
  BY TrackAssumption, FS_Subset, FS_CardinalityType
<1> HIDE DEF n
<1>2. /\ o \in [1..n -> S]
      /\ \A i, j \in 1..n : i < j => o[i] # o[j] /\ e[o[i]].stamp <= e[o[j]].stamp
  BY DEF LoadOrders, n
<1>3. o \in Seq(Track) /\ Len(o) = n
  BY <1>1, <1>2
<1>4. Distinct(o)
  <2> SUFFICES ASSUME NEW i \in 1..n, NEW j \in 1..n, i # j PROVE o[i] # o[j]
    BY <1>3 DEF Distinct
  <2>1. i < j \/ j < i
    BY <1>1
  <2> QED
    BY <1>2, <2>1
<1>5. Range(o) = S
  <2>1. o \in Injection(1..n, S)
    BY <1>1, <1>2, <1>3, <1>4 DEF Injection, IsInjective, Distinct
  <2>2. Cardinality(1..n) = Cardinality(S)
    BY <1>1, FS_Interval DEF n
  <2>3. o \in Surjection(1..n, S)
    BY <1>1, <2>1, <2>2, FS_Injection
  <2>4. \A t \in S : \E i \in 1..n : o[i] = t
    BY <2>3 DEF Surjection
  <2> QED
    BY <1>2, <2>4 DEF Range
<1>6. \A x, y : Before(o, x, y) => e[x].stamp <= e[y].stamp
  BY <1>2, <1>3 DEF Before
<1> QED
  BY <1>3, <1>4, <1>5, <1>6

-----------------------------------------------------------------------------
(* Types and the queue.                                                    *)

\* The entry that get_path found vanished is still there when it drops it.
Held == lock = "vanished" => subject \in DOMAIN entries

Shaped == TypeOK /\ OrderIsPermutation /\ Held

\* What the invariant says of the queue.
LEMMA QueueOf ==
    ASSUME Shaped
    PROVE  Distinct(order) /\ Range(order) = DOMAIN entries /\ order \in Seq(Track)
BY DEF Shaped, TypeOK, OrderIsPermutation, Distinct, Held

\* retain, then push_back.
Requeue(s, t) == Append(Retain(s, t), t)

\* A track moved or added to the back.
LEMMA RequeueQueue ==
    ASSUME Shaped, NEW t \in Track
    PROVE  /\ Requeue(order, t) \in Seq(Track)
           /\ Distinct(Requeue(order, t))
           /\ Range(Requeue(order, t)) = DOMAIN entries \cup {t}
           /\ \A x, y : Before(Requeue(order, t), x, y) =>
                  Before(order, x, y) \/ (y = t /\ x \in DOMAIN entries \ {t})
           /\ Requeue(order, t) # <<>>
           /\ Requeue(order, t)[Len(Requeue(order, t))] = t
<1> DEFINE r == Retain(order, t)
<1>1. r \in Seq(Track) /\ Distinct(r)
  BY QueueOf, RetainQueue
<1>2. Range(r) = DOMAIN entries \ {t}
  BY QueueOf, RetainQueue
<1>3. \A x, y : Before(r, x, y) => Before(order, x, y)
  BY QueueOf, RetainQueue
<1> HIDE DEF r
<1>4. t \notin Range(r)
  BY <1>2
<1>5. Append(r, t) \in Seq(Track) /\ Append(r, t) # <<>> /\ Append(r, t)[Len(Append(r, t))] = t
  BY <1>1
<1>6. Distinct(Append(r, t))
  BY <1>1, <1>4, AppendQueue
<1>7. Range(Append(r, t)) = Range(r) \cup {t}
  BY <1>1, <1>4, AppendQueue
<1>8. \A x, y : Before(Append(r, t), x, y) => Before(r, x, y) \/ (y = t /\ x \in Range(r))
  BY <1>1, <1>4, AppendQueue
<1> QED
  BY <1>2, <1>3, <1>5, <1>6, <1>7, <1>8 DEF Requeue, r

\* The guarded subtraction stays a natural number.
LEMMA LessType ==
    ASSUME NEW n \in Nat, NEW size \in Nat
    PROVE  Less(n, size) \in Nat
BY DEF Less

\* An entry whose stamp alone is renewed.
LEMMA StampType ==
    ASSUME NEW e, NEW f, NEW s \in Nat, IsPartialFun(e, Track, Entry), NEW t \in DOMAIN e,
           f = [e EXCEPT ![t].stamp = s]
    PROVE  /\ IsPartialFun(f, Track, Entry) /\ DOMAIN f = DOMAIN e
           /\ f[t] = [e[t] EXCEPT !.stamp = s] /\ f[t].stamp = s
           /\ \A x \in DOMAIN e : f[x].size = e[x].size /\ f[x].path = e[x].path
           /\ \A x \in DOMAIN e : x # t => f[x] = e[x]
BY DEF IsPartialFun, Entry

\* Types and queue hold at the start.
LEMMA ShapeInit == Init => Shaped
<1> SUFFICES ASSUME Init PROVE Shaped
  OBVIOUS
<1> USE DEF Init
<1>1. IsPartialFun(files, Path, File) /\ IsPartialFun(meta, Track, Entry)
      /\ IsPartialFun(entries, Track, Entry) /\ DOMAIN entries = {}
  BY EmptyMap
<1>2. order \in Seq(Track) /\ Len(order) = 0 /\ Range(order) = {}
  BY DEF Range
<1>3. used \in [DOMAIN entries -> Nat]
  OBVIOUS
<1> QED
  BY <1>1, <1>2, <1>3 DEF Shaped, TypeOK, OrderIsPermutation, Held

\* get_path keeps them.
LEMMA ShapeLookup ==
    ASSUME Shaped, NEW t \in Track, GetVanished(t) \/ GetRecent(t) \/ GetTouched(t)
    PROVE  Shaped'
<1> USE DEF Shaped, TypeOK, memory, Held
<1>1. CASE GetVanished(t)
  BY <1>1 DEF GetVanished, OrderIsPermutation
<1>2. CASE GetRecent(t)
  BY <1>2 DEF GetRecent, OrderIsPermutation
<1>3. CASE GetTouched(t)
  <2>1. IsPartialFun(entries', Track, Entry) /\ DOMAIN entries' = DOMAIN entries
    BY <1>3, StampType DEF GetTouched
  <2>2. order' = Requeue(order, t) /\ t \in DOMAIN entries
    BY <1>3 DEF GetTouched, Requeue
  <2>3. order' \in Seq(Track) /\ Distinct(order') /\ Range(order') = DOMAIN entries'
    <3>1. DOMAIN entries \cup {t} = DOMAIN entries
      BY <2>2
    <3>2. Range(Requeue(order, t)) = DOMAIN entries
      BY <3>1, RequeueQueue
    <3> QED
      BY <2>1, <2>2, <3>2, RequeueQueue
  <2>4. used' \in [DOMAIN entries' -> Nat]
    BY <1>3, <2>1 DEF GetTouched
  <2> QED
    BY <1>3, <2>1, <2>3, <2>4 DEF GetTouched, OrderIsPermutation, Distinct
<1> QED
  BY <1>1, <1>2, <1>3

\* The removal of a vanished entry keeps them.
LEMMA ShapeRemove ==
    ASSUME Shaped, Remove
    PROVE  Shaped'
<1>1. /\ subject \in DOMAIN entries
      /\ entries' = Without(entries, subject) /\ order' = Retain(order, subject)
      /\ total' = Less(total, entries[subject].size)
      /\ files' = Without(files, entries[subject].path) /\ used' = Without(used, subject)
      /\ lock' = "dirty" /\ subject' = NoTrack
      /\ UNCHANGED <<meta, max, dl, config, toApply, now, restarts, saveOk>>
  BY DEF Remove, Shaped, Held
<1>2. IsPartialFun(entries', Track, Entry)
  BY <1>1, WithoutMap DEF Shaped, TypeOK
<1>3. DOMAIN entries' = DOMAIN entries \ {subject}
  BY <1>1 DEF Without, Restrict
<1>4. order' \in Seq(Track) /\ Distinct(order')
  BY <1>1, QueueOf, RetainQueue
<1>5. Range(order') = DOMAIN entries'
  BY <1>1, <1>3, QueueOf, RetainQueue
<1>6. total' \in Nat
  BY <1>1, LessType DEF Shaped, TypeOK, IsPartialFun, Entry
<1>7. IsPartialFun(files', Path, File)
  BY <1>1, WithoutMap DEF Shaped, TypeOK
<1>8. used' \in [DOMAIN entries' -> Nat]
  BY <1>1, <1>3 DEF Shaped, TypeOK, Without, Restrict
<1> QED
  BY <1>1, <1>2, <1>4, <1>5, <1>6, <1>7, <1>8
  DEF Shaped, TypeOK, OrderIsPermutation, Distinct, Held

\* The fields of a fetch under way.
LEMMA DownloadField ==
    ASSUME NEW d \in Download
    PROVE  /\ d.track \in Track /\ d.path \in Path /\ d.size \in Nat /\ d.stamp \in Nat
           /\ \A n, m \in Nat : [d EXCEPT !.stage = "measured", !.size = n, !.stamp = m] \in Download
           /\ [d EXCEPT !.stage = "landed"] \in Download
BY DEF Download

\* The steps of a fetch before its put keep them.
LEMMA ShapeFetch ==
    ASSUME Shaped, \/ \E t \in Track : TrackPath(t)
                   \/ FetchFails \/ Rename \/ Measure
    PROVE  Shaped'
<1> USE DEF Shaped, TypeOK, memory, OrderIsPermutation, Held
<1>1. ASSUME NEW t \in Track, TrackPath(t) PROVE Shaped'
  <2>1. PICK i \in 0..MaxIndex :
            dl' = [stage |-> "encoding", track |-> t, path |-> <<Stem[t], i>>,
                   size |-> 0, stamp |-> 0]
    BY <1>1 DEF TrackPath
  <2>2. <<Stem[t], i>> \in Path
    BY StemAssumption DEF Path, Range
  <2>3. dl' \in Download
    BY <2>1, <2>2 DEF Download
  <2> QED
    BY <1>1, <2>3 DEF TrackPath
<1>2. CASE FetchFails
  BY <1>2 DEF FetchFails
<1>3. CASE Rename
  <2>1. dl \in Download
    BY <1>3 DEF Rename
  <2>2. PICK n \in Sizes[dl.track] : files' = With(files, dl.path, [track |-> dl.track, size |-> n])
    BY <1>3 DEF Rename
  <2>3. n \in Nat /\ [track |-> dl.track, size |-> n] \in File
    BY <2>1, DownloadField, SizeAssumption DEF File
  <2>4. IsPartialFun(files', Path, File)
    BY <2>1, <2>2, <2>3, DownloadField, WithMap
  <2>5. dl' \in Download
    BY <1>3, <2>1, DownloadField DEF Rename
  <2> QED
    BY <1>3, <2>4, <2>5 DEF Rename
<1>4. CASE Measure
  <2>1. dl \in Download
    BY <1>4 DEF Measure
  <2>2. (IF dl.path \in DOMAIN files THEN files[dl.path].size ELSE 0) \in Nat
    BY DEF IsPartialFun, File
  <2>3. dl' \in Download
    BY <1>4, <2>1, <2>2, DownloadField DEF Measure
  <2> QED
    BY <1>4, <2>3 DEF Measure
<1> QED
  BY <1>1, <1>2, <1>3, <1>4

\* put keeps them.
LEMMA ShapePut ==
    ASSUME Shaped, Put
    PROVE  Shaped'
<1> DEFINE t == dl.track
           y == [stamp |-> dl.stamp, path |-> dl.path, size |-> dl.size]
<1>1. dl \in Download
  BY DEF Shaped, TypeOK, Put
<1>2. t \in Track /\ y \in Entry
  BY <1>1, DownloadField DEF Entry
<1>3. entries' = With(entries, t, y) /\ order' = Requeue(order, t) /\ used' = With(used, t, now)
  BY DEF Put, Requeue
<1>4. total' = (IF t \in DOMAIN entries THEN Less(total, entries[t].size) ELSE total) + dl.size
      /\ files' = IF t \in DOMAIN entries /\ entries[t].path # dl.path
                   THEN Without(files, entries[t].path) ELSE files
  BY DEF Put
<1>5. UNCHANGED <<meta, max, config, toApply, now, restarts, saveOk>>
      /\ subject' = t /\ lock' = "evict" /\ dl' = NoDownload
  BY DEF Put
<1> HIDE DEF t, y
<1>6. IsPartialFun(entries', Track, Entry)
  BY <1>2, <1>3, WithMap DEF Shaped, TypeOK
<1>7. DOMAIN entries' = DOMAIN entries \cup {t}
  BY <1>3 DEF With
<1>8. order' \in Seq(Track) /\ Distinct(order') /\ Range(order') = DOMAIN entries'
  BY <1>2, <1>3, <1>7, RequeueQueue
<1>9. total' \in Nat
  <2>1. total \in Nat /\ dl.size \in Nat
    BY <1>1, DownloadField DEF Shaped, TypeOK
  <2>2. t \in DOMAIN entries => entries[t].size \in Nat
    BY DEF Shaped, TypeOK, IsPartialFun, Entry
  <2>3. CASE t \in DOMAIN entries
    <3>1. Less(total, entries[t].size) \in Nat
      BY <2>1, <2>2, <2>3, LessType
    <3>2. total' = Less(total, entries[t].size) + dl.size
      BY <1>4, <2>3
    <3> QED
      BY <2>1, <3>1, <3>2
  <2>4. CASE t \notin DOMAIN entries
    <3>1. total' = total + dl.size
      BY <1>4, <2>4
    <3> QED
      BY <2>1, <3>1
  <2> QED
    BY <2>3, <2>4
<1>10. IsPartialFun(files', Path, File)
  BY <1>4, WithoutMap DEF Shaped, TypeOK
<1>11. used' \in [DOMAIN entries' -> Nat]
  BY <1>3, <1>7 DEF Shaped, TypeOK, With
<1> QED
  BY <1>2, <1>5, <1>6, <1>8, <1>9, <1>10, <1>11 DEF Shaped, TypeOK, OrderIsPermutation, Distinct, Held

\* The oldest of the queue is an entry.
LEMMA OldestEntry ==
    ASSUME Shaped, order # <<>>
    PROVE  /\ Head(order) \in DOMAIN entries /\ Head(order) \in Track
           /\ entries[Head(order)] \in Entry
BY QueueOf, TailQueue DEF Shaped, TypeOK, IsPartialFun

\* A round of the eviction loop keeps them.
LEMMA ShapeEvict ==
    ASSUME Shaped, EvictOldest
    PROVE  Shaped'
<1> DEFINE t == Head(order)
<1>1. lock = "evict" /\ order # <<>> /\ entries' = Without(entries, t) /\ order' = Tail(order)
      /\ total' = Less(total, entries[t].size) /\ files' = Without(files, entries[t].path)
      /\ used' = Without(used, t)
      /\ UNCHANGED <<meta, max, lock, subject, dl, config, toApply, now, restarts, saveOk>>
  BY DEF EvictOldest
<1>2. t \in DOMAIN entries /\ entries[t] \in Entry
  BY <1>1, OldestEntry
<1>3. order' \in Seq(Track) /\ Distinct(order')
  BY <1>1, QueueOf, TailQueue
<1>4. Range(order') = DOMAIN entries \ {t}
  BY <1>1, QueueOf, TailQueue
<1> HIDE DEF t
<1>5. IsPartialFun(entries', Track, Entry)
  BY <1>1, WithoutMap DEF Shaped, TypeOK
<1>6. DOMAIN entries' = DOMAIN entries \ {t}
  BY <1>1 DEF Without, Restrict
<1>7. IsPartialFun(files', Path, File)
  BY <1>1, WithoutMap DEF Shaped, TypeOK
<1>8. total' \in Nat
  BY <1>1, <1>2, LessType DEF Shaped, TypeOK, Entry
<1>9. used' \in [DOMAIN entries' -> Nat]
  BY <1>1, <1>6 DEF Shaped, TypeOK, Without, Restrict
<1> QED
  BY <1>1, <1>3, <1>4, <1>5, <1>6, <1>7, <1>8, <1>9
  DEF Shaped, TypeOK, OrderIsPermutation, Distinct, Held

\* EvictDone, Save, the admin requests other than clear, the clock.
LEMMA ShapeQuiet ==
    ASSUME Shaped, \/ EvictDone \/ Save \/ Tick
                   \/ \E m \in Limits : SaveLimit(m) \/ SetMax(m)
    PROVE  Shaped'
<1> USE DEF Shaped, TypeOK, memory, OrderIsPermutation, Held
<1>1. CASE EvictDone
  BY <1>1 DEF EvictDone
<1>2. CASE Save
  BY <1>2 DEF Save
<1>3. CASE Tick
  BY <1>3 DEF Tick
<1>4. ASSUME NEW m \in Limits, SaveLimit(m) PROVE Shaped'
  BY <1>4 DEF SaveLimit
<1>5. ASSUME NEW m \in Limits, SetMax(m) PROVE Shaped'
  BY <1>5 DEF SetMax
<1> QED
  BY <1>1, <1>2, <1>3, <1>4, <1>5

\* clear keeps them.
LEMMA ShapeClear ==
    ASSUME Shaped, Clear
    PROVE  Shaped'
<1>1. /\ entries' = <<>> /\ files' = <<>> /\ order' = <<>> /\ used' = <<>> /\ total' = 0
      /\ lock' = "dirty"
      /\ UNCHANGED <<meta, max, subject, dl, config, toApply, now, restarts, saveOk>>
  BY DEF Clear
<1>2. IsPartialFun(entries', Track, Entry) /\ IsPartialFun(files', Path, File)
      /\ DOMAIN entries' = {}
  BY <1>1, EmptyMap
<1>3. order' \in Seq(Track) /\ Range(order') = {} /\ Len(order') = 0
  BY <1>1 DEF Range
<1>4. used' \in [DOMAIN entries' -> Nat]
  BY <1>1
<1> QED
  BY <1>1, <1>2, <1>3, <1>4 DEF Shaped, TypeOK, OrderIsPermutation, Held

\* A file deleted by hand changes neither.
LEMMA ShapeVanish ==
    ASSUME Shaped, NEW p \in Path, FileVanishes(p)
    PROVE  Shaped'
<1>1. IsPartialFun(files', Path, File)
  BY WithoutMap DEF FileVanishes, Shaped, TypeOK
<1> QED
  BY <1>1 DEF FileVanishes, Shaped, TypeOK, memory, OrderIsPermutation, Held

\* A restart rebuilds both from the metadata.
LEMMA ShapeRestart ==
    ASSUME Shaped, IsFiniteSet(Bytes(meta)), Restart
    PROVE  Shaped' /\ IsFiniteSet(Bytes(entries'))
<1> DEFINE kept == {t \in DOMAIN meta : meta[t].path \in DOMAIN files}
<1>1. /\ entries' = Restrict(meta, kept) /\ order' \in LoadOrders(meta, kept)
      /\ total' = Cardinality(Bytes(entries')) /\ used' = [t \in kept |-> meta[t].stamp]
      /\ max' = config /\ lock' = "free" /\ subject' = NoTrack /\ dl' = NoDownload
      /\ toApply' = {} /\ saveOk' = TRUE /\ restarts' = restarts + 1
      /\ UNCHANGED <<files, meta, config, now>>
  BY DEF Restart
<1>2. kept \subseteq DOMAIN meta /\ kept \subseteq Track
  BY DEF Shaped, TypeOK, IsPartialFun
<1> HIDE DEF kept
<1>3. IsPartialFun(entries', Track, Entry)
  BY <1>1, <1>2, RestrictMap DEF Shaped, TypeOK
<1>4. DOMAIN entries' = kept /\ \A t \in kept : entries'[t] = meta[t]
  BY <1>1 DEF Restrict
<1>5. order' \in Seq(Track) /\ Distinct(order') /\ Range(order') = kept
  BY <1>1, <1>2, LoadQueue
<1>6. used' \in [kept -> Nat]
  BY <1>1, <1>2 DEF Shaped, TypeOK, IsPartialFun, Entry
<1>7. IsFiniteSet(Bytes(entries')) /\ total' \in Nat
  <2>1. Bytes(entries') \subseteq Bytes(meta)
    BY <1>2, <1>4, ByteOf
  <2> QED
    BY <1>1, <2>1, FS_Subset, FS_CardinalityType
<1> QED
  BY <1>1, <1>3, <1>4, <1>5, <1>6, <1>7 DEF Shaped, TypeOK, OrderIsPermutation, Distinct, Held

-----------------------------------------------------------------------------
(* The total.                                                              *)

Counted == TotalIsSum /\ IsFiniteSet(Bytes(entries)) /\ IsFiniteSet(Bytes(meta))

\* The guarded subtraction loses nothing when the size was part of the total.
LEMMA LessSum ==
    ASSUME NEW n \in Nat, NEW k \in Nat
    PROVE  Less(n + k, k) = n
BY DEF Less

\* An entry goes and its size is taken off the total.
LEMMA CountedWithout ==
    ASSUME Shaped, Counted, NEW t \in DOMAIN entries,
           entries' = Without(entries, t), total' = Less(total, entries[t].size),
           UNCHANGED meta
    PROVE  Counted'
<1> DEFINE rest == Bytes(Without(entries, t))
<1>1. IsPartialFun(entries, Track, Entry)
  BY DEF Shaped, TypeOK
<1>2. /\ IsFiniteSet(rest) /\ entries[t].size \in Nat
      /\ Cardinality(Bytes(entries)) = Cardinality(rest) + entries[t].size
  BY <1>1, BytesWithout DEF Counted
<1>3. Cardinality(rest) \in Nat
  BY <1>2, FS_CardinalityType
<1> HIDE DEF rest
<1>4. total' = Cardinality(rest)
  BY <1>2, <1>3, LessSum DEF Counted, TotalIsSum
<1> QED
  BY <1>2, <1>4 DEF rest, Counted, TotalIsSum

\* put counts its file, and uncounts the one it replaces.
LEMMA CountedPut ==
    ASSUME Shaped, Counted, Put
    PROVE  Counted'
<1> DEFINE t == dl.track
           y == [stamp |-> dl.stamp, path |-> dl.path, size |-> dl.size]
<1>1. dl \in Download
  BY DEF Shaped, TypeOK, Put
<1>2. t \in Track /\ y \in Entry /\ y.size = dl.size /\ dl.size \in Nat
  BY <1>1, DownloadField DEF Entry
<1>3. /\ entries' = With(entries, t, y) /\ UNCHANGED meta
      /\ total' = (IF t \in DOMAIN entries THEN Less(total, entries[t].size) ELSE total) + dl.size
  BY DEF Put
<1>4. IsPartialFun(entries, Track, Entry) /\ total \in Nat
  BY DEF Shaped, TypeOK
<1> HIDE DEF t, y
<1>5. CASE t \notin DOMAIN entries
  <2>1. /\ IsFiniteSet(Bytes(With(entries, t, y)))
        /\ Cardinality(Bytes(With(entries, t, y))) = Cardinality(Bytes(entries)) + y.size
    BY <1>2, <1>4, <1>5, BytesWith DEF Counted
  <2>2. total' = total + dl.size
    BY <1>3, <1>5
  <2> QED
    BY <1>2, <1>3, <2>1, <2>2 DEF Counted, TotalIsSum
<1>6. CASE t \in DOMAIN entries
  <2> DEFINE rest == Bytes(Without(entries, t))
  <2>1. /\ IsFiniteSet(Bytes(With(entries, t, y)))
        /\ Cardinality(Bytes(With(entries, t, y)))
               = Cardinality(Bytes(entries)) - entries[t].size + y.size
    BY <1>2, <1>4, <1>6, BytesReplace DEF Counted
  <2>2. /\ IsFiniteSet(rest) /\ entries[t].size \in Nat
        /\ Cardinality(Bytes(entries)) = Cardinality(rest) + entries[t].size
    BY <1>4, <1>6, BytesWithout DEF Counted
  <2>3. Cardinality(rest) \in Nat
    BY <2>2, FS_CardinalityType
  <2>4. total' = Less(total, entries[t].size) + dl.size
    BY <1>3, <1>6
  <2> HIDE DEF rest
  <2>5. Less(total, entries[t].size) = Cardinality(rest)
    BY <2>2, <2>3, LessSum DEF Counted, TotalIsSum
  <2> QED
    BY <1>2, <1>3, <2>1, <2>2, <2>3, <2>4, <2>5 DEF Counted, TotalIsSum
<1> QED
  BY <1>5, <1>6

\* Every step keeps the total equal to the sum.
LEMMA CountedStep ==
    ASSUME Shaped, Counted, [Next]_vars
    PROVE  Counted'
<1>1. ASSUME UNCHANGED <<entries, total, meta>> PROVE Counted'
  BY <1>1 DEF Counted, TotalIsSum
<1>2. ASSUME Remove PROVE Counted'
  BY <1>2, CountedWithout DEF Remove, Shaped, Held
<1>3. ASSUME NEW t \in Track, GetTouched(t) PROVE Counted'
  <2>1. t \in DOMAIN entries /\ entries' = [entries EXCEPT ![t].stamp = now]
        /\ UNCHANGED <<total, meta>>
    BY <1>3 DEF GetTouched
  <2>2. IsPartialFun(entries, Track, Entry) /\ now \in Nat
    BY DEF Shaped, TypeOK
  <2>3. DOMAIN entries' = DOMAIN entries /\ \A x \in DOMAIN entries : entries'[x].size = entries[x].size
    BY <2>1, <2>2, StampType
  <2>4. Bytes(entries') = Bytes(entries)
    BY <2>3, BytesSame
  <2> QED
    BY <2>1, <2>4 DEF Counted, TotalIsSum
<1>4. ASSUME EvictOldest PROVE Counted'
  BY <1>4, OldestEntry, CountedWithout DEF EvictOldest
<1>5. ASSUME Save PROVE Counted'
  BY <1>5 DEF Save, Counted, TotalIsSum
<1>6. ASSUME Clear PROVE Counted'
  <2>1. entries' = <<>> /\ total' = 0 /\ UNCHANGED meta
    BY <1>6 DEF Clear
  <2>2. Bytes(entries') = {}
    BY <2>1, EmptyMap, ByteOf
  <2> QED
    BY <2>1, <2>2, FS_EmptySet DEF Counted, TotalIsSum
<1>7. ASSUME Restart PROVE Counted'
  BY <1>7, ShapeRestart DEF Restart, Counted, TotalIsSum
<1>8. ASSUME NEW t \in Track, GetVanished(t) \/ GetRecent(t) \/ TrackPath(t)
      PROVE  UNCHANGED <<entries, total, meta>>
  BY <1>8 DEF GetVanished, GetRecent, TrackPath, memory
<1>9. ASSUME FetchFails \/ Rename \/ Measure \/ EvictDone \/ Tick
      PROVE  UNCHANGED <<entries, total, meta>>
  BY <1>9 DEF FetchFails, Rename, Measure, EvictDone, Tick, memory
<1>10. ASSUME NEW m \in Limits, SaveLimit(m) \/ SetMax(m) PROVE UNCHANGED <<entries, total, meta>>
  BY <1>10 DEF SaveLimit, SetMax, memory
<1>11. ASSUME NEW p \in Path, FileVanishes(p) PROVE UNCHANGED <<entries, total, meta>>
  BY <1>11 DEF FileVanishes, memory
<1>12. CASE UNCHANGED vars
  BY <1>1, <1>12 DEF vars, memory
<1> QED
  BY <1>1, <1>2, <1>3, <1>4, <1>5, <1>6, <1>7, <1>8, <1>9, <1>10, <1>11, <1>12, CountedPut
  DEF Next, Lookup, Fetch, Holder, Admin, Environment

-----------------------------------------------------------------------------
(* The eviction loop and the inductive invariant.                          *)

IInv == Shaped /\ Counted /\ WithinLimit

\* Every step keeps types and queue.
LEMMA ShapeStep ==
    ASSUME Shaped, Counted, [Next]_vars
    PROVE  Shaped'
<1>1. CASE UNCHANGED vars
  BY <1>1 DEF vars, memory, Shaped, TypeOK, OrderIsPermutation, Held
<1>2. CASE Restart
  BY <1>2, ShapeRestart DEF Counted
<1> QED
  BY <1>1, <1>2, ShapeLookup, ShapeRemove, ShapeFetch, ShapePut, ShapeEvict, ShapeQuiet, ShapeClear, ShapeVanish
  DEF Next, Lookup, Fetch, Holder, Admin, Environment

\* The total is right at the start.
LEMMA CountedInit == Init => Counted
<1> SUFFICES ASSUME Init PROVE Counted
  OBVIOUS
<1>1. Bytes(<<>>) = {}
  BY EmptyMap, ByteOf
<1>2. IsFiniteSet({}) /\ Cardinality({}) = 0
  BY FS_EmptySet
<1>3. entries = <<>> /\ meta = <<>> /\ total = 0
  BY DEF Init
<1> QED
  BY <1>1, <1>2, <1>3 DEF Counted, TotalIsSum

\* With an empty queue nothing is accounted for.
LEMMA EmptyQueue ==
    ASSUME Shaped, Counted, order = <<>>
    PROVE  total = 0
<1>1. DOMAIN entries = {}
  <2>1. Range(order) = {}
    BY DEF Range
  <2> QED
    BY <2>1, QueueOf
<1>2. Bytes(entries) = {}
  BY <1>1, ByteOf
<1>3. Cardinality({}) = 0
  BY FS_EmptySet
<1> QED
  BY <1>2, <1>3 DEF Counted, TotalIsSum

\* The eviction loop ends within the limit.
LEMMA TrimmedStep ==
    ASSUME Shaped, Counted, WithinLimit, [Next]_vars
    PROVE  WithinLimit'
<1> SUFFICES ASSUME lock' = "trimmed" PROVE total' <= max'
  BY DEF WithinLimit
<1>1. CASE lock = "trimmed"
  <2>1. UNCHANGED <<total, max>>
    BY <1>1 DEF Next, Lookup, Fetch, Holder, Admin, Environment, vars, memory, GetVanished,
       Remove, GetRecent, GetTouched, TrackPath, FetchFails, Rename, Measure, Put, EvictOldest,
       EvictDone, Save, SaveLimit, SetMax, Clear, Tick, FileVanishes, Restart
  <2> QED
    BY <1>1, <2>1 DEF WithinLimit
<1>2. CASE lock # "trimmed"
  <2>1. EvictDone
    BY <1>2 DEF Next, Lookup, Fetch, Holder, Admin, Environment, vars, memory, GetVanished,
       Remove, GetRecent, GetTouched, TrackPath, FetchFails, Rename, Measure, Put, EvictOldest,
       Save, SaveLimit, SetMax, Clear, Tick, FileVanishes, Restart
  <2>2. UNCHANGED <<total, max>> /\ (total <= max \/ order = <<>>)
    BY <2>1 DEF EvictDone
  <2>3. max \in Nat
    BY SizeAssumption DEF Shaped, TypeOK
  <2> QED
    BY <2>2, <2>3, EmptyQueue
<1> QED
  BY <1>1, <1>2

\* The invariant holds in every state that the cache can reach.
THEOREM InductiveInvariant == Spec => []IInv
<1>1. Init => IInv
  BY ShapeInit, CountedInit DEF IInv, WithinLimit, Init
<1>2. IInv /\ [Next]_vars => IInv'
  BY ShapeStep, CountedStep, TrimmedStep DEF IInv
<1> QED
  BY <1>1, <1>2, PTL DEF Spec

\* Every variable keeps its type.
THEOREM TypeCorrect == Spec => []TypeOK
<1>1. IInv => TypeOK
  BY DEF IInv, Shaped
<1> QED
  BY <1>1, InductiveInvariant, PTL

\* The eviction queue always lists exactly the cached tracks, each once.
THEOREM QueueIsPermutation == Spec => []OrderIsPermutation
<1>1. IInv => OrderIsPermutation
  BY DEF IInv, Shaped
<1> QED
  BY <1>1, InductiveInvariant, PTL

\* The running total never drifts from the sum of the entries, whatever sequence of
\* puts, replacements, evictions, clears, vanished files and reloads went before.
THEOREM TotalNeverDrifts == Spec => []TotalIsSum
<1>1. IInv => TotalIsSum
  BY DEF IInv, Counted
<1> QED
  BY <1>1, InductiveInvariant, PTL

\* The eviction loop ends within the limit, the emptied queue included.
THEOREM EvictionSuffices == Spec => []WithinLimit
<1>1. IInv => WithinLimit
  BY DEF IInv
<1> QED
  BY <1>1, InductiveInvariant, PTL

-----------------------------------------------------------------------------
(* What a restart finds.                                                   *)

\* Outside the mutex the entries are in the metadata, unless the last save failed.
Persisted ==
    saveOk /\ lock = "free" => \A t \in DOMAIN entries : t \in DOMAIN meta /\ meta[t] = entries[t]

\* Only a save and a restart give the mutex back, and who takes it is no longer outside.
LEMMA PersistedStep ==
    ASSUME Persisted, [Next]_vars
    PROVE  Persisted'
<1>1. CASE Save
  BY <1>1 DEF Save, Persisted
<1>2. CASE Restart
  <2>1. entries' = Restrict(meta, {t \in DOMAIN meta : meta[t].path \in DOMAIN files})
        /\ meta' = meta
    BY <1>2 DEF Restart
  <2> QED
    BY <2>1 DEF Persisted, Restrict
<1>3. CASE ~Save /\ ~Restart
  <2>1. lock' = "free" => lock = "free" /\ UNCHANGED <<entries, meta, saveOk>>
    BY <1>3 DEF Next, Lookup, Fetch, Holder, Admin, Environment, vars, memory, GetVanished,
       Remove, GetRecent, GetTouched, TrackPath, FetchFails, Rename, Measure, Put, EvictOldest,
       EvictDone, SaveLimit, SetMax, Clear, Tick, FileVanishes
  <2> QED
    BY <2>1 DEF Persisted
<1> QED
  BY <1>1, <1>2, <1>3

\* Restart is the only step that counts one.
LEMMA RestartCounts ==
    ASSUME TypeOK, [Next]_vars, restarts' # restarts
    PROVE  Restart
BY DEF Next, Lookup, Fetch, Holder, Admin, Environment, vars, memory, GetVanished, Remove,
   GetRecent, GetTouched, TrackPath, FetchFails, Rename, Measure, Put, EvictOldest, EvictDone,
   Save, SaveLimit, SetMax, Clear, Tick, FileVanishes

\* Whatever was cached outside the mutex, after a save that succeeded, is cached
\* again after a crash, if its file is still there.
THEOREM CrashLosesNothing == Spec => RestartKeeps
<1>1. Init => Persisted
  BY DEF Init, Persisted
<1>2. Persisted /\ [Next]_vars => Persisted'
  BY PersistedStep
<1>3. TypeOK /\ Persisted /\ [Next]_vars =>
          [restarts' # restarts /\ lock = "free" /\ saveOk =>
              \A t \in DOMAIN entries :
                 entries[t].path \in DOMAIN files =>
                    t \in DOMAIN entries' /\ entries'[t] = entries[t]]_vars
  <2> SUFFICES ASSUME TypeOK, Persisted, [Next]_vars, restarts' # restarts, lock = "free", saveOk,
                      NEW t \in DOMAIN entries, entries[t].path \in DOMAIN files
               PROVE  t \in DOMAIN entries' /\ entries'[t] = entries[t]
    OBVIOUS
  <2> DEFINE kept == {x \in DOMAIN meta : meta[x].path \in DOMAIN files}
  <2>1. entries' = Restrict(meta, kept)
    BY RestartCounts DEF Restart
  <2>2. t \in kept /\ meta[t] = entries[t]
    BY DEF Persisted
  <2> QED
    BY <2>1, <2>2 DEF Restrict
<1> QED
  BY <1>1, <1>2, <1>3, TypeCorrect, PTL DEF Spec, RestartKeeps

-----------------------------------------------------------------------------
(* The track that put adds.                                                *)

\* While the loop runs for a put, the track put is at the back of the queue; only
\* a put and the removal of a vanished entry have a subject.
FreshIsLast ==
    /\ lock \notin {"vanished", "evict"} => subject = NoTrack
    /\ lock = "evict" /\ subject \in DOMAIN entries => order[Len(order)] = subject

\* A track at the front and at the back of the queue is alone in it.
LEMMA AloneInQueue ==
    ASSUME Shaped, order # <<>>, Head(order) = order[Len(order)]
    PROVE  DOMAIN entries = {Head(order)}
<1>1. /\ Distinct(order) /\ Range(order) = DOMAIN entries /\ order \in Seq(Track)
      /\ Len(order) \in Nat \ {0} /\ Head(order) = order[1]
  BY QueueOf, HeadTailProperties, EmptySeq
<1>2. 1 \in 1..Len(order) /\ Len(order) \in 1..Len(order)
  BY <1>1
<1>3. order[1] = order[Len(order)]
  BY <1>1
<1>4. Len(order) = 1
  BY <1>1, <1>2, <1>3 DEF Distinct
<1>5. \A i \in 1..Len(order) : i = 1
  BY <1>4
<1>6. Range(order) = {order[i] : i \in 1..Len(order)}
  <2>1. order \in Seq(Track)
    BY <1>1
  <2> QED
    BY <2>1, RangeSeq, Zenon
<1>7. \A x : x \in Range(order) <=> x = order[1]
  BY <1>2, <1>5, <1>6
<1>8. Range(order) = {order[1]}
  BY <1>7
<1> QED
  BY <1>1, <1>8

\* Evictions at the front leave the back where it is.
LEMMA FreshStep ==
    ASSUME Shaped, FreshIsLast, [Next]_vars
    PROVE  FreshIsLast'
<1>1. CASE Put
  <2>1. order' = Requeue(order, dl.track) /\ subject' = dl.track /\ lock' = "evict"
    BY <1>1 DEF Put, Requeue
  <2>2. dl.track \in Track
    BY <1>1, DownloadField DEF Put, Shaped, TypeOK
  <2> QED
    BY <2>1, <2>2, RequeueQueue DEF FreshIsLast
<1>2. CASE EvictOldest
  <2>1. /\ lock = "evict" /\ order # <<>> /\ order' = Tail(order)
        /\ entries' = Without(entries, Head(order)) /\ UNCHANGED <<lock, subject>>
    BY <1>2 DEF EvictOldest
  <2>2. SUFFICES ASSUME subject \in DOMAIN entries' PROVE order'[Len(order')] = subject
    BY <2>1 DEF FreshIsLast
  <2>3. subject \in DOMAIN entries /\ subject # Head(order)
    BY <2>1, <2>2 DEF Without, Restrict
  <2>4. order[Len(order)] = subject
    BY <2>1, <2>3 DEF FreshIsLast
  <2>5. /\ order \in Seq(Track) /\ Head(order) = order[1] /\ Len(order) \in Nat \ {0}
        /\ Len(Tail(order)) = Len(order) - 1
        /\ \A i \in 1..Len(order) - 1 : Tail(order)[i] = order[i + 1]
    BY <2>1, QueueOf, HeadTailProperties, EmptySeq
  <2>6. Len(order) # 1
    BY <2>3, <2>4, <2>5
  <2>7. Len(order) - 1 \in 1..Len(order) - 1 /\ (Len(order) - 1) + 1 = Len(order)
    BY <2>5, <2>6
  <2> QED
    BY <2>1, <2>4, <2>5, <2>7
<1>3. CASE \E m \in Limits : SetMax(m)
  <2>1. lock = "free" /\ UNCHANGED <<subject, entries>>
    BY <1>3 DEF SetMax
  <2>2. subject' = NoTrack /\ entries' = entries
    BY <2>1 DEF FreshIsLast
  <2>3. NoTrack \notin DOMAIN entries
    BY TrackAssumption DEF Shaped, TypeOK, IsPartialFun
  <2>4. lock' = "evict"
    BY <1>3 DEF SetMax
  <2> QED
    BY <2>2, <2>3, <2>4 DEF FreshIsLast
<1>4. CASE ~Put /\ ~EvictOldest /\ ~(\E m \in Limits : SetMax(m))
  <2>1. \/ UNCHANGED <<lock, subject, entries, order>>
        \/ lock' \notin {"vanished", "evict"} /\ subject' = NoTrack
        \/ lock' \notin {"vanished", "evict"} /\ subject' = subject /\ lock \notin {"vanished", "evict"}
        \/ lock' = "vanished"
    BY <1>4 DEF Next, Lookup, Fetch, Holder, Admin, Environment, vars, memory, GetVanished,
       Remove, GetRecent, GetTouched, TrackPath, FetchFails, Rename, Measure, EvictDone, Save,
       SaveLimit, Clear, Tick, FileVanishes, Restart
  <2> QED
    BY <2>1 DEF FreshIsLast
<1> QED
  BY <1>1, <1>2, <1>3, <1>4

\* Within the loop only a round of it takes entries away.
LEMMA LoopStep ==
    ASSUME [Next]_vars, lock = "evict", lock' = "evict", entries' # entries
    PROVE  EvictOldest
BY DEF Next, Lookup, Fetch, Holder, Admin, Environment, vars, memory, GetVanished, Remove,
   GetRecent, GetTouched, TrackPath, FetchFails, Rename, Measure, Put, EvictDone, Save,
   SaveLimit, SetMax, Clear, Tick, FileVanishes, Restart

\* A put whose track is evicted by its own loop was larger than the limit by itself.
THEOREM FreshTrackSurvives == Spec => FreshSurvives
<1>1. Init => FreshIsLast
  BY DEF Init, FreshIsLast
<1>2. IInv /\ FreshIsLast /\ [Next]_vars => FreshIsLast'
  BY FreshStep DEF IInv
<1>3. IInv /\ FreshIsLast /\ [Next]_vars =>
          [lock = "evict" /\ lock' = "evict" /\ subject \in DOMAIN entries \ DOMAIN entries'
              => entries[subject].size > max]_vars
  <2> SUFFICES ASSUME IInv, FreshIsLast, [Next]_vars, lock = "evict", lock' = "evict",
                      subject \in DOMAIN entries \ DOMAIN entries'
               PROVE  entries[subject].size > max
    OBVIOUS
  <2>1. EvictOldest
    BY LoopStep
  <2>2. total > max /\ order # <<>> /\ entries' = Without(entries, Head(order))
    BY <2>1 DEF EvictOldest
  <2>3. subject = Head(order)
    BY <2>2 DEF Without, Restrict
  <2>4. DOMAIN entries = {subject}
    BY <2>2, <2>3, AloneInQueue DEF IInv, FreshIsLast
  <2>5. Bytes(Without(entries, subject)) = {}
    BY <2>4, ByteOf DEF Without, Restrict
  <2>6. /\ entries[subject].size \in Nat
        /\ Cardinality(Bytes(entries)) =
               Cardinality(Bytes(Without(entries, subject))) + entries[subject].size
    BY BytesWithout DEF IInv, Shaped, TypeOK, Counted
  <2>7. total = entries[subject].size
    BY <2>5, <2>6, FS_EmptySet DEF IInv, Counted, TotalIsSum
  <2> QED
    BY <2>2, <2>7
<1> QED
  BY <1>1, <1>2, <1>3, InductiveInvariant, PTL DEF Spec, FreshSurvives

-----------------------------------------------------------------------------
(* The order of eviction.                                                  *)

\* Stamps and uses are not of the future.
Aged ==
    /\ \A t \in DOMAIN entries : entries[t].stamp <= now /\ used[t] <= now
    /\ \A t \in DOMAIN meta : meta[t].stamp <= now
    /\ dl # NoDownload => dl.stamp <= now

\* The stamp of a track is no later than the last use of any track behind it.
StampsLead ==
    \A x, y \in DOMAIN entries :
        Before(order, x, y) => entries[x].stamp <= used[y] /\ used[x] < used[y] + Gate

Lru == Aged /\ StampsLead

\* What types say of the entries, by element.
LEMMA EntryField ==
    ASSUME Shaped, NEW t \in DOMAIN entries
    PROVE  t \in Track /\ entries[t] \in Entry /\ entries[t].stamp \in Nat /\ used[t] \in Nat
BY DEF Shaped, TypeOK, IsPartialFun, Entry

\* A track used now goes behind all the others.
LEMMA LruMove ==
    ASSUME Shaped, Lru, NEW t \in Track, order' = Requeue(order, t),
           DOMAIN entries' = DOMAIN entries \cup {t},
           entries'[t].stamp <= now, used'[t] = now,
           \A x \in DOMAIN entries : x # t => entries'[x] = entries[x] /\ used'[x] = used[x],
           UNCHANGED now
    PROVE  /\ StampsLead'
           /\ \A x \in DOMAIN entries' : entries'[x].stamp <= now' /\ used'[x] <= now'
<1>1. now \in Nat /\ Gate \in Nat \ {0}
  BY GateAssumption DEF Shaped, TypeOK
<1>2. \A x \in DOMAIN entries' : entries'[x].stamp <= now' /\ used'[x] <= now'
  BY <1>1 DEF Lru, Aged
<1>3. ASSUME NEW x \in DOMAIN entries', NEW y \in DOMAIN entries', Before(order', x, y)
      PROVE  entries'[x].stamp <= used'[y] /\ used'[x] < used'[y] + Gate
  <2>1. x # t
    <3>1. /\ order' \in Seq(Track) /\ Distinct(order') /\ order' # <<>>
          /\ order'[Len(order')] = t
      BY RequeueQueue
    <3>2. PICK i, j \in 1..Len(order') : i < j /\ order'[i] = x /\ order'[j] = y
      BY <1>3 DEF Before
    <3>3. Len(order') \in 1..Len(order') /\ i # Len(order')
      BY <3>1, <3>2
    <3> QED
      BY <3>1, <3>2, <3>3 DEF Distinct
  <2>2. x \in DOMAIN entries /\ entries'[x] = entries[x] /\ used'[x] = used[x]
    BY <2>1
  <2>3. entries[x].stamp \in Nat /\ used[x] \in Nat /\ entries[x].stamp <= now /\ used[x] <= now
    BY <2>2, EntryField DEF Lru, Aged
  <2>4. CASE y = t
    BY <1>1, <2>2, <2>3, <2>4
  <2>5. CASE y # t
    <3>1. y \in DOMAIN entries /\ used'[y] = used[y]
      BY <2>5
    <3>2. Before(order, x, y)
      BY <1>3, <2>5, RequeueQueue
    <3> QED
      BY <2>2, <3>1, <3>2 DEF Lru, StampsLead
  <2> QED
    BY <2>4, <2>5
<1> QED
  BY <1>2, <1>3 DEF StampsLead

\* A track gone, the others keep their order.
LEMMA LruDrop ==
    ASSUME Shaped, Lru, NEW t, entries' = Without(entries, t), used' = Without(used, t),
           \A x, y : Before(order', x, y) => Before(order, x, y),
           UNCHANGED <<meta, dl, now>>
    PROVE  Lru'
<1>1. /\ DOMAIN entries' = DOMAIN entries \ {t}
      /\ \A x \in DOMAIN entries' : entries'[x] = entries[x]
  BY DEF Without, Restrict
<1>2. \A x \in DOMAIN entries' : used'[x] = used[x]
  BY <1>1 DEF Without, Restrict, Shaped, TypeOK
<1> QED
  BY <1>1, <1>2 DEF Lru, Aged, StampsLead

\* Looking a track up.
LEMMA LruLookup ==
    ASSUME Shaped, Lru, NEW t \in Track, GetRecent(t) \/ GetTouched(t)
    PROVE  Lru'
<1>1. now \in Nat /\ Gate \in Nat \ {0} /\ used \in [DOMAIN entries -> Nat]
  BY GateAssumption DEF Shaped, TypeOK
<1>2. CASE GetRecent(t)
  <2>1. /\ t \in DOMAIN entries /\ now - entries[t].stamp < Gate
        /\ used' = [used EXCEPT ![t] = now]
        /\ UNCHANGED <<entries, order, meta, dl, now>>
    BY <1>2 DEF GetRecent, Recent, memory
  <2>2. used'[t] = now /\ \A x \in DOMAIN entries : x # t => used'[x] = used[x]
    BY <1>1, <2>1
  <2>3. Aged'
    BY <1>1, <2>1, <2>2 DEF Lru, Aged
  <2>4. ASSUME NEW x \in DOMAIN entries, NEW y \in DOMAIN entries, Before(order, x, y)
        PROVE  entries[x].stamp <= used'[y] /\ used'[x] < used'[y] + Gate
    <3>1. /\ entries[x].stamp <= used[y] /\ used[x] < used[y] + Gate
          /\ entries[x].stamp <= now /\ used[x] <= now /\ used[y] <= now
      BY <2>4 DEF Lru, StampsLead, Aged
    <3>2. entries[x].stamp \in Nat /\ used[x] \in Nat /\ used[y] \in Nat
      BY EntryField
    <3>3. CASE y = t
      <4>1. used'[y] = now /\ (used'[x] = now \/ used'[x] = used[x])
        BY <2>2, <3>3
      <4> QED
        BY <1>1, <3>1, <3>2, <4>1
    <3>4. CASE y # t /\ x = t
      <4>1. used'[y] = used[y] /\ used'[x] = now /\ now - entries[x].stamp < Gate
        BY <2>1, <2>2, <3>4
      <4> QED
        BY <1>1, <3>1, <3>2, <4>1
    <3>5. CASE y # t /\ x # t
      BY <2>2, <3>1, <3>5
    <3> QED
      BY <3>3, <3>4, <3>5
  <2> QED
    BY <2>1, <2>3, <2>4 DEF Lru, StampsLead
<1>3. CASE GetTouched(t)
  <2>1. /\ t \in DOMAIN entries /\ entries' = [entries EXCEPT ![t].stamp = now]
        /\ order' = Requeue(order, t) /\ used' = [used EXCEPT ![t] = now]
        /\ UNCHANGED <<meta, dl, now>>
    BY <1>3 DEF GetTouched, Requeue
  <2>2. IsPartialFun(entries, Track, Entry)
    BY DEF Shaped, TypeOK
  <2>3. /\ DOMAIN entries' = DOMAIN entries /\ entries'[t].stamp = now
        /\ \A x \in DOMAIN entries : x # t => entries'[x] = entries[x]
    <3>1. now \in Nat /\ t \in DOMAIN entries /\ entries' = [entries EXCEPT ![t].stamp = now]
      BY <1>1, <2>1
    <3> QED
      BY <2>2, <3>1, StampType
  <2>4. used'[t] = now /\ \A x \in DOMAIN entries : x # t => used'[x] = used[x]
    BY <1>1, <2>1
  <2>5. DOMAIN entries' = DOMAIN entries \cup {t} /\ entries'[t].stamp <= now
    BY <1>1, <2>1, <2>3
  <2>6. /\ StampsLead'
        /\ \A x \in DOMAIN entries' : entries'[x].stamp <= now' /\ used'[x] <= now'
    BY <2>1, <2>3, <2>4, <2>5, LruMove
  <2> QED
    BY <2>1, <2>6 DEF Lru, Aged
<1> QED
  BY <1>2, <1>3

\* A put.
LEMMA LruPut ==
    ASSUME Shaped, Lru, Put
    PROVE  Lru'
<1> DEFINE t == dl.track
           y == [stamp |-> dl.stamp, path |-> dl.path, size |-> dl.size]
<1>1. dl \in Download /\ dl # NoDownload
  BY DEF Shaped, TypeOK, Put
<1>2. t \in Track /\ y.stamp <= now
  BY <1>1, DownloadField DEF Lru, Aged
<1>3. /\ entries' = With(entries, t, y) /\ order' = Requeue(order, t)
      /\ used' = With(used, t, now) /\ dl' = NoDownload /\ UNCHANGED <<meta, now>>
  BY DEF Put, Requeue
<1> HIDE DEF t, y
<1>4. /\ DOMAIN entries' = DOMAIN entries \cup {t} /\ entries'[t] = y
      /\ \A x \in DOMAIN entries : x # t => entries'[x] = entries[x]
  BY <1>3 DEF With
<1>5. used'[t] = now /\ \A x \in DOMAIN entries : x # t => used'[x] = used[x]
  BY <1>3 DEF With, Shaped, TypeOK
<1>6. /\ StampsLead'
      /\ \A x \in DOMAIN entries' : entries'[x].stamp <= now' /\ used'[x] <= now'
  BY <1>2, <1>3, <1>4, <1>5, LruMove
<1> QED
  BY <1>3, <1>6 DEF Lru, Aged

\* A restart lines the tracks up by their stamps, which count as their last uses.
LEMMA LruRestart ==
    ASSUME Shaped, Lru, Restart
    PROVE  Lru'
<1> DEFINE kept == {t \in DOMAIN meta : meta[t].path \in DOMAIN files}
<1>1. /\ entries' = Restrict(meta, kept) /\ order' \in LoadOrders(meta, kept)
      /\ used' = [t \in kept |-> meta[t].stamp] /\ dl' = NoDownload /\ UNCHANGED <<meta, now>>
  BY DEF Restart
<1>2. kept \subseteq DOMAIN meta /\ kept \subseteq Track
      /\ \A t \in kept : meta[t].stamp \in Nat
  BY DEF Shaped, TypeOK, IsPartialFun, Entry
<1> HIDE DEF kept
<1>3. /\ DOMAIN entries' = kept
      /\ \A t \in kept : entries'[t] = meta[t] /\ used'[t] = meta[t].stamp
  BY <1>1 DEF Restrict
<1>4. \A x, y : Before(order', x, y) => meta[x].stamp <= meta[y].stamp
  BY <1>1, <1>2, LoadQueue
<1>5. Aged'
  BY <1>1, <1>2, <1>3 DEF Lru, Aged
<1>6. ASSUME NEW x \in kept, NEW y \in kept, Before(order', x, y)
      PROVE  entries'[x].stamp <= used'[y] /\ used'[x] < used'[y] + Gate
  <2>1. meta[x].stamp <= meta[y].stamp /\ meta[x].stamp \in Nat /\ meta[y].stamp \in Nat
    BY <1>2, <1>4, <1>6
  <2>2. Gate \in Nat \ {0}
    BY GateAssumption
  <2> QED
    BY <1>3, <2>1, <2>2
<1> QED
  BY <1>3, <1>5, <1>6 DEF Lru, StampsLead

\* Every step keeps the order of eviction.
LEMMA LruStep ==
    ASSUME Shaped, Lru, [Next]_vars
    PROVE  Lru'
<1>1. ASSUME NEW t \in Track, GetRecent(t) \/ GetTouched(t) PROVE Lru'
  BY <1>1, LruLookup
<1>2. CASE Remove
  <2>1. /\ entries' = Without(entries, subject) /\ used' = Without(used, subject)
        /\ order' = Retain(order, subject) /\ UNCHANGED <<meta, dl, now>>
    BY <1>2 DEF Remove
  <2>2. \A x, y : Before(order', x, y) => Before(order, x, y)
    BY <2>1, QueueOf, RetainQueue
  <2> QED
    BY <2>1, <2>2, LruDrop
<1>3. CASE EvictOldest
  <2>1. /\ entries' = Without(entries, Head(order)) /\ used' = Without(used, Head(order))
        /\ order' = Tail(order) /\ order # <<>> /\ UNCHANGED <<meta, dl, now>>
    BY <1>3 DEF EvictOldest
  <2>2. \A x, y : Before(order', x, y) => Before(order, x, y)
    BY <2>1, QueueOf, TailQueue
  <2> QED
    BY <2>1, <2>2, LruDrop
<1>4. CASE Clear
  BY <1>4 DEF Clear, Lru, Aged, StampsLead
<1>5. CASE Tick
  <2>1. now' = now + 1 /\ UNCHANGED <<entries, used, meta, dl, order>>
    BY <1>5 DEF Tick, memory
  <2>2. now \in Nat /\ \A n \in Nat : n <= now => n <= now + 1
    BY DEF Shaped, TypeOK
  <2>3. \A t \in DOMAIN meta : meta[t].stamp \in Nat
    BY DEF Shaped, TypeOK, IsPartialFun, Entry
  <2>4. dl # NoDownload => dl.stamp \in Nat
    BY DownloadField DEF Shaped, TypeOK
  <2>5. Aged'
    <3>1. \A t \in DOMAIN entries' : entries'[t].stamp <= now' /\ used'[t] <= now'
      BY <2>1, <2>2, EntryField DEF Lru, Aged
    <3>2. \A t \in DOMAIN meta' : meta'[t].stamp <= now'
      BY <2>1, <2>2, <2>3 DEF Lru, Aged
    <3>3. dl' # NoDownload => dl'.stamp <= now'
      BY <2>1, <2>2, <2>4 DEF Lru, Aged
    <3> QED
      BY <3>1, <3>2, <3>3 DEF Aged
  <2> QED
    BY <2>1, <2>5 DEF Lru, StampsLead
<1>6. CASE Save
  BY <1>6 DEF Save, Lru, Aged, StampsLead
<1>7. ASSUME NEW t \in Track, TrackPath(t) PROVE Lru'
  <2>1. dl'.stamp = 0 /\ UNCHANGED <<entries, used, meta, order, now>>
    BY <1>7 DEF TrackPath, memory
  <2>2. 0 <= now
    BY DEF Shaped, TypeOK
  <2> QED
    BY <2>1, <2>2 DEF Lru, Aged, StampsLead
<1>8. CASE Rename \/ Measure
  <2>1. dl \in Download /\ dl # NoDownload
    BY <1>8 DEF Rename, Measure, Shaped, TypeOK
  <2>2. dl'.stamp = dl.stamp \/ dl'.stamp = now
    BY <1>8, <2>1 DEF Rename, Measure, Download
  <2>3. UNCHANGED <<entries, used, meta, order, now>> /\ now \in Nat
    BY <1>8 DEF Rename, Measure, memory, Shaped, TypeOK
  <2> QED
    BY <2>1, <2>2, <2>3 DEF Lru, Aged, StampsLead
<1>9. CASE FetchFails
  BY <1>9 DEF FetchFails, memory, Lru, Aged, StampsLead
<1>10. ASSUME UNCHANGED <<entries, used, meta, order, now, dl>> PROVE Lru'
  BY <1>10 DEF Lru, Aged, StampsLead
<1>11. ASSUME \/ EvictDone \/ UNCHANGED vars
              \/ \E t \in Track : GetVanished(t)
              \/ \E m \in Limits : SaveLimit(m) \/ SetMax(m)
              \/ \E p \in Path : FileVanishes(p)
       PROVE  UNCHANGED <<entries, used, meta, order, now, dl>>
  BY <1>11 DEF EvictDone, vars, memory, GetVanished, SaveLimit, SetMax, FileVanishes
<1> QED
  BY <1>1, <1>2, <1>3, <1>4, <1>5, <1>6, <1>7, <1>8, <1>9, <1>10, <1>11, LruPut, LruRestart
  DEF Next, Lookup, Fetch, Holder, Admin, Environment

\* Eviction takes the track used longest ago, to within the gate.
THEOREM EvictionIsLru == Spec => []LruWithinGate
<1>1. Init => Lru
  <2> SUFFICES ASSUME Init PROVE Lru
    OBVIOUS
  <2>1. DOMAIN entries = {} /\ DOMAIN meta = {} /\ dl = NoDownload
    BY EmptyMap DEF Init
  <2> QED
    BY <2>1 DEF Lru, Aged, StampsLead
<1>2. IInv /\ Lru /\ [Next]_vars => Lru'
  BY LruStep DEF IInv
<1>3. IInv /\ Lru => LruWithinGate
  <2> SUFFICES ASSUME IInv, Lru, NEW i \in 1..Len(order), NEW j \in 1..Len(order), i < j
               PROVE  used[order[i]] < used[order[j]] + Gate
    BY DEF LruWithinGate
  <2>1. Before(order, order[i], order[j])
    BY DEF Before
  <2>2. order[i] \in DOMAIN entries /\ order[j] \in DOMAIN entries
    BY QueueOf, RangeSeq DEF IInv
  <2> QED
    BY <2>1, <2>2 DEF Lru, StampsLead
<1> QED
  BY <1>1, <1>2, <1>3, InductiveInvariant, PTL DEF Spec
=============================================================================
