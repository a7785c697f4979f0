------------------------ MODULE LoRAUpdateProofs ---------------------------
(* What the operators of LoRARegistry compute, for every set of adapters   *)
(* and requests, and the invariant of loads and unloads: lookups only      *)
(* reorder the registry, one task at a time changes it, the registry       *)
(* offers what the backend has, and an eviction always finds a victim, so  *)
(* the limit on loaded adapters holds.  What is used of finite sets and of *)
(* induction is collected in Facts, FullHasUnpinned and RangesAreFinite.   *)
(* They are hypotheses of the lemmas and are proved in LoRARegistryProofs, *)
(* where the theorems are.                                                 *)
EXTENDS LoRARegistry, TLAPS

(* What the proofs need to know of finite sets and of induction.           *)
Facts ==
  /\ \A S : IsFiniteSet(S) =>
       /\ Cardinality(S) \in Nat /\ (Cardinality(S) = 0 <=> S = {})
       /\ \A T : T \subseteq S => IsFiniteSet(T)
       /\ \A t : /\ IsFiniteSet(S \cup {t}) /\ IsFiniteSet(S \ {t})
                 /\ t \notin S => Cardinality(S \cup {t}) = Cardinality(S) + 1
                 /\ t \in S => Cardinality(S \ {t}) = Cardinality(S) - 1
  /\ IsFiniteSet({}) /\ \A n \in Nat : IsFiniteSet(1 .. n)
  /\ \A n \in Nat : \A Good \in SUBSET (0 .. n) :
       0 \in Good /\ (\A k \in 1 .. n : k - 1 \in Good => k \in Good) => n \in Good

(* A finite set, its size and its subsets.                                 *)
LEMMA Finite ==
  ASSUME Facts, NEW S, IsFiniteSet(S)
  PROVE  /\ Cardinality(S) \in Nat /\ (Cardinality(S) = 0 <=> S = {})
         /\ \A T : T \subseteq S => IsFiniteSet(T)
  BY DEF Facts

(* Induction over 0 .. n.                                                  *)
LEMMA Induction ==
  ASSUME Facts, NEW n \in Nat, NEW Good \in SUBSET (0 .. n), 0 \in Good,
         \A k \in 1 .. n : k - 1 \in Good => k \in Good
  PROVE  n \in Good
  BY Zenon DEF Facts

(* Adding an element to a count or taking it off.                          *)
LEMMA CountChanged ==
  ASSUME Facts, NEW S, IsFiniteSet(S), NEW t
  PROVE  /\ t \notin S => /\ IsFiniteSet(S \cup {t})
                          /\ Cardinality(S \cup {t}) = Cardinality(S) + 1
         /\ t \in S => /\ IsFiniteSet(S \ {t})
                       /\ Cardinality(S \ {t}) = Cardinality(S) - 1
         /\ t \in S => S \cup {t} = S
         /\ t \notin S => S \ {t} = S
<1>1. /\ IsFiniteSet(S \cup {t}) /\ IsFiniteSet(S \ {t})
      /\ t \notin S => Cardinality(S \cup {t}) = Cardinality(S) + 1
      /\ t \in S => Cardinality(S \ {t}) = Cardinality(S) - 1
  BY Zenon DEF Facts
<1> QED
  BY <1>1

----------------------------------------------------------------------------
(* The operators of the registry.                                          *)

UniqueNames(reg) == \A i, j \in 1 .. Len(reg) : reg[i].name = reg[j].name => i = j

(* A value that _registry can have.                                        *)
Sound(reg) == reg \in Seq(LoRARef) /\ UniqueNames(reg)

(* The registry new is reg in another order.                               *)
Reordered(reg, new) == Sound(new) /\ Len(new) = Len(reg) /\ Range(new) = Range(reg)

(* An adapter of a full registry is not pinned.                            *)
FullHasUnpinned ==
  \A reg : Sound(reg) /\ Len(reg) >= MaxLoaded =>
            \E i \in 1 .. MaxLoaded : reg[i].name \notin Pinned

(* A sequence has finitely many elements.                                  *)
RangesAreFinite == \A S : \A s \in Seq(S) : IsFiniteSet(Range(s))

(* The elements of a sequence are finitely many.                           *)
LEMMA RangeIs ==
  ASSUME RangesAreFinite, NEW S, NEW s \in Seq(S)
  PROVE  IsFiniteSet(Range(s)) /\ Range(s) \subseteq S
  BY DEF RangesAreFinite, Range

(* Elements by their position.                                             *)
LEMMA Elements ==
  ASSUME NEW S, NEW reg \in Seq(S)
  PROVE  /\ Len(reg) \in Nat /\ DOMAIN reg = 1 .. Len(reg)
         /\ \A i \in 1 .. Len(reg) : reg[i] \in S /\ reg[i] \in Range(reg)
         /\ \A r \in Range(reg) : r \in S /\ \E i \in 1 .. Len(reg) : r = reg[i]
  BY DEF Range

(* A name that is registered has a position.                               *)
LEMMA RegisteredAt ==
  ASSUME NEW reg, Sound(reg), NEW n
  PROVE  Registered(reg, n) <=> \E i \in 1 .. Len(reg) : reg[i].name = n
<1>1. reg \in Seq(LoRARef)
  BY DEF Sound
<1> QED
  BY <1>1, Elements DEF Registered, NamesOf

(* An adapter that is registered has one position.                         *)
LEMMA PositionIs ==
  ASSUME NEW reg, Sound(reg), NEW n, Registered(reg, n)
  PROVE  /\ Position(reg, n) \in 1 .. Len(reg)
         /\ reg[Position(reg, n)].name = n
         /\ \A i \in 1 .. Len(reg) : reg[i].name = n => i = Position(reg, n)
<1>1. DOMAIN reg = 1 .. Len(reg)
  BY Elements DEF Sound
<1>2. \E i \in DOMAIN reg : reg[i].name = n
  BY <1>1, RegisteredAt
<1>3. Position(reg, n) \in DOMAIN reg /\ reg[Position(reg, n)].name = n
  BY <1>2, Zenon DEF Position
<1> QED
  BY <1>1, <1>3 DEF Sound, UniqueNames

(* The id of a registered adapter is that of the one reference with its    *)
(* name.                                                                   *)
LEMMA IdIs ==
  ASSUME NEW reg, Sound(reg), NEW n, Registered(reg, n)
  PROVE  \E r \in Range(reg) :
           /\ r \in LoRARef /\ r.name = n /\ r.id = IdOf(reg, n)
           /\ \A s \in Range(reg) : s.name = n => s = r
<1> DEFINE r == reg[Position(reg, n)]
<1>1. r \in Range(reg) /\ r \in LoRARef /\ r.name = n
  BY PositionIs, Elements DEF Sound
<1>2. ASSUME NEW s \in Range(reg), s.name = n PROVE s = r
  BY <1>2, PositionIs, Elements DEF Sound
<1> QED
  BY <1>1, <1>2 DEF IdOf

(* unregister takes one reference away.                                    *)
LEMMA WithoutIs ==
  ASSUME NEW reg, Sound(reg), NEW n, Registered(reg, n)
  PROVE  /\ Sound(Without(reg, n)) /\ Len(Without(reg, n)) = Len(reg) - 1
         /\ Range(Without(reg, n)) = {r \in Range(reg) : r.name # n}
<1> DEFINE p == Position(reg, n)
           w == Without(reg, n)
           At(i) == IF i < p THEN i ELSE i + 1
<1>1. /\ p \in 1 .. Len(reg) /\ reg[p].name = n /\ Len(reg) \in Nat
      /\ \A i \in 1 .. Len(reg) : reg[i].name = n => i = p
      /\ \A i \in 1 .. Len(reg) : reg[i] \in LoRARef /\ reg[i] \in Range(reg)
  BY PositionIs, Elements DEF Sound
<1>2. \A i \in 1 .. Len(reg) - 1 : At(i) \in 1 .. Len(reg) /\ At(i) # p
  BY <1>1
<1>3. w = [i \in 1 .. Len(reg) - 1 |-> reg[At(i)]]
  BY <1>1 DEF Without
<1>4. /\ w \in Seq(LoRARef) /\ Len(w) = Len(reg) - 1 /\ DOMAIN w = 1 .. Len(reg) - 1
      /\ \A i \in 1 .. Len(w) : w[i] = reg[At(i)]
  <2>1. \A i \in 1 .. Len(reg) - 1 : reg[At(i)] \in LoRARef
    <3> HIDE DEF p, At
    <3> QED
      BY <1>1, <1>2
  <2>2. w \in [1 .. Len(reg) - 1 -> LoRARef]
    <3> HIDE DEF p, w, At
    <3> QED
      BY <1>3, <2>1
  <2>3. Len(reg) - 1 \in Nat
    BY <1>1
  <2>4. w \in Seq(LoRARef) /\ Len(w) = Len(reg) - 1 /\ DOMAIN w = 1 .. Len(reg) - 1
    <3> HIDE DEF p, w
    <3> QED
      BY <2>2, <2>3
  <2> HIDE DEF p, w, At
  <2> QED
    BY <1>3, <2>4
<1>5. UniqueNames(w)
  <2> SUFFICES ASSUME NEW i \in 1 .. Len(w), NEW j \in 1 .. Len(w), w[i].name = w[j].name
               PROVE  i = j
    BY DEF UniqueNames
  <2>1. At(i) = At(j)
    <3> HIDE DEF p, w, At
    <3> QED
      BY <1>2, <1>4, Zenon DEF Sound, UniqueNames
  <2> HIDE DEF w
  <2> QED
    BY <1>1, <1>4, <2>1
<1>6. ASSUME NEW r \in Range(w) PROVE r \in Range(reg) /\ r.name # n
  <2>1. PICK i \in 1 .. Len(w) : r = w[i]
    BY <1>4, Elements
  <2> HIDE DEF p, w, At
  <2> QED
    BY <1>1, <1>2, <1>4, <2>1
<1>7. ASSUME NEW r \in Range(reg), r.name # n PROVE r \in Range(w)
  <2>1. PICK i \in 1 .. Len(reg) : r = reg[i]
    BY Elements DEF Sound
  <2>2. i # p
    BY <1>1, <1>7, <2>1
  <2>3. \E j \in 1 .. Len(w) : At(j) = i
    <3>1. CASE i < p
      <4>1. i \in 1 .. Len(w) /\ At(i) = i
        <5> HIDE DEF p, w
        <5> QED
          BY <1>1, <1>4, <3>1
      <4> QED
        BY <4>1
    <3>2. CASE i > p
      <4>1. i - 1 \in 1 .. Len(w) /\ At(i - 1) = i
        <5> HIDE DEF p, w
        <5> QED
          BY <1>1, <1>4, <3>2
      <4> QED
        BY <4>1
    <3> HIDE DEF p
    <3> QED
      BY <1>1, <2>2, <3>1, <3>2
  <2> HIDE DEF p, w, At
  <2> QED
    BY <1>4, <2>1, <2>3, Zenon DEF Range
<1> HIDE DEF w
<1> QED
  BY <1>4, <1>5, <1>6, <1>7 DEF Sound, w

(* register adds one reference, of a name that is not registered.          *)
LEMMA AppendIs ==
  ASSUME NEW reg, Sound(reg), NEW ref \in LoRARef, ~ Registered(reg, ref.name)
  PROVE  /\ Sound(Append(reg, ref)) /\ Len(Append(reg, ref)) = Len(reg) + 1
         /\ Range(Append(reg, ref)) = Range(reg) \cup {ref}
<1> DEFINE a == Append(reg, ref)
<1>1. /\ reg \in Seq(LoRARef) /\ Len(reg) \in Nat /\ DOMAIN reg = 1 .. Len(reg)
      /\ a \in Seq(LoRARef) /\ Len(a) = Len(reg) + 1 /\ DOMAIN a = 1 .. Len(a)
      /\ \A i \in 1 .. Len(reg) : a[i] = reg[i]
      /\ a[Len(a)] = ref
  BY DEF Sound
<1>2. \A i \in 1 .. Len(reg) : reg[i].name # ref.name
  BY RegisteredAt
<1> HIDE DEF a
<1>3. UniqueNames(a)
  BY <1>1, <1>2 DEF Sound, UniqueNames
<1>4. Range(a) = Range(reg) \cup {ref}
  <2>1. \A r \in Range(a) : r \in Range(reg) \cup {ref}
    BY <1>1 DEF Range
  <2>2. \A r \in Range(reg) : r \in Range(a)
    BY <1>1 DEF Range
  <2>3. ref \in Range(a)
    BY <1>1 DEF Range
  <2> QED
    BY <2>1, <2>2, <2>3
<1> QED
  BY <1>1, <1>3, <1>4 DEF Sound, a

(* move_to_end changes the order only.                                     *)
LEMMA MoveToEndReorders ==
  ASSUME NEW reg, Sound(reg), NEW n
  PROVE  Reordered(reg, MoveToEnd(reg, n))
<1>1. CASE ~ Registered(reg, n)
  BY <1>1 DEF MoveToEnd, Reordered
<1>2. CASE Registered(reg, n)
  <2> DEFINE w == Without(reg, n)
             r == reg[Position(reg, n)]
  <2>1. MoveToEnd(reg, n) = Append(w, r)
    BY <1>2 DEF MoveToEnd
  <2>2. r \in LoRARef /\ r \in Range(reg) /\ r.name = n
    BY <1>2, PositionIs, Elements DEF Sound
  <2>3. Sound(w) /\ Len(w) = Len(reg) - 1 /\ Range(w) = {s \in Range(reg) : s.name # n}
    BY <1>2, WithoutIs
  <2>4. \A s \in Range(reg) : s.name = n => s = r
    BY <1>2, PositionIs, Elements DEF Sound
  <2>5. Len(reg) \in Nat
    BY Elements DEF Sound
  <2> HIDE DEF w, r
  <2>6. ~ Registered(w, r.name)
    BY <2>2, <2>3 DEF Registered, NamesOf
  <2>7. /\ Sound(Append(w, r)) /\ Len(Append(w, r)) = Len(w) + 1
        /\ Range(Append(w, r)) = Range(w) \cup {r}
    BY <2>2, <2>3, <2>6, AppendIs
  <2>8. Range(w) \cup {r} = Range(reg)
    BY <2>2, <2>3, <2>4
  <2> QED
    BY <2>1, <2>3, <2>5, <2>7, <2>8 DEF Reordered
<1> QED
  BY <1>1, <1>2

(* So does a sequence of lookups.                                          *)
LEMMA TouchReorders ==
  ASSUME Facts, NEW reg, Sound(reg), NEW names, Len(names) \in Nat
  PROVE  Reordered(reg, Touch(reg, names))
<1> DEFINE n == Len(names)
           Regs == {new \in Seq(LoRARef) : Reordered(reg, new)}
           Has(m) == \E g \in [0 .. m -> Regs] :
                       g[0] = reg /\ \A k \in 1 .. m : g[k] = MoveToEnd(g[k-1], names[k])
           Turn(g) == [k \in 0 .. n |-> IF k = 0 THEN reg ELSE MoveToEnd(g[k-1], names[k])]
           after == CHOOSE g : g = Turn(g)
<1>1. reg \in Regs
  BY DEF Sound, Reordered
<1>2. \A new \in Regs : \A k : MoveToEnd(new, names[k]) \in Regs
  <2> SUFFICES ASSUME NEW new \in Regs, NEW k PROVE MoveToEnd(new, names[k]) \in Regs
    OBVIOUS
  <2>1. Sound(new) /\ Reordered(new, MoveToEnd(new, names[k]))
    BY MoveToEndReorders DEF Reordered
  <2> QED
    BY <2>1 DEF Reordered, Sound
<1> HIDE DEF Regs
<1>3. Has(n)
  <2> DEFINE Good == {m \in 0 .. n : Has(m)}
  <2>1. 0 \in Good
    <3> DEFINE z == [k \in 0 .. 0 |-> reg]
    <3>1. z \in [0 .. 0 -> Regs] /\ z[0] = reg
          /\ \A k \in 1 .. 0 : z[k] = MoveToEnd(z[k-1], names[k])
      BY <1>1
    <3> HIDE DEF z
    <3> QED
      BY <3>1
  <2>2. ASSUME NEW m \in 1 .. n, m - 1 \in Good PROVE m \in Good
    <3>1. PICK g \in [0 .. m - 1 -> Regs] :
            g[0] = reg /\ \A k \in 1 .. m - 1 : g[k] = MoveToEnd(g[k-1], names[k])
      BY <2>2
    <3> DEFINE last == MoveToEnd(g[m-1], names[m])
               h == [k \in 0 .. m |-> IF k = m THEN last ELSE g[k]]
    <3>2. last \in Regs
      <4>1. g[m-1] \in Regs
        BY <3>1
      <4> QED
        BY <1>2, <4>1
    <3>3. h \in [0 .. m -> Regs] /\ h[0] = reg
      <4> HIDE DEF last
      <4> QED
        BY <3>1, <3>2
    <3>4. ASSUME NEW k \in 1 .. m PROVE h[k] = MoveToEnd(h[k-1], names[k])
      <4>1. CASE k = m
        <5>1. h[m-1] = g[m-1] /\ h[m] = last
          <6> HIDE DEF last
          <6> QED
            OBVIOUS
        <5> HIDE DEF h
        <5> QED
          BY <4>1, <5>1
      <4>2. CASE k # m
        <5>1. k \in 1 .. m - 1 /\ k - 1 \in 0 .. m - 1 /\ k - 1 # m
          BY <4>2
        <5>2. h[k] = g[k] /\ h[k-1] = g[k-1]
          <6> HIDE DEF last
          <6> QED
            BY <4>2, <5>1
        <5> HIDE DEF h
        <5> QED
          BY <3>1, <5>1, <5>2
      <4> QED
        BY <4>1, <4>2
    <3> HIDE DEF h
    <3>5. Has(m)
      BY <3>3, <3>4
    <3> QED
      BY <3>5
  <2> HIDE DEF Has
  <2>3. Good \in SUBSET (0 .. n)
    OBVIOUS
  <2> HIDE DEF Good, n
  <2>4. n \in Good
    BY <2>1, <2>2, <2>3, Induction DEF n
  <2> QED
    BY <2>4 DEF Good
<1>4. \E g : g = Turn(g)
  <2>1. PICK g \in [0 .. n -> Regs] :
          g[0] = reg /\ \A k \in 1 .. n : g[k] = MoveToEnd(g[k-1], names[k])
    BY <1>3
  <2>2. \A k \in 0 .. n : Turn(g)[k] = g[k]
    <3> SUFFICES ASSUME NEW k \in 0 .. n PROVE Turn(g)[k] = g[k]
      OBVIOUS
    <3>1. CASE k = 0
      BY <2>1, <3>1
    <3>2. CASE k \in 1 .. n
      BY <2>1, <3>2
    <3> QED
      BY <3>1, <3>2
  <2>3. g = [k \in 0 .. n |-> g[k]]
    BY <2>1
  <2>4. Turn(g) = [k \in 0 .. n |-> Turn(g)[k]]
    OBVIOUS
  <2> HIDE DEF Turn
  <2> QED
    BY <2>2, <2>3, <2>4
<1>5. after = Turn(after)
  <2> HIDE DEF Turn
  <2> QED
    BY <1>4, Zenon
<1> HIDE DEF after
<1>6. after[0] = reg /\ \A k \in 1 .. n : after[k] = MoveToEnd(after[k-1], names[k])
  BY <1>5
<1>7. after[n] \in Regs
  <2> DEFINE Good == {k \in 0 .. n : after[k] \in Regs}
  <2>1. 0 \in Good
    BY <1>1, <1>6
  <2>2. ASSUME NEW k \in 1 .. n, k - 1 \in Good PROVE k \in Good
    BY <1>2, <1>6, <2>2
  <2>3. Good \in SUBSET (0 .. n)
    OBVIOUS
  <2> HIDE DEF Good, n
  <2>4. n \in Good
    BY <2>1, <2>2, <2>3, Induction DEF n
  <2> QED
    BY <2>4 DEF Good
<1>8. Touch(reg, names) = after[n]
  BY Zenon DEF Touch, after
<1> QED
  BY <1>7, <1>8 DEF Regs

(* So lru_lora_name finds one, and it is not beyond the limit.             *)
LEMMA LruIs ==
  ASSUME Facts, FullHasUnpinned, NEW reg, Sound(reg), Len(reg) >= MaxLoaded
  PROVE  /\ LruLoraName(reg) # {}
         /\ \A n \in LruLoraName(reg) : \E i \in 1 .. MaxLoaded : n = reg[i].name
<1> DEFINE Free == {i \in 1 .. MaxLoaded : reg[i].name \notin Pinned}
           None(j) == \A k \in 1 .. j : reg[k].name \in Pinned
           Good == {j \in 0 .. MaxLoaded : None(j)}
<1>1. MaxLoaded \in Nat /\ Len(reg) \in Nat /\ DOMAIN reg = 1 .. Len(reg)
  BY RegistryAssumption, Elements DEF Sound
<1>2. PICK u \in 1 .. MaxLoaded : reg[u].name \notin Pinned
  BY DEF FullHasUnpinned
<1>3. LruLoraName(reg) # {}
  <2> SUFFICES ASSUME LruLoraName(reg) = {} PROVE FALSE
    OBVIOUS
  <2>1. 0 \in Good
    BY <1>1
  <2>2. ASSUME NEW j \in 1 .. MaxLoaded, j - 1 \in Good PROVE j \in Good
    <3>1. \A k \in 1 .. j - 1 : reg[k].name \in Pinned
      BY <2>2
    <3>2. j \in DOMAIN reg
      BY <1>1
    <3>3. reg[j].name \in Pinned
      BY <3>1, <3>2, Zenon DEF LruLoraName
    <3>4. None(j)
      BY <3>1, <3>3
    <3> QED
      BY <3>4
  <2>3. Good \in SUBSET (0 .. MaxLoaded)
    OBVIOUS
  <2>4. MaxLoaded \in Good
    <3> HIDE DEF Good
    <3> QED
      BY <1>1, <2>1, <2>2, <2>3, Induction
  <2> QED
    BY <1>2, <2>4
<1>4. ASSUME NEW n \in LruLoraName(reg) PROVE \E i \in 1 .. MaxLoaded : n = reg[i].name
  <2>1. PICK i \in DOMAIN reg :
          n = reg[i].name /\ \A k \in 1 .. i - 1 : reg[k].name \in Pinned
    BY DEF LruLoraName
  <2>2. ~ (u < i)
    BY <1>1, <1>2, <2>1
  <2> QED
    BY <1>1, <1>2, <2>1, <2>2
<1> QED
  BY <1>3, <1>4

(* Going through a finite set gives a sequence of its elements.            *)
LEMMA OrdersAre ==
  ASSUME Facts, NEW S, IsFiniteSet(S), NEW T, S \subseteq T, NEW s \in Orders(S)
  PROVE  s \in Seq(T) /\ (S # {} => s # <<>>)
<1> DEFINE n == Cardinality(S)
<1>1. n \in Nat /\ (n = 0 <=> S = {})
  BY Finite
<1>2. s \in [1 .. n -> S]
  BY DEF Orders, Bijection, Injection
<1> HIDE DEF n
<1>3. s \in Seq(S) /\ Len(s) = n
  BY <1>1, <1>2
<1>4. s \in Seq(T)
  BY <1>1, <1>2
<1> QED
  BY <1>1, <1>3, <1>4

(* Increments of the counters.                                             *)
LEMMA CountedIs ==
  ASSUME Facts, NEW c \in [Ids -> Int], NEW s \in Seq(Ids)
  PROVE  /\ Counted(c, s) \in [Ids -> Int]
         /\ Len(s) = 1 => Counted(c, s) = [c EXCEPT ![s[1]] = @ + 1]
<1> DEFINE At(id) == {i \in DOMAIN s : s[i] = id}
<1>1. DOMAIN s = 1 .. Len(s) /\ Len(s) \in Nat
  OBVIOUS
<1>2. IsFiniteSet(DOMAIN s)
  <2> DEFINE n == Len(s)
  <2>1. n \in Nat
    OBVIOUS
  <2> HIDE DEF n
  <2>2. IsFiniteSet(1 .. n)
    BY <2>1 DEF Facts
  <2> QED
    BY <1>1, <2>2 DEF n
<1>3. \A id : Cardinality(At(id)) \in Nat
  <2> SUFFICES ASSUME NEW id PROVE Cardinality(At(id)) \in Nat
    BY Zenon
  <2>1. At(id) \subseteq DOMAIN s
    OBVIOUS
  <2> HIDE DEF At
  <2> QED
    BY <1>2, <2>1, Finite
<1>4. Counted(c, s) = [id \in Ids |-> c[id] + Cardinality(At(id))]
  BY DEF Counted
<1>5. Counted(c, s) \in [Ids -> Int]
  <2> HIDE DEF At
  <2> QED
    BY <1>3, <1>4
<1>6. ASSUME Len(s) = 1 PROVE Counted(c, s) = [c EXCEPT ![s[1]] = @ + 1]
  <2>1. \A id : At(id) = IF id = s[1] THEN {1} ELSE {}
    BY <1>1, <1>6
  <2>2. Cardinality({1}) = 1 /\ Cardinality({}) = 0
    <3>1. IsFiniteSet({}) /\ Cardinality({}) = 0
      BY Finite DEF Facts
    <3>2. Cardinality({} \cup {1}) = 0 + 1
      BY <3>1, CountChanged, Zenon
    <3> QED
      BY <3>1, <3>2
  <2>3. \A id \in Ids : c[id] + Cardinality(At(id)) = IF id = s[1] THEN c[id] + 1 ELSE c[id]
    <3> SUFFICES ASSUME NEW id \in Ids
                 PROVE  c[id] + Cardinality(At(id)) = IF id = s[1] THEN c[id] + 1 ELSE c[id]
      OBVIOUS
    <3>1. c[id] \in Int
      OBVIOUS
    <3>2. CASE id = s[1]
      <4>1. Cardinality(At(id)) = 1
        BY <2>1, <2>2, <3>2, Zenon
      <4> HIDE DEF At
      <4> QED
        BY <3>2, <4>1
    <3>3. CASE id # s[1]
      <4>1. Cardinality(At(id)) = 0
        BY <2>1, <2>2, <3>3, Zenon
      <4> HIDE DEF At
      <4> QED
        BY <3>1, <3>3, <4>1
    <3> QED
      BY <3>2, <3>3
  <2> HIDE DEF At
  <2> QED
    BY <1>4, <2>3, Zenon
<1> QED
  BY <1>5, <1>6

(* The rest of what is to do.                                              *)
LEMMA RestIs ==
  ASSUME NEW S, NEW s \in Seq(S), s # <<>>
  PROVE  Head(s) \in S /\ Tail(s) \in Seq(S) /\ (Len(s) # 1 => Tail(s) # <<>>)
<1> DEFINE rest == Tail(s)
           n == Len(s)
<1>1. n \in Nat /\ n # 0
  OBVIOUS
<1>2. Head(s) \in S /\ rest \in Seq(S) /\ Len(rest) = n - 1
  BY <1>1
<1> HIDE DEF rest, n
<1>3. n # 1 => rest # <<>>
  BY <1>1, <1>2
<1> QED
  BY <1>2, <1>3 DEF rest, n

----------------------------------------------------------------------------
(* The invariant of loads and unloads.                                     *)

(* The tasks that have queued for lora_update_lock, those that have got    *)
(* it, and those that unload an adapter.                                   *)
Updating == {"queued", "loading", "waiting", "unloading"}

Working == {"loading", "waiting", "unloading"}

Evicting == {"waiting", "unloading"}

(* lora_update_lock is held by one task, and the others that wait for it   *)
(* do nothing else.                                                        *)
LockInv ==
  /\ \A i, j \in 1 .. Len(lock) : lock[i] = lock[j] => i = j
  /\ \A t \in Tasks : (\E i \in 1 .. Len(lock) : lock[i] = t) <=> pc[t] \in Updating
  /\ \A i \in 2 .. Len(lock) : pc[lock[i]] = "queued"

(* What a task still has to do.                                            *)
TodoInv ==
  /\ \A t \in Unloads : pc[t] \in {"start", "queued", "waiting", "unloading", "failed", "done"}
  /\ \A t \in Requests : todo[t] \in Seq(Range(Wants[t]))
  /\ \A t \in Requests : pc[t] \in Updating => todo[t] # <<>>

(* The registry reg offers what the backend has, ld, under ids given out.  *)
Consistent(reg, ld, last) ==
  /\ Sound(reg) /\ Range(reg) = ld
  /\ \A r \in ld : r.id <= last
  /\ \A r, s \in ld : r.id = s.id => r = s

(* The adapters that no task unloads.                                      *)
Staying == {r \in loaded : \A t \in Tasks : pc[t] \in Evicting => victim[t] # r.id}

RegistryInv ==
  /\ Sound(registry) /\ Len(registry) <= MaxLoaded
  /\ Range(registry) = Staying
  /\ \A r \in loaded : r.id <= last_id
  /\ \A r, s \in loaded : r.id = s.id => r = s
  /\ \A t \in Requests : pc[t] \in Evicting => Registered(registry, Head(todo[t]))

(* The counter of an adapter is deleted after the adapter has left the     *)
(* registry and before the backend is told to unload it.                   *)
DroppedInv ==
  /\ \A id \in dropped : id <= last_id
  /\ \A r \in Range(registry) : r.id \notin dropped
  /\ \A t \in Tasks : pc[t] = "waiting" => victim[t] \in Ids \ dropped /\ victim[t] <= last_id
  /\ \A t \in Tasks : pc[t] = "unloading" => victim[t] \in dropped

(* Whatever requests come and however they end.                            *)
UpdateInv == TypeOK /\ LockInv /\ TodoInv /\ RegistryInv /\ DroppedInv

Holds(t) ==
  /\ Len(lock) > 0 /\ lock[1] = t /\ pc[t] \in Updating
  /\ \A u \in Tasks \ {t} : pc[u] \notin Working

Points == {"start", "queued", "loading", "waiting", "unloading", "counting",
           "acquired", "running", "failed", "done"}

(* Task t, which has the lock, has got an answer from the backend, and reg *)
(* is what the registry is before evictions.                               *)
Answered(t, reg) ==
  /\ t \in Requests /\ Holds(t)
  /\ Consistent(reg, loaded', last_id') /\ Registered(reg, Head(todo[t]))
  /\ loaded' \subseteq LoRARef /\ last_id' \in last_id .. MaxId
  /\ \A r \in Range(reg) : r.id \notin dropped
  /\ running' = running /\ owed' = owed

(* The limits are numbers.                                                 *)
LEMMA Numbers == MaxLoaded \in Nat /\ MaxId \in Nat
  BY RegistryAssumption

(* What the invariant says of the registry, for a step that leaves it as   *)
(* it is.                                                                  *)
LEMMA Bounds ==
  ASSUME UpdateInv
  PROVE  /\ registry \in Seq(LoRARef) /\ loaded \subseteq LoRARef /\ dropped \subseteq Int
         /\ Len(registry) \in Nat /\ Len(registry) <= MaxLoaded
         /\ Len(registry) <= MaxLoaded + 1 /\ ~ (Len(registry) > MaxLoaded)
         /\ last_id \in 0 .. MaxId /\ last_id \in Int /\ last_id \in last_id .. MaxId
         /\ \A r \in Range(registry) : r.id \notin dropped
         /\ \A id \in dropped : id <= last_id
<1>1. TypeOK /\ RegistryInv /\ DroppedInv
  BY DEF UpdateInv
<1>2. /\ registry \in Seq(LoRARef) /\ loaded \subseteq LoRARef /\ dropped \subseteq Ids
      /\ last_id \in 0 .. MaxId
  BY <1>1, Zenon DEF TypeOK
<1>3. Len(registry) <= MaxLoaded
  BY <1>1, Zenon DEF RegistryInv
<1>4. /\ \A r \in Range(registry) : r.id \notin dropped
      /\ \A id \in dropped : id <= last_id
  BY <1>1, Zenon DEF DroppedInv
<1> QED
  BY <1>2, <1>3, <1>4, Numbers DEF Ids

(* The requests do not change.                                             *)
LEMMA SameRequests ==
  ASSUME workload' = workload
  PROVE  /\ Wants' = Wants /\ Faults' = Faults /\ Requests' = Requests /\ Tasks' = Tasks
         /\ Regular' = Regular
         /\ \A t : Prompts(t)' = Prompts(t)
<1>1. Wants' = Wants /\ Faults' = Faults
  BY DEF Wants, Faults
<1>2. Requests' = Requests
  BY <1>1 DEF Requests
<1>3. Tasks' = Tasks
  BY <1>2 DEF Tasks
<1>4. Regular' = Regular
  BY <1>1, <1>2 DEF Regular
<1>5. \A t : Prompts(t)' = Prompts(t)
  BY <1>1 DEF Prompts
<1> QED
  BY <1>1, <1>2, <1>3, <1>4, <1>5

(* What the assumption says of the requests at hand.                       *)
LEMMA RequestsAre ==
  ASSUME TypeOK
  PROVE  /\ \A t \in Requests : Wants[t] \in Seq(Names) /\ Wants[t] # <<>>
         /\ Requests \cap Unloads = {}
         /\ \A t \in Requests : t \in Tasks
         /\ \A t \in Unloads : t \in Tasks /\ Target[t] \in Names
         /\ Faults \subseteq FaultKinds
<1>1. workload \in Workloads
  BY DEF TypeOK
<1>2. /\ Wants \in [DOMAIN Wants -> Seq(Names) \ {<<>>}]
      /\ DOMAIN Wants \cap Unloads = {}
      /\ Faults \subseteq FaultKinds
      /\ \A t \in Unloads : Target[t] \in Names
  BY <1>1, RegistryAssumption, Zenon DEF Wants, Faults
<1>3. \A t \in Requests : Wants[t] \in Seq(Names) \ {<<>>}
  BY <1>2, Zenon DEF Requests
<1> QED
  BY <1>2, <1>3 DEF Requests, Tasks

(* A task that does more than wait for the lock has it, and no other does. *)
LEMMA Holder ==
  ASSUME TypeOK, LockInv, NEW t \in Tasks,
         pc[t] \in Working \/ (pc[t] = "queued" /\ Head(lock) = t)
  PROVE  Holds(t)
<1>1. lock \in Seq(Tasks) /\ Len(lock) \in Nat
  BY DEF TypeOK
<1>2. PICK i \in 1 .. Len(lock) : lock[i] = t
  BY DEF LockInv, Updating, Working
<1>3. Len(lock) > 0 /\ Head(lock) = lock[1]
  BY <1>1, <1>2
<1>4. lock[1] = t
  <2>1. CASE pc[t] \in Working
    <3>1. i \notin 2 .. Len(lock)
      BY <1>2, <2>1 DEF LockInv, Working
    <3> QED
      BY <1>1, <1>2, <3>1
  <2> QED
    BY <1>3, <2>1
<1>5. ASSUME NEW u \in Tasks \ {t}, pc[u] \in Working PROVE FALSE
  <2>1. PICK j \in 1 .. Len(lock) : lock[j] = u
    BY <1>5 DEF LockInv, Updating, Working
  <2>2. j \in 2 .. Len(lock)
    BY <1>1, <1>4, <2>1
  <2> QED
    BY <1>5, <2>1, <2>2 DEF LockInv, Working
<1> QED
  BY <1>3, <1>4, <1>5 DEF Holds, Updating, Working

(* And when nobody unloads, it does.                                       *)
LEMMA NobodyUnloads ==
  ASSUME RegistryInv, \A u \in Tasks : pc[u] \notin Evicting
  PROVE  Consistent(registry, loaded, last_id)
<1>1. Staying = loaded
  BY DEF Staying
<1> QED
  BY <1>1 DEF RegistryInv, Consistent

(* The first name that is not registered.                                  *)
LEMMA FirstMissing ==
  ASSUME Facts, NEW n \in Nat, NEW S, \E i \in 1 .. n : i \in S
  PROVE  \E i \in 1 .. n : i \in S /\ \A j \in 1 .. i - 1 : ~ (j \in S)
<1> SUFFICES ASSUME \A i \in 1 .. n : i \in S => \E j \in 1 .. i - 1 : j \in S PROVE FALSE
  OBVIOUS
<1> DEFINE Good == {k \in 0 .. n : \A j \in 1 .. k : j \notin S}
<1>1. 0 \in Good
  OBVIOUS
<1>2. ASSUME NEW k \in 1 .. n, k - 1 \in Good PROVE k \in Good
  <2>1. \A j \in 1 .. k - 1 : j \notin S
    BY <1>2
  <2>2. k \notin S
    BY <2>1
  <2> QED
    BY <2>1, <2>2
<1>3. Good \in SUBSET (0 .. n)
  OBVIOUS
<1>4. n \in Good
  <2> HIDE DEF Good
  <2> QED
    BY <1>1, <1>2, <1>3, Induction
<1> QED
  BY <1>4

(* acquire reorders the registry, and the request is refused or goes on.   *)
LEMMA AcquireIs ==
  ASSUME Facts, TypeOK, NEW t \in Requests, NEW reg, Sound(reg), Acquire(t, reg)
  PROVE  /\ Reordered(reg, registry')
         /\ \E p \in {"failed", "counting", "acquired"} : pc' = [pc EXCEPT ![t] = p]
         /\ ids' \in [Requests -> Seq(Ids)] /\ counters' \in [Ids -> Int]
         /\ known' \in [Requests -> SUBSET Nat]
<1> DEFINE w == Wants[t]
           Missing(i) == ~ Registered(reg, w[i])
           first == CHOOSE i \in Prompts(t) : Missing(i) /\ \A j \in 1 .. i - 1 : ~Missing(j)
           found == [i \in Prompts(t) |-> IdOf(reg, w[i])]
<1>1. w \in Seq(Names) /\ Len(w) \in Nat /\ Prompts(t) = 1 .. Len(w)
  BY RequestsAre DEF Prompts
<1>2. /\ ids \in [Requests -> Seq(Ids)] /\ counters \in [Ids -> Int]
      /\ known \in [Requests -> SUBSET Nat]
  BY DEF TypeOK
<1>3. CASE \E i \in Prompts(t) : Missing(i)
  <2>1. /\ registry' = Touch(reg, SubSeq(w, 1, first - 1))
        /\ Refuse(t) /\ ids' = ids /\ counters' = counters
    BY <1>3, Zenon DEF Acquire
  <2>2. first \in Prompts(t)
    <3> DEFINE S == {i \in Prompts(t) : Missing(i)}
    <3>1. \E i \in 1 .. Len(w) : i \in S
      BY <1>1, <1>3
    <3>2. \E i \in 1 .. Len(w) : i \in S /\ \A j \in 1 .. i - 1 : ~ (j \in S)
      <4> HIDE DEF S
      <4> QED
        BY <1>1, <3>1, FirstMissing, Zenon
    <3>3. \E i \in Prompts(t) : Missing(i) /\ \A j \in 1 .. i - 1 : ~Missing(j)
      BY <1>1, <3>2
    <3> QED
      BY <3>3, Zenon
  <2> HIDE DEF first
  <2>3. Len(SubSeq(w, 1, first - 1)) \in Nat
    BY <1>1, <2>2
  <2>4. Reordered(reg, registry')
    BY <2>1, <2>3, TouchReorders
  <2>5. pc' = [pc EXCEPT ![t] = "failed"] /\ known' = [known EXCEPT ![t] = {}]
    BY <2>1 DEF Refuse, Goto
  <2> QED
    BY <1>2, <2>1, <2>4, <2>5
<1>4. CASE ~ \E i \in Prompts(t) : Missing(i)
  <2>1. /\ registry' = Touch(reg, w) /\ ids' = [ids EXCEPT ![t] = found]
        /\ \/ Goto(t, "acquired") /\ counters' = Counted(counters, found)
           \/ Goto(t, "counting") /\ counters' = counters
        /\ known' = known
    BY <1>4, Zenon DEF Acquire
  <2>2. \A i \in Prompts(t) : IdOf(reg, w[i]) \in Ids
    <3> SUFFICES ASSUME NEW i \in Prompts(t) PROVE IdOf(reg, w[i]) \in Ids
      OBVIOUS
    <3>1. PICK r \in Range(reg) : r \in LoRARef /\ r.id = IdOf(reg, w[i])
      BY <1>4, IdIs
    <3> QED
      BY <3>1 DEF LoRARef
  <2>3. found \in Seq(Ids)
    BY <1>1, <2>2
  <2> HIDE DEF found
  <2>4. Counted(counters, found) \in [Ids -> Int]
    BY <1>2, <2>3, CountedIs, Zenon
  <2>5. Reordered(reg, registry')
    BY <1>1, <2>1, TouchReorders
  <2>6. ids' \in [Requests -> Seq(Ids)]
    BY <1>2, <2>1, <2>3
  <2>7. counters' \in [Ids -> Int]
    BY <1>2, <2>1, <2>4
  <2>8. \E p \in {"failed", "counting", "acquired"} : pc' = [pc EXCEPT ![t] = p]
    BY <2>1 DEF Goto
  <2> QED
    BY <1>2, <2>1, <2>5, <2>6, <2>7, <2>8, Zenon
<1> QED
  BY <1>3, <1>4

(* The eviction loop ends the load or evicts one adapter: it never fails,  *)
(* because fewer adapters are pinned than can be loaded, and never takes   *)
(* the adapter just loaded, which is the most recently used.               *)
LEMMA EvictIs ==
  ASSUME Facts, FullHasUnpinned, NEW t, NEW reg, Sound(reg), Len(reg) <= MaxLoaded + 1,
         Evict(t, reg),
         NEW new, Len(reg) > MaxLoaded => reg[Len(reg)].name = new
  PROVE  \/ Len(reg) <= MaxLoaded /\ EndLoad(t, reg)
         \/ /\ Len(reg) > MaxLoaded
            /\ \E n : /\ Registered(reg, n) /\ n # new /\ StartUnload(t, reg, n)
                      /\ UNCHANGED <<counters, lock, todo, ids, known>>
<1>1. MaxLoaded \in Nat /\ Len(reg) \in Nat
  BY RegistryAssumption, Elements DEF Sound
<1>2. CASE Len(reg) <= MaxLoaded
  <2>1. ~ (Len(reg) > MaxLoaded)
    BY <1>1, <1>2
  <2> QED
    BY <1>2, <2>1, Zenon DEF Evict
<1>3. CASE Len(reg) > MaxLoaded
  <2>1. ~ (Len(reg) <= MaxLoaded) /\ Len(reg) >= MaxLoaded
    BY <1>1, <1>3
  <2>2. /\ LruLoraName(reg) # {}
        /\ \A n \in LruLoraName(reg) : \E i \in 1 .. MaxLoaded : n = reg[i].name
    BY <2>1, LruIs
  <2>3. /\ \E n \in LruLoraName(reg) : StartUnload(t, reg, n)
        /\ UNCHANGED <<counters, lock, todo, ids, known>>
    BY <1>3, <2>1, <2>2, Zenon DEF Evict
  <2>4. PICK n \in LruLoraName(reg) : StartUnload(t, reg, n)
    BY <2>3
  <2>5. PICK i \in 1 .. MaxLoaded : n = reg[i].name
    BY <2>2
  <2>6. i \in 1 .. Len(reg) /\ i # Len(reg) /\ Len(reg) \in 1 .. Len(reg)
    BY <1>1, <1>3
  <2>7. n # new
    BY <1>3, <2>5, <2>6 DEF Sound, UniqueNames
  <2>8. Registered(reg, n)
    BY <2>5, <2>6, RegisteredAt
  <2> QED
    BY <1>3, <2>3, <2>4, <2>7, <2>8
<1> QED
  BY <1>1, <1>2, <1>3

(* A task whose load the backend has answered had the lock, and nothing is *)
(* being unloaded.                                                         *)
LEMMA Loading ==
  ASSUME UpdateInv, NEW t \in Tasks, pc[t] = "loading"
  PROVE  /\ t \in Requests /\ Holds(t) /\ pc[t] \notin Evicting
         /\ Consistent(registry, loaded, last_id)
         /\ todo[t] # <<>> /\ Head(todo[t]) \in Names
<1>1. TypeOK /\ LockInv /\ TodoInv /\ RegistryInv
  BY DEF UpdateInv
<1>2. Holds(t)
  BY <1>1, Holder DEF Working
<1>3. t \in Requests
  BY <1>1 DEF TodoInv, Tasks
<1>4. Consistent(registry, loaded, last_id)
  <2>1. \A u \in Tasks : pc[u] \notin Evicting
    BY <1>2 DEF Holds, Working, Evicting
  <2> QED
    BY <1>1, <2>1, NobodyUnloads
<1>5. todo[t] # <<>> /\ todo[t] \in Seq(Names)
  BY <1>1, <1>3 DEF TodoInv, TypeOK, Updating
<1> QED
  BY <1>2, <1>3, <1>4, <1>5, RestIs DEF Evicting

(* A new adapter: a fresh id makes it consistent with the others.          *)
LEMMA NewAdapter ==
  ASSUME UpdateInv, NEW t \in Tasks, pc[t] = "loading", last_id < MaxId,
         NEW ref, ref = [name |-> Head(todo[t]), id |-> last_id + 1],
         ref.name \notin NamesOf(loaded),
         loaded' = loaded \cup {ref}, last_id' = ref.id, UNCHANGED <<running, owed>>
  PROVE  /\ Answered(t, Append(registry, ref))
         /\ Len(Append(registry, ref)) <= MaxLoaded + 1
         /\ Append(registry, ref)[Len(Append(registry, ref))].name = Head(todo[t])
<1> DEFINE reg == Append(registry, ref)
<1>1. /\ TypeOK /\ RegistryInv /\ DroppedInv /\ Sound(registry)
      /\ last_id \in 0 .. MaxId /\ MaxId \in Nat /\ loaded \subseteq LoRARef
      /\ MaxLoaded \in Nat /\ Len(registry) \in Nat /\ Len(registry) <= MaxLoaded
  <2>1. TypeOK /\ RegistryInv /\ DroppedInv /\ Sound(registry)
    BY DEF UpdateInv, RegistryInv
  <2> QED
    BY <2>1, Bounds, Numbers
<1>2. /\ t \in Requests /\ Holds(t) /\ Consistent(registry, loaded, last_id)
      /\ Head(todo[t]) \in Names
  BY Loading
<1>3. ref \in LoRARef /\ ref.name = Head(todo[t]) /\ ref.id = last_id + 1
  BY <1>1, <1>2 DEF LoRARef, Ids
<1>4. ~ Registered(registry, ref.name)
  BY <1>2 DEF Registered, Consistent
<1>5. /\ Sound(reg) /\ Len(reg) = Len(registry) + 1 /\ Range(reg) = Range(registry) \cup {ref}
  BY <1>1, <1>3, <1>4, AppendIs
<1>6. reg[Len(reg)] = ref
  BY <1>1, <1>5 DEF Sound
<1> HIDE DEF reg
<1>7. \A r \in loaded : r.id \in Int /\ r.id <= last_id
  BY <1>1, <1>2 DEF Consistent, LoRARef, Ids
<1>8. Consistent(reg, loaded', last_id')
  <2>1. \A r \in loaded' : r.id <= last_id'
    BY <1>1, <1>3, <1>7
  <2>2. \A r, s \in loaded' : r.id = s.id => r = s
    BY <1>1, <1>2, <1>3, <1>7 DEF Consistent
  <2>3. Range(reg) = loaded'
    BY <1>2, <1>5 DEF Consistent
  <2> QED
    BY <1>5, <2>1, <2>2, <2>3 DEF Consistent
<1>9. Registered(reg, Head(todo[t]))
  BY <1>3, <1>5 DEF Registered, NamesOf
<1>10. \A r \in Range(reg) : r.id \notin dropped
  <2>1. \A r \in Range(registry) : r.id \notin dropped
    BY <1>1 DEF DroppedInv
  <2>2. ref.id \notin dropped
    BY <1>1, <1>3 DEF DroppedInv
  <2> QED
    BY <1>5, <2>1, <2>2
<1>11. loaded' \subseteq LoRARef /\ last_id' \in last_id .. MaxId
  BY <1>1, <1>3
<1>12. Answered(t, reg)
  BY <1>2, <1>8, <1>9, <1>10, <1>11 DEF Answered
<1> QED
  BY <1>1, <1>3, <1>5, <1>6, <1>12 DEF reg

(* A task goes to another point.                                           *)
LEMMA Goes ==
  ASSUME TypeOK, NEW t \in Tasks, NEW p \in Points, pc' = [pc EXCEPT ![t] = p]
  PROVE  pc' \in [Tasks -> Points] /\ \A u \in Tasks : pc'[u] = IF u = t THEN p ELSE pc[u]
<1>1. pc \in [Tasks -> Points]
  BY Zenon DEF TypeOK, Points
<1> QED
  BY <1>1

(* A step of requests that neither look up, load nor unload an adapter.    *)
Elsewhere ==
  /\ workload' = workload
  /\ UNCHANGED <<registry, dropped, loaded, last_id, lock, todo, victim, ids>>
  /\ pc' \in [Tasks -> Points]
  /\ \A u \in Tasks : \/ pc'[u] = pc[u]
                       \/ /\ pc[u] \in {"counting", "acquired"}
                          /\ pc'[u] \in {"acquired", "running", "failed"}
  /\ counters' \in [Ids -> Int] /\ running' \in [Requests -> SUBSET Nat]
  /\ known' \in [Requests -> SUBSET Nat] /\ owed' \in [Ids -> Nat]

(* The steps that load and unload keep the invariant, and so does one that *)
(* is elsewhere.  The nested steps are the ways the lock changes, what     *)
(* lookups and turns change, and then one step per action.                 *)
LEMMA UpdatesKeep ==
  ASSUME Facts, FullHasUnpinned, RangesAreFinite
  PROVE  /\ \A t \in Tasks : UpdateInv /\ workload' = workload /\ Updates(t) => UpdateInv'
         /\ UpdateInv /\ Elsewhere => UpdateInv'
(* The ways the lock changes.  A task queues for it.                       *)
<1>Queued.
      ASSUME TypeOK, LockInv, workload' = workload, NEW t \in Tasks, pc[t] \notin Updating,
             lock' = Append(lock, t), pc' = [pc EXCEPT ![t] = "queued"]
      PROVE  LockInv' /\ lock' \in Seq(Tasks)
  <2> USE <1>Queued
  <2>1. /\ lock \in Seq(Tasks) /\ Len(lock) \in Nat
        /\ lock' \in Seq(Tasks) /\ Len(lock') = Len(lock) + 1 /\ lock'[Len(lock) + 1] = t
        /\ \A i \in 1 .. Len(lock) : lock'[i] = lock[i] /\ lock[i] \in Tasks
    BY DEF TypeOK
  <2>2. \A i \in 1 .. Len(lock) : lock[i] # t
    BY DEF LockInv
  <2>3. \A u \in Tasks : pc'[u] = IF u = t THEN "queued" ELSE pc[u]
    BY DEF TypeOK
  <2>4. \A i, j \in 1 .. Len(lock') : lock'[i] = lock'[j] => i = j
    BY <2>1, <2>2 DEF LockInv
  <2>5. ASSUME NEW u \in Tasks
        PROVE  (\E i \in 1 .. Len(lock') : lock'[i] = u) <=> pc'[u] \in Updating
    <3>1. CASE u = t
      BY <2>1, <2>3, <3>1 DEF Updating
    <3>2. CASE u # t
      <4>1. (\E i \in 1 .. Len(lock') : lock'[i] = u) <=> \E i \in 1 .. Len(lock) : lock[i] = u
        BY <2>1, <3>2
      <4> QED
        BY <2>3, <3>2, <4>1 DEF LockInv
    <3> QED
      BY <3>1, <3>2
  <2>6. \A i \in 2 .. Len(lock') : pc'[lock'[i]] = "queued"
    BY <2>1, <2>2, <2>3 DEF LockInv
  <2> QED
    BY <2>1, <2>4, <2>5, <2>6, SameRequests, Zenon DEF LockInv
(* The task that has the lock keeps it.                                    *)
<1>Kept.
      ASSUME TypeOK, LockInv, workload' = workload, NEW t \in Tasks, Holds(t),
             lock' = lock, NEW p \in Working, pc' = [pc EXCEPT ![t] = p]
      PROVE  LockInv'
  <2> USE <1>Kept
  <2>1. lock \in Seq(Tasks) /\ Len(lock) \in Nat /\ \A i \in 1 .. Len(lock) : lock[i] \in Tasks
    BY DEF TypeOK
  <2>2. \A u \in Tasks : pc'[u] = IF u = t THEN p ELSE pc[u]
    BY DEF TypeOK
  <2>3. \A u \in Tasks : pc'[u] \in Updating <=> pc[u] \in Updating
    BY <2>2 DEF Holds, Updating, Working
  <2>4. \A i \in 2 .. Len(lock) : lock[i] # t
    BY <2>1 DEF LockInv, Holds
  <2>5. \A i \in 2 .. Len(lock) : pc'[lock[i]] = "queued"
    BY <2>1, <2>2, <2>4 DEF LockInv
  <2> QED
    BY <2>3, <2>5, SameRequests DEF LockInv
(* It gives it up.                                                         *)
<1>GivenUp.
      ASSUME TypeOK, LockInv, workload' = workload, NEW t \in Tasks, Holds(t),
             lock' = Tail(lock), NEW p, p \notin Updating, pc' = [pc EXCEPT ![t] = p]
      PROVE  LockInv' /\ lock' \in Seq(Tasks)
  <2> USE <1>GivenUp
  <2>1. /\ lock \in Seq(Tasks) /\ Len(lock) \in Nat /\ \A i \in 1 .. Len(lock) : lock[i] \in Tasks
        /\ lock' \in Seq(Tasks) /\ Len(lock') = Len(lock) - 1
        /\ \A i \in 1 .. Len(lock') : lock'[i] = lock[i+1]
    BY DEF TypeOK, Holds
  <2>2. \A u \in Tasks : pc'[u] = IF u = t THEN p ELSE pc[u]
    BY DEF TypeOK
  <2>3. \A i \in 2 .. Len(lock) : lock[i] # t
    BY <2>1 DEF LockInv, Holds
  <2>4. \A i, j \in 1 .. Len(lock') : lock'[i] = lock'[j] => i = j
    BY <2>1 DEF LockInv
  <2>5. ASSUME NEW u \in Tasks
        PROVE  (\E i \in 1 .. Len(lock') : lock'[i] = u) <=> pc'[u] \in Updating
    <3>1. CASE u = t
      BY <2>1, <2>2, <2>3, <3>1
    <3>2. CASE u # t
      <4>1. ASSUME NEW i \in 1 .. Len(lock') , lock'[i] = u PROVE \E j \in 1 .. Len(lock) : lock[j] = u
        BY <2>1, <4>1
      <4>2. ASSUME NEW j \in 1 .. Len(lock) , lock[j] = u PROVE \E i \in 1 .. Len(lock') : lock'[i] = u
        <5>1. j - 1 \in 1 .. Len(lock') /\ lock'[j-1] = u
          BY <2>1, <3>2, <4>2 DEF Holds
        <5> QED
          BY <5>1, Zenon
      <4> QED
        BY <2>2, <3>2, <4>1, <4>2 DEF LockInv
    <3> QED
      BY <3>1, <3>2
  <2>6. \A i \in 1 .. Len(lock') : pc'[lock'[i]] = "queued"
    BY <2>1, <2>2, <2>3 DEF LockInv
  <2> QED
    BY <2>1, <2>4, <2>5, <2>6, SameRequests DEF LockInv
(* It becomes the last in the queue.                                       *)
<1>Rotated.
      ASSUME TypeOK, LockInv, workload' = workload, NEW t \in Tasks, Holds(t),
             pc' = [pc EXCEPT ![t] = "queued"], Len(lock') = Len(lock),
             \A i \in 1 .. Len(lock) - 1 : lock'[i] = lock[i+1], lock'[Len(lock)] = t
      PROVE  LockInv'
  <2> USE <1>Rotated
  <2>1. Len(lock) \in Nat /\ \A i \in 1 .. Len(lock) : lock[i] \in Tasks
    BY DEF TypeOK
  <2>2. \A u \in Tasks : pc'[u] = IF u = t THEN "queued" ELSE pc[u]
    BY DEF TypeOK
  <2>3. \A i \in 2 .. Len(lock) : lock[i] # t
    BY <2>1 DEF LockInv, Holds
  <2>4. \A i, j \in 1 .. Len(lock') : lock'[i] = lock'[j] => i = j
    <3>1. \A i \in 1 .. Len(lock) : i # Len(lock) => lock'[i] # t
      BY <2>1, <2>3
    <3> QED
      BY <2>1, <3>1 DEF LockInv
  <2>5. ASSUME NEW u \in Tasks
        PROVE  (\E i \in 1 .. Len(lock') : lock'[i] = u) <=> pc'[u] \in Updating
    <3>1. CASE u = t
      <4>1. Len(lock) \in 1 .. Len(lock')
        BY <2>1 DEF Holds
      <4> QED
        BY <2>1, <2>2, <3>1, <4>1 DEF Updating
    <3>2. CASE u # t
      <4>1. ASSUME NEW i \in 1 .. Len(lock') , lock'[i] = u PROVE \E j \in 1 .. Len(lock) : lock[j] = u
        BY <2>1, <3>2, <4>1
      <4>2. ASSUME NEW j \in 1 .. Len(lock) , lock[j] = u PROVE \E i \in 1 .. Len(lock') : lock'[i] = u
        <5>1. j - 1 \in 1 .. Len(lock') /\ lock'[j-1] = u
          BY <2>1, <3>2, <4>2 DEF Holds
        <5> QED
          BY <5>1
      <4> QED
        BY <2>2, <3>2, <4>1, <4>2 DEF LockInv
    <3> QED
      BY <3>1, <3>2
  <2>6. \A i \in 1 .. Len(lock') : pc'[lock'[i]] = "queued"
    BY <2>1, <2>2, <2>3 DEF LockInv
  <2> QED
    BY <2>1, <2>4, <2>5, <2>6, SameRequests DEF LockInv
(* So it does when it queues again, for the next adapter.                  *)
<1>QueuedAgain.
      ASSUME TypeOK, LockInv, workload' = workload, NEW t \in Tasks, Holds(t),
             lock' = Append(Tail(lock), t), pc' = [pc EXCEPT ![t] = "queued"]
      PROVE  LockInv' /\ lock' \in Seq(Tasks)
  <2> USE <1>QueuedAgain
  <2>1. /\ lock' \in Seq(Tasks) /\ Len(lock') = Len(lock)
        /\ \A i \in 1 .. Len(lock) - 1 : lock'[i] = lock[i+1]
        /\ lock'[Len(lock)] = t
    BY SMTT(20) DEF TypeOK, Holds
  <2> QED
    BY <2>1, <1>Rotated, Zenon
(* A task that does not need it goes on.                                   *)
<1>NotConcerned.
      ASSUME TypeOK, LockInv, workload' = workload, lock' = lock,
             \A u \in Tasks : pc'[u] = pc[u] \/ (pc[u] \notin Updating /\ pc'[u] \notin Updating)
      PROVE  LockInv'
  <2> USE <1>NotConcerned
  <2>1. lock \in Seq(Tasks) /\ Len(lock) \in Nat /\ \A i \in 1 .. Len(lock) : lock[i] \in Tasks
    BY DEF TypeOK
  <2>2. \A u \in Tasks : pc'[u] \in Updating <=> pc[u] \in Updating
    BY SMTT(20)
  <2>3. \A i \in 2 .. Len(lock) : pc'[lock[i]] = "queued"
    <3>1. ASSUME NEW i \in 2 .. Len(lock) PROVE lock[i] \in Tasks /\ pc[lock[i]] = "queued"
      BY <2>1, <3>1, SMTT(20) DEF LockInv
    <3>2. ASSUME NEW i \in 2 .. Len(lock) PROVE pc'[lock[i]] = "queued"
      BY <3>1, <3>2, SMTT(20) DEF Updating
    <3> QED
      BY <3>2
  <2> QED
    BY <2>2, <2>3, SameRequests, Zenon DEF LockInv
(* The ways the registry changes.  Lookups reorder it, while the unloads   *)
(* that go on are not concerned.                                           *)
<1>LookedUp.
      ASSUME RegistryInv, DroppedInv, workload' = workload, Reordered(registry, registry'),
             loaded' = loaded, last_id' = last_id, dropped' = dropped,
             \A u \in Tasks : pc'[u] \in Evicting \/ pc[u] \in Evicting =>
                                pc'[u] = pc[u] /\ victim'[u] = victim[u] /\ todo'[u] = todo[u]
      PROVE  RegistryInv' /\ DroppedInv'
  <2> USE <1>LookedUp
  <2>1. Staying' = Staying
    BY SameRequests DEF Staying
  <2>2. \A t \in Requests : t \in Tasks
    BY DEF Tasks
  <2>3. \A n : Registered(registry', n) <=> Registered(registry, n)
    BY DEF Registered, Reordered
  <2>4. ASSUME NEW t \in Requests, pc'[t] \in Evicting PROVE Registered(registry', Head(todo'[t]))
    BY <2>2, <2>3, <2>4 DEF RegistryInv
  <2>5. RegistryInv'
    BY <2>1, <2>4, SameRequests DEF RegistryInv, Reordered
  <2>6. DroppedInv'
    BY SameRequests DEF DroppedInv, Reordered, Evicting
  <2> QED
    BY <2>5, <2>6
(* Between two unloads the registry offers exactly what the backend has.   *)
<1>Settled.
      ASSUME workload' = workload, NEW reg, Consistent(reg, loaded', last_id'),
             Len(reg) <= MaxLoaded, Reordered(reg, registry'),
             \A u \in Tasks : pc'[u] \notin Evicting,
             \A id \in dropped' : id <= last_id', \A r \in Range(reg) : r.id \notin dropped'
      PROVE  RegistryInv' /\ DroppedInv'
  <2> USE <1>Settled
  <2>1. Staying' = loaded'
    BY SameRequests DEF Staying
  <2>2. \A t \in Requests : t \in Tasks
    BY DEF Tasks
  <2>3. RegistryInv'
    BY <2>1, <2>2, SameRequests DEF RegistryInv, Consistent, Reordered
  <2>4. DroppedInv'
    BY SameRequests DEF DroppedInv, Reordered, Evicting
  <2> QED
    BY <2>3, <2>4
(* The registry can be reordered again.                                    *)
<1>ReorderedTwice.
      ASSUME NEW a, NEW b, NEW c, Reordered(a, b), Reordered(b, c)
      PROVE  Reordered(a, c)
  BY <1>ReorderedTwice DEF Reordered
(* A request looks its adapters up.                                        *)
<1>ResolveKeeps.
      ASSUME UpdateInv, workload' = workload, NEW t \in Tasks, Resolve(t)
      PROVE  UpdateInv'
  <2> USE <1>ResolveKeeps
  <2> DEFINE registered == {n \in Range(Wants[t]) : Registered(registry, n)}
             unregistered == Range(Wants[t]) \ registered
  <2>1. TypeOK /\ LockInv /\ TodoInv /\ RegistryInv /\ DroppedInv /\ Sound(registry)
    BY Zenon DEF UpdateInv, RegistryInv
  <2>2. /\ t \in Requests /\ t \notin Unloads /\ pc[t] = "start"
        /\ dropped' = dropped /\ loaded' = loaded /\ last_id' = last_id
        /\ victim' = victim /\ running' = running /\ owed' = owed
    BY <2>1, RequestsAre DEF Resolve
  <2>3. PICK hits \in Orders(registered), misses \in Orders(unregistered) :
          IF unregistered = {}
            THEN Acquire(t, Touch(registry, hits)) /\ UNCHANGED <<todo, lock>>
            ELSE /\ registry' = Touch(registry, hits)
                 /\ todo' = [todo EXCEPT ![t] = misses]
                 /\ lock' = Append(lock, t)
                 /\ Goto(t, "queued")
                 /\ UNCHANGED <<counters, ids, known>>
    BY Zenon DEF Resolve
  <2>4. IsFiniteSet(Range(Wants[t])) /\ Range(Wants[t]) \subseteq Names
    BY <2>1, <2>2, RequestsAre, RangeIs, Zenon
  <2>5. IsFiniteSet(registered) /\ IsFiniteSet(unregistered)
    BY <2>4, Finite
  <2>6. /\ hits \in Seq(Names)
        /\ misses \in Seq(Range(Wants[t])) /\ (unregistered # {} => misses # <<>>)
    <3>1. registered \subseteq Names /\ unregistered \subseteq Range(Wants[t])
      BY <2>4
    <3> HIDE DEF registered, unregistered
    <3> QED
      BY <2>5, <3>1, OrdersAre
  <2> HIDE DEF registered, unregistered
  <2>7. Reordered(registry, Touch(registry, hits)) /\ Sound(Touch(registry, hits))
    <3>1. Len(hits) \in Nat
      BY <2>6
    <3>2. Reordered(registry, Touch(registry, hits))
      BY <2>1, <3>1, TouchReorders
    <3> QED
      BY <3>2 DEF Reordered
  <2>8. misses \in Seq(Names)
    BY <2>4, <2>6
  <2>9. CASE unregistered = {}
    <3>1. Acquire(t, Touch(registry, hits)) /\ todo' = todo /\ lock' = lock
      BY <2>3, <2>9
    <3>2. /\ Reordered(Touch(registry, hits), registry')
          /\ \E p \in {"failed", "counting", "acquired"} : pc' = [pc EXCEPT ![t] = p]
          /\ ids' \in [Requests -> Seq(Ids)] /\ counters' \in [Ids -> Int]
          /\ known' \in [Requests -> SUBSET Nat]
      BY <2>1, <2>2, <2>7, <3>1, AcquireIs
    <3>3. PICK p \in {"failed", "counting", "acquired"} : pc' = [pc EXCEPT ![t] = p]
      BY <3>2, Zenon
    <3>4. pc' \in [Tasks -> Points] /\ \A u \in Tasks : pc'[u] = IF u = t THEN p ELSE pc[u]
      BY <2>1, <3>3, Goes, Zenon DEF Points
    <3>5. Reordered(registry, registry')
      BY <2>7, <3>2, <1>ReorderedTwice
    <3>6. LockInv'
      BY <2>1, <2>2, <3>1, <3>4, <1>NotConcerned DEF Updating
    <3>7. RegistryInv' /\ DroppedInv'
      BY <2>1, <2>2, <3>1, <3>4, <3>5, <1>LookedUp, Zenon DEF Evicting
    <3>8. TypeOK'
      BY <2>1, <2>2, <3>1, <3>2, <3>4, <3>5, SameRequests, Zenon DEF TypeOK, Points, Reordered, Sound
    <3>9. TodoInv'
      BY <2>1, <2>2, <3>1, <3>4, SameRequests DEF TodoInv, Updating, Tasks
    <3> QED
      BY <3>6, <3>7, <3>8, <3>9 DEF UpdateInv
  <2>10. CASE unregistered # {}
    <3>1. /\ registry' = Touch(registry, hits) /\ todo' = [todo EXCEPT ![t] = misses]
          /\ lock' = Append(lock, t) /\ pc' = [pc EXCEPT ![t] = "queued"]
          /\ counters' = counters /\ ids' = ids /\ known' = known
      BY <2>3, <2>10 DEF Goto
    <3>2. pc' \in [Tasks -> Points] /\ \A u \in Tasks : pc'[u] = IF u = t THEN "queued" ELSE pc[u]
      BY <2>1, <3>1, Goes, Zenon DEF Points
    <3>3. LockInv' /\ lock' \in Seq(Tasks)
      BY <2>1, <2>2, <3>1, <1>Queued, Zenon DEF Updating
    <3>4. /\ todo' \in [Tasks -> Seq(Names)]
          /\ \A u \in Tasks : todo'[u] = IF u = t THEN misses ELSE todo[u]
      BY <2>1, <2>8, <3>1, Zenon DEF TypeOK
    <3>5. RegistryInv' /\ DroppedInv'
      BY <2>1, <2>2, <2>7, <3>1, <3>2, <3>4, <1>LookedUp, Zenon DEF Evicting
    <3>6. TypeOK'
      BY <2>1, <2>2, <2>7, <3>1, <3>2, <3>3, <3>4, SameRequests DEF TypeOK, Points, Reordered, Sound
    <3>7. TodoInv'
      BY <2>1, <2>2, <2>6, <2>10, <3>2, <3>4, SameRequests, Zenon DEF TodoInv, Updating, Tasks
    <3> QED
      BY <3>3, <3>5, <3>6, <3>7 DEF UpdateInv
  <2> QED
    BY <2>9, <2>10
(* A load has ended.                                                       *)
<1>EndLoadKeeps.
      ASSUME UpdateInv, workload' = workload, NEW t \in Tasks, NEW reg, Answered(t, reg),
             Len(reg) <= MaxLoaded, EndLoad(t, reg)
      PROVE  UpdateInv'
  <2> USE <1>EndLoadKeeps
  <2>1. TypeOK /\ LockInv /\ TodoInv /\ RegistryInv /\ DroppedInv
    BY DEF UpdateInv
  <2>2. /\ t \in Requests /\ t \notin Unloads /\ Holds(t) /\ Sound(reg)
        /\ \A u \in Tasks \ {t} : pc[u] \notin Evicting
        /\ todo[t] \in Seq(Range(Wants[t])) /\ todo[t] \in Seq(Names) /\ todo[t] # <<>>
        /\ todo' = [todo EXCEPT ![t] = Tail(todo[t])] /\ dropped' = dropped /\ victim' = victim
        /\ running' = running /\ owed' = owed
    BY <2>1, RequestsAre, Zenon
    DEF Answered, Consistent, Holds, Working, Evicting, TypeOK, TodoInv, EndLoad
  <2>3. /\ Tail(todo[t]) \in Seq(Range(Wants[t])) /\ Tail(todo[t]) \in Seq(Names)
        /\ Len(todo[t]) # 1 => Tail(todo[t]) # <<>>
    BY <2>2, RestIs, Zenon
  <2>4. /\ todo' \in [Tasks -> Seq(Names)]
        /\ \A u \in Tasks : todo'[u] = IF u = t THEN Tail(todo[t]) ELSE todo[u]
    BY <2>1, <2>2, <2>3 DEF TypeOK
  <2>5. \A id \in dropped : id <= last_id'
    <3>1. last_id \in Int /\ last_id' \in Int /\ last_id <= last_id' /\ dropped \subseteq Int
      BY <2>1 DEF TypeOK, Answered, Ids
    <3> QED
      BY <2>1, <3>1 DEF DroppedInv
  <2>6. last_id' \in 0 .. MaxId
    BY Bounds, Numbers DEF Answered
  <2>7. CASE Len(todo[t]) = 1
    <3>1. lock' = Tail(lock) /\ Acquire(t, reg)
      BY <2>7 DEF EndLoad
    <3>2. /\ Reordered(reg, registry')
          /\ \E p \in {"failed", "counting", "acquired"} : pc' = [pc EXCEPT ![t] = p]
          /\ ids' \in [Requests -> Seq(Ids)] /\ counters' \in [Ids -> Int]
          /\ known' \in [Requests -> SUBSET Nat]
      BY <2>1, <2>2, <3>1, AcquireIs
    <3>3. PICK p \in {"failed", "counting", "acquired"} : pc' = [pc EXCEPT ![t] = p]
      BY <3>2, Zenon
    <3>4. pc' \in [Tasks -> Points] /\ \A u \in Tasks : pc'[u] = IF u = t THEN p ELSE pc[u]
      BY <2>1, <3>3, Goes, Zenon DEF Points
    <3>5. LockInv' /\ lock' \in Seq(Tasks)
      <4>1. p \notin Updating
        BY DEF Updating
      <4> QED
        BY <2>1, <2>2, <3>1, <3>3, <4>1, <1>GivenUp, Zenon
    <3>6. RegistryInv' /\ DroppedInv'
      <4>1. \A u \in Tasks : pc'[u] \notin Evicting
        BY <2>2, <3>4, Zenon DEF Evicting
      <4> QED
        BY <2>2, <2>5, <3>2, <4>1, <1>Settled DEF Answered
    <3>7. TypeOK'
      BY <2>1, <2>2, <2>4, <2>6, <3>2, <3>4, <3>5, SameRequests, Zenon
      DEF TypeOK, Points, Reordered, Sound, Answered
    <3>8. TodoInv'
      BY <2>1, <2>2, <2>3, <2>4, <3>4, SameRequests, Zenon DEF TodoInv, Updating, Tasks
    <3> QED
      BY <3>5, <3>6, <3>7, <3>8 DEF UpdateInv
  <2>8. CASE Len(todo[t]) # 1
    <3>1. /\ lock' = Append(Tail(lock), t) /\ pc' = [pc EXCEPT ![t] = "queued"]
          /\ registry' = reg /\ counters' = counters /\ ids' = ids /\ known' = known
      BY <2>8 DEF EndLoad, Goto
    <3>2. pc' \in [Tasks -> Points] /\ \A u \in Tasks : pc'[u] = IF u = t THEN "queued" ELSE pc[u]
      BY <2>1, <3>1, Goes, Zenon DEF Points
    <3>3. LockInv' /\ lock' \in Seq(Tasks)
      BY <2>1, <2>2, <3>1, <1>QueuedAgain, Zenon
    <3>4. RegistryInv' /\ DroppedInv'
      <4>1. \A u \in Tasks : pc'[u] \notin Evicting
        BY <2>2, <3>2 DEF Evicting
      <4>2. Reordered(reg, registry')
        BY <2>2, <3>1, Zenon DEF Reordered
      <4> QED
        BY <2>2, <2>5, <4>1, <4>2, <1>Settled, Zenon DEF Answered
    <3>5. TypeOK'
      BY <2>1, <2>2, <2>4, <2>6, <3>1, <3>2, <3>3, SameRequests, Zenon
      DEF TypeOK, Points, Sound, Answered
    <3>6. TodoInv'
      BY <2>1, <2>2, <2>3, <2>4, <2>8, <3>2, SameRequests, Zenon DEF TodoInv, Updating, Tasks
    <3> QED
      BY <3>3, <3>4, <3>5, <3>6 DEF UpdateInv
  <2> QED
    BY <2>7, <2>8
(* An adapter n leaves the registry; it is not the one that is being       *)
(* loaded.                                                                 *)
<1>UnloadStarted.
      ASSUME TypeOK, workload' = workload, NEW reg, Consistent(reg, loaded', last_id'),
             Len(reg) <= MaxLoaded + 1,
             NEW t \in Tasks, NEW n, Registered(reg, n), StartUnload(t, reg, n),
             \A u \in Tasks \ {t} : pc[u] \notin Evicting,
             \A id \in dropped : id <= last_id', \A r \in Range(reg) : r.id \notin dropped,
             last_id' \in Int,
             t \in Requests => Registered(reg, Head(todo'[t])) /\ n # Head(todo'[t])
      PROVE  RegistryInv' /\ DroppedInv'
  <2> USE <1>UnloadStarted
  <2> DEFINE v == IdOf(reg, n)
  <2>1. PICK ref \in Range(reg) :
          /\ ref \in LoRARef /\ ref.name = n /\ ref.id = v
          /\ \A s \in Range(reg) : s.name = n => s = ref
    BY IdIs DEF Consistent
  <2>2. /\ registry' = Without(reg, n) /\ Sound(registry') /\ Len(registry') = Len(reg) - 1
        /\ Range(registry') = {r \in Range(reg) : r.name # n}
    BY WithoutIs DEF Consistent, StartUnload
  <2>3. MaxLoaded \in Nat /\ Len(reg) \in Nat
    BY RegistryAssumption, Elements, Zenon DEF Consistent, Sound
  <2>4. v \in Ids /\ v \notin dropped /\ v <= last_id'
    BY <2>1 DEF LoRARef, Consistent
  <2>5. /\ victim'[t] = v /\ pc'[t] \in Evicting
        /\ \A u \in Tasks \ {t} : pc'[u] = pc[u]
        /\ pc'[t] = "waiting" => dropped' = dropped
        /\ pc'[t] = "unloading" => dropped' = dropped \cup {v}
    <3>1. pc \in [Tasks -> Points] /\ victim \in [Tasks -> Ids \cup {NoId}]
      BY DEF TypeOK, Points
    <3>2. /\ victim' = [victim EXCEPT ![t] = v]
          /\ \/ pc' = [pc EXCEPT ![t] = "waiting"] /\ dropped' = dropped
             \/ pc' = [pc EXCEPT ![t] = "unloading"] /\ dropped' = dropped \cup {v}
      BY Zenon DEF StartUnload, Goto
    <3> QED
      BY <3>1, <3>2 DEF Evicting
  <2> HIDE DEF v
  <2>6. Staying' = {r \in loaded' : r.id # v}
    BY <2>5, SameRequests DEF Staying
  <2>7. \A r \in Range(reg) : r.id # v <=> r.name # n
    BY <2>1 DEF Consistent
  <2>8. Range(registry') = Staying'
    BY <2>2, <2>6, <2>7 DEF Consistent
  <2>9. ASSUME NEW u \in Requests, pc'[u] \in Evicting PROVE Registered(registry', Head(todo'[u]))
    <3>1. u = t
      BY <2>5, <2>9, Zenon DEF Tasks
    <3>2. Registered(reg, Head(todo'[t])) /\ n # Head(todo'[t])
      BY <3>1
    <3> QED
      BY <2>2, <3>1, <3>2, Zenon DEF Registered, NamesOf
  <2>10. RegistryInv'
    <3>1. Len(registry') <= MaxLoaded
      BY <2>2, <2>3
    <3>2. /\ \A r \in loaded' : r.id <= last_id'
          /\ \A r, s \in loaded' : r.id = s.id => r = s
      BY SMTT(20) DEF Consistent
    <3> QED
      BY <2>2, <2>8, <2>9, <3>1, <3>2, SameRequests, Zenon DEF RegistryInv
  <2>11. dropped' = dropped \/ dropped' = dropped \cup {v}
    BY <2>5, Zenon DEF Evicting
  <2>12. \A id \in dropped' : id <= last_id'
    BY <2>4, <2>11
  <2>13. \A r \in Range(registry') : r.id \notin dropped'
    BY <2>2, <2>7, <2>11
  <2>14. ASSUME NEW u \in Tasks, pc'[u] \in Evicting
         PROVE  /\ pc'[u] = "waiting" => victim'[u] \in Ids \ dropped' /\ victim'[u] <= last_id'
                /\ pc'[u] = "unloading" => victim'[u] \in dropped'
    <3>1. u = t
      BY <2>5, <2>14, Zenon
    <3> QED
      BY <2>4, <2>5, <3>1, Zenon
  <2>15. DroppedInv'
    BY <2>12, <2>13, <2>14, SameRequests, Zenon DEF DroppedInv, Evicting
  <2> QED
    BY <2>10, <2>15
(* An unload has been started.                                             *)
<1>StartUnloadKeeps.
      ASSUME UpdateInv, workload' = workload, NEW t \in Tasks, Holds(t),
             NEW reg, Consistent(reg, loaded', last_id'), Len(reg) <= MaxLoaded + 1,
             NEW n, Registered(reg, n), StartUnload(t, reg, n),
             loaded' \subseteq LoRARef, last_id' \in last_id .. MaxId,
             \A r \in Range(reg) : r.id \notin dropped,
             t \in Requests => Registered(reg, Head(todo[t])) /\ n # Head(todo[t]),
             UNCHANGED <<counters, lock, todo, ids, known, running, owed>>
      PROVE  UpdateInv'
  <2> USE <1>StartUnloadKeeps
  <2>1. TypeOK /\ LockInv /\ TodoInv /\ RegistryInv /\ DroppedInv
    BY DEF UpdateInv
  <2>2. /\ \A u \in Tasks \ {t} : pc[u] \notin Evicting
        /\ t \in Unloads \/ t \in Requests
        /\ t \in Requests => todo[t] # <<>>
    BY <2>1, Zenon DEF Holds, Working, Evicting, Tasks, TodoInv
  <2>3. PICK ref \in Range(reg) : ref \in LoRARef /\ ref.id = IdOf(reg, n)
    BY IdIs DEF Consistent
  <2>4. IdOf(reg, n) \in Ids
    BY <2>3 DEF LoRARef
  <2>5. /\ victim' = [victim EXCEPT ![t] = IdOf(reg, n)]
        /\ dropped' \subseteq Ids
        /\ \E p \in Evicting : pc' = [pc EXCEPT ![t] = p]
    BY <2>1, <2>4, Zenon DEF StartUnload, Goto, Evicting, TypeOK
  <2>6. PICK p \in Evicting : pc' = [pc EXCEPT ![t] = p]
    BY <2>5, Zenon
  <2>7. p \in Working /\ p \in Updating /\ p \in Points
    BY DEF Evicting, Working, Updating, Points
  <2>8. pc' \in [Tasks -> Points] /\ \A u \in Tasks : pc'[u] = IF u = t THEN p ELSE pc[u]
    BY <2>1, <2>6, <2>7, Goes, Zenon
  <2>9. LockInv'
    BY <2>1, <2>6, <2>7, <1>Kept, Zenon
  <2>10. last_id' \in Int /\ last_id' \in 0 .. MaxId /\ \A id \in dropped : id <= last_id'
    <3>1. /\ last_id \in 0 .. MaxId /\ MaxId \in Nat /\ last_id' \in Int /\ last_id <= last_id'
          /\ dropped \subseteq Int
      BY Bounds, Numbers
    <3> QED
      BY <2>1, <3>1 DEF DroppedInv
  <2>11. RegistryInv' /\ DroppedInv'
    BY <2>1, <2>2, <2>10, <1>UnloadStarted, Zenon
  <2>12. victim' \in [Tasks -> Ids \cup {NoId}]
    BY <2>1, <2>4, <2>5, Zenon DEF TypeOK
  <2>13. TypeOK'
    <3>1. registry' \in Seq(LoRARef)
      BY <2>11 DEF RegistryInv, Sound
    <3> QED
      BY <2>1, <2>5, <2>8, <2>10, <2>12, <3>1, SameRequests, Zenon DEF TypeOK, Points
  <2>14. TodoInv'
    BY <2>1, <2>2, <2>8, SameRequests, RequestsAre, Zenon DEF TodoInv, Updating, Evicting, Tasks
  <2> QED
    BY <2>9, <2>11, <2>13, <2>14 DEF UpdateInv
<1>EvictKeeps.
      ASSUME UpdateInv, workload' = workload, NEW t \in Tasks, NEW reg, Answered(t, reg),
             Len(reg) <= MaxLoaded + 1, Len(reg) > MaxLoaded => reg[Len(reg)].name = Head(todo[t]),
             Evict(t, reg)
      PROVE  UpdateInv'
  <2> USE <1>EvictKeeps
  <2>1. Sound(reg) /\ Holds(t)
    BY DEF Answered, Consistent
  <2>2. CASE Len(reg) <= MaxLoaded /\ EndLoad(t, reg)
    BY <2>2, <1>EndLoadKeeps, Zenon
  <2>3. ASSUME NEW n, Registered(reg, n), n # Head(todo[t]), StartUnload(t, reg, n),
               UNCHANGED <<counters, lock, todo, ids, known>>
        PROVE  UpdateInv'
    BY <2>1, <2>3, <1>StartUnloadKeeps DEF Answered
  <2> QED
    BY <2>1, <2>2, <2>3, EvictIs, Zenon
(* An unload, or a request, starts.                                        *)
<1>UnloadKeeps.
      ASSUME UpdateInv, workload' = workload, NEW t \in Tasks, Unload(t)
      PROVE  UpdateInv'
  <2> USE <1>UnloadKeeps
  <2>1. TypeOK /\ LockInv /\ TodoInv /\ RegistryInv /\ DroppedInv
    BY DEF UpdateInv
  <2>2. /\ t \in Unloads /\ t \notin Requests /\ pc[t] = "queued" /\ Head(lock) = t
        /\ UNCHANGED <<counters, loaded, last_id, todo, ids, running, known, owed>>
    BY <2>1, RequestsAre, Zenon DEF Unload, useVars
  <2>3. Holds(t)
    BY <2>1, <2>2, Holder
  <2>4. CASE Registered(registry, Target[t])
    <3>1. StartUnload(t, registry, Target[t]) /\ lock' = lock
      BY <2>4, Zenon DEF Unload
    <3>2. Consistent(registry, loaded, last_id)
      <4>1. \A u \in Tasks : pc[u] \notin Evicting
        BY <2>2, <2>3, Zenon DEF Holds, Working, Evicting
      <4> QED
        BY <2>1, <4>1, NobodyUnloads
    <3>3. /\ Len(registry) <= MaxLoaded + 1 /\ loaded' \subseteq LoRARef
          /\ last_id' \in last_id .. MaxId
      <4>1. Len(registry) <= MaxLoaded /\ Len(registry) \in Nat /\ MaxLoaded \in Nat
        BY Bounds, Numbers
      <4>2. last_id \in 0 .. MaxId /\ MaxId \in Nat
        BY Bounds, Numbers
      <4> QED
        BY <2>1, <2>2, <4>1, <4>2 DEF TypeOK
    <3>4. Consistent(registry, loaded', last_id')
      BY <2>2, <3>2 DEF Consistent
    <3>5. \A r \in Range(registry) : r.id \notin dropped
      BY <2>1 DEF DroppedInv
    <3> QED
      BY <2>2, <2>3, <2>4, <3>1, <3>3, <3>4, <3>5, <1>StartUnloadKeeps, Zenon
  <2>5. CASE ~ Registered(registry, Target[t])
    <3>1. /\ pc' = [pc EXCEPT ![t] = "failed"] /\ lock' = Tail(lock)
          /\ registry' = registry /\ victim' = victim /\ dropped' = dropped
      BY <2>5 DEF Unload, Goto
    <3>2. pc' \in [Tasks -> Points] /\ \A u \in Tasks : pc'[u] = IF u = t THEN "failed" ELSE pc[u]
      BY <2>1, <3>1, Goes, Zenon DEF Points
    <3>3. LockInv' /\ lock' \in Seq(Tasks)
      <4>1. "failed" \notin Updating
        BY DEF Updating
      <4> QED
        BY <2>1, <2>3, <3>1, <4>1, <1>GivenUp, Zenon
    <3>4. RegistryInv' /\ DroppedInv'
      <4>1. Reordered(registry, registry')
        BY <2>1, <3>1, Zenon DEF Reordered, RegistryInv
      <4> QED
        BY <2>1, <2>2, <3>1, <3>2, <4>1, <1>LookedUp, Zenon DEF Evicting
    <3>5. TypeOK'
      BY <2>1, <2>2, <3>1, <3>2, <3>3, SameRequests DEF TypeOK, Points
    <3>6. TodoInv'
      BY <2>1, <2>2, <3>2, SameRequests, RequestsAre, Zenon DEF TodoInv, Updating
    <3> QED
      BY <3>3, <3>4, <3>5, <3>6 DEF UpdateInv
  <2> QED
    BY <2>4, <2>5
(* A load that failed leaves the registry alone.                           *)
<1>FailLoadKeeps.
      ASSUME UpdateInv, workload' = workload, NEW t \in Tasks, Holds(t), t \in Requests,
             pc[t] \notin Evicting, FailLoad(t, registry),
             UNCHANGED <<loaded, last_id, running, owed>>
      PROVE  UpdateInv'
  <2> USE <1>FailLoadKeeps
  <2>1. TypeOK /\ LockInv /\ TodoInv /\ RegistryInv /\ DroppedInv
    BY DEF UpdateInv
  <2>2. /\ pc' = [pc EXCEPT ![t] = "failed"] /\ known' = [known EXCEPT ![t] = {}]
        /\ lock' = Tail(lock) /\ registry' = registry /\ counters' = counters
        /\ dropped' = dropped /\ victim' = victim /\ todo' = todo /\ ids' = ids
    BY DEF FailLoad, Refuse, Goto
  <2>3. pc' \in [Tasks -> Points] /\ \A u \in Tasks : pc'[u] = IF u = t THEN "failed" ELSE pc[u]
    BY <2>1, <2>2, Goes, Zenon DEF Points
  <2>4. LockInv' /\ lock' \in Seq(Tasks)
    <3>1. "failed" \notin Updating
      BY Zenon DEF Updating
    <3> QED
      BY <2>1, <2>2, <3>1, <1>GivenUp, Zenon
  <2>5. RegistryInv' /\ DroppedInv'
    <3>1. Reordered(registry, registry')
      BY <2>1, <2>2 DEF Reordered, RegistryInv
    <3> QED
      BY <2>1, <2>2, <2>3, <3>1, <1>LookedUp, Zenon DEF Evicting
  <2>6. TypeOK'
    BY <2>1, <2>2, <2>3, <2>4, SameRequests, Zenon DEF TypeOK, Points
  <2>7. TodoInv'
    BY <2>1, <2>2, <2>3, SameRequests, RequestsAre, Zenon DEF TodoInv, Updating
  <2> QED
    BY <2>4, <2>5, <2>6, <2>7 DEF UpdateInv
<1>LoadDoneKeeps.
      ASSUME UpdateInv, workload' = workload, NEW t \in Tasks, LoadDone(t)
      PROVE  UpdateInv'
  <2> USE <1>LoadDoneKeeps
  <2> DEFINE ref == [name |-> Head(todo[t]), id |-> last_id + 1]
  <2>1. pc[t] = "loading" /\ running' = running /\ owed' = owed
    BY SMTT(20) DEF LoadDone
  <2>2. /\ t \in Requests /\ Holds(t) /\ pc[t] \notin Evicting
        /\ Consistent(registry, loaded, last_id)
    BY <2>1, Loading, Zenon
  <2>3. CASE /\ last_id < MaxId /\ ref.name \notin NamesOf(loaded)
             /\ loaded' = loaded \cup {ref} /\ last_id' = ref.id
             /\ Evict(t, Append(registry, ref))
    <3> HIDE DEF ref
    <3>1. /\ Answered(t, Append(registry, ref))
          /\ Len(Append(registry, ref)) <= MaxLoaded + 1
          /\ Append(registry, ref)[Len(Append(registry, ref))].name = Head(todo[t])
      BY <2>1, <2>3, NewAdapter, Zenon DEF ref
    <3> QED
      BY <2>3, <3>1, <1>EvictKeeps, Zenon
  <2>4. CASE /\ ref.name \in NamesOf(loaded) /\ Evict(t, registry)
             /\ loaded' = loaded /\ last_id' = last_id
    <3>1. /\ Len(registry) \in Nat /\ MaxLoaded \in Nat /\ Len(registry) <= MaxLoaded
          /\ last_id \in 0 .. MaxId /\ MaxId \in Nat /\ loaded \subseteq LoRARef
          /\ \A r \in Range(registry) : r.id \notin dropped
      BY Bounds, Numbers
    <3>2. Registered(registry, Head(todo[t]))
      BY <2>2, <2>4 DEF Registered, Consistent
    <3>3. Consistent(registry, loaded', last_id')
      BY <2>2, <2>4
    <3>4. last_id' \in last_id .. MaxId
      BY <2>4, <3>1
    <3>5. Answered(t, registry)
      BY <2>1, <2>2, <2>4, <3>1, <3>2, <3>3, <3>4 DEF Answered
    <3>6. Len(registry) <= MaxLoaded + 1 /\ ~ (Len(registry) > MaxLoaded)
      BY <3>1
    <3> QED
      BY <2>4, <3>5, <3>6, <1>EvictKeeps
  <2>5. CASE FailLoad(t, registry) /\ loaded' = loaded /\ last_id' = last_id
    BY <2>1, <2>2, <2>5, <1>FailLoadKeeps
  <2> QED
    BY <2>3, <2>4, <2>5, Zenon DEF LoadDone
(* The counter of an adapter has become zero.                              *)
<1>NoLongerUsedKeeps.
      ASSUME UpdateInv, workload' = workload, NEW t \in Tasks, NoLongerUsed(t)
      PROVE  UpdateInv'
  <2> USE <1>NoLongerUsedKeeps
  <2>1. TypeOK /\ LockInv /\ TodoInv /\ RegistryInv /\ DroppedInv
    BY DEF UpdateInv
  <2>2. /\ pc[t] = "waiting" /\ dropped' = dropped \cup {victim[t]}
        /\ pc' = [pc EXCEPT ![t] = "unloading"]
        /\ UNCHANGED <<registry, counters, loaded, last_id, lock, todo, victim, ids,
                       running, known, owed>>
    BY Zenon DEF NoLongerUsed, Goto, useVars
  <2>3. Holds(t)
    BY <2>1, <2>2, Holder DEF Working
  <2>4. pc' \in [Tasks -> Points] /\ \A u \in Tasks : pc'[u] = IF u = t THEN "unloading" ELSE pc[u]
    BY <2>1, <2>2, Goes, Zenon DEF Points
  <2>5. LockInv'
    BY <2>1, <2>2, <2>3, <1>Kept, Zenon DEF Working
  <2>6. \A u \in Tasks : pc'[u] \in Evicting <=> pc[u] \in Evicting
    BY <2>2, <2>4, Zenon DEF Evicting
  <2>7. Staying' = Staying
    BY <2>2, <2>6, SameRequests, Zenon DEF Staying
  <2>8. RegistryInv'
    <3>1. \A u \in Requests : u \in Tasks
      BY DEF Tasks
    <3> QED
      BY <2>1, <2>2, <2>6, <2>7, <3>1, SameRequests DEF RegistryInv
  <2>9. victim[t] \in Ids \ dropped
    BY <2>1, <2>2, Zenon DEF DroppedInv
  <2>10. DroppedInv'
    <3>1. \A r \in Range(registry) : r.id # victim[t]
      BY <2>1, <2>2 DEF RegistryInv, Staying, Evicting
    <3>2. victim[t] <= last_id
      BY <2>1, <2>2 DEF DroppedInv
    <3>3. \A u \in Tasks \ {t} : pc'[u] # "waiting" /\ pc'[u] # "unloading"
      BY <2>3, <2>4, Zenon DEF Holds, Working
    <3> QED
      BY <2>1, <2>2, <2>4, <3>1, <3>2, <3>3, SameRequests, Zenon DEF DroppedInv
  <2>11. TypeOK'
    BY <2>1, <2>2, <2>4, <2>9, SameRequests DEF TypeOK, Points
  <2>12. TodoInv'
    BY <2>1, <2>2, <2>4, SameRequests, RequestsAre, Zenon DEF TodoInv, Updating
  <2> QED
    BY <2>5, <2>8, <2>10, <2>11, <2>12 DEF UpdateInv
(* The backend has unloaded an adapter.                                    *)
<1>UnloadDoneKeeps.
      ASSUME UpdateInv, workload' = workload, NEW t \in Tasks, UnloadDone(t)
      PROVE  UpdateInv'
  <2> USE <1>UnloadDoneKeeps
  <2>1. TypeOK /\ LockInv /\ TodoInv /\ RegistryInv /\ DroppedInv
    BY DEF UpdateInv
  <2>2. /\ pc[t] = "unloading" /\ loaded' = {r \in loaded : r.id # victim[t]}
        /\ last_id' = last_id /\ running' = running /\ owed' = owed
    BY Zenon DEF UnloadDone
  <2>3. Holds(t)
    BY <2>1, <2>2, Holder, Zenon DEF Working
  <2>4. \A u \in Tasks \ {t} : pc[u] \notin Evicting
    BY <2>3 DEF Holds, Working, Evicting
  <2>5. Consistent(registry, loaded', last_id')
    <3>1. Staying = loaded'
      BY <2>2, <2>4, Zenon DEF Staying, Evicting
    <3> QED
      BY <2>1, <2>2, <3>1, Zenon DEF RegistryInv, Consistent
  <2>6. /\ Len(registry) \in Nat /\ MaxLoaded \in Nat /\ Len(registry) <= MaxLoaded
        /\ last_id \in 0 .. MaxId /\ MaxId \in Nat /\ loaded' \subseteq LoRARef
        /\ \A r \in Range(registry) : r.id \notin dropped
        /\ \A id \in dropped : id <= last_id
    BY <2>2, Bounds, Numbers
  <2>7. CASE t \in Unloads
    <3>1. /\ pc' = [pc EXCEPT ![t] = "done"] /\ lock' = Tail(lock)
          /\ UNCHANGED <<registry, counters, dropped, todo, victim, ids, known>>
      BY <2>7, Zenon DEF UnloadDone, Goto
    <3>2. pc' \in [Tasks -> Points] /\ \A u \in Tasks : pc'[u] = IF u = t THEN "done" ELSE pc[u]
      BY <2>1, <3>1, Goes, Zenon DEF Points
    <3>3. LockInv' /\ lock' \in Seq(Tasks)
      <4>1. "done" \notin Updating
        BY DEF Updating
      <4> QED
        BY <2>1, <2>3, <3>1, <4>1, <1>GivenUp, Zenon
    <3>4. RegistryInv' /\ DroppedInv'
      <4>1. \A u \in Tasks : pc'[u] \notin Evicting
        BY <2>4, <3>2 DEF Evicting
      <4>2. Reordered(registry, registry')
        BY <2>1, <3>1, Zenon DEF Reordered, RegistryInv
      <4> QED
        BY <2>2, <2>5, <2>6, <3>1, <4>1, <4>2, <1>Settled, Zenon
    <3>5. TypeOK'
      BY <2>1, <2>2, <2>6, <3>1, <3>2, <3>3, SameRequests DEF TypeOK, Points
    <3>6. TodoInv'
      BY <2>1, <2>7, <3>1, <3>2, SameRequests, RequestsAre, Zenon DEF TodoInv, Updating
    <3> QED
      BY <3>3, <3>4, <3>5, <3>6 DEF UpdateInv
  <2>8. CASE t \notin Unloads
    <3>1. t \in Requests /\ Evict(t, registry)
      BY <2>8, Zenon DEF UnloadDone, Tasks
    <3>2. Registered(registry, Head(todo[t]))
      BY <2>1, <2>2, <3>1, Zenon DEF RegistryInv, Evicting
    <3>3. last_id' \in last_id .. MaxId
      BY <2>2, Bounds, Zenon
    <3>4. Answered(t, registry)
      BY <2>2, <2>3, <2>5, <2>6, <3>1, <3>2, <3>3, Zenon DEF Answered
    <3>5. Len(registry) <= MaxLoaded + 1 /\ ~ (Len(registry) > MaxLoaded)
      BY Bounds, Zenon
    <3> QED
      BY <3>1, <3>4, <3>5, <1>EvictKeeps
  <2> QED
    BY <2>7, <2>8
(* A task queues for the lock, or gets it and asks the backend.            *)
<1>UnloadLoraAdapterKeeps.
      ASSUME UpdateInv, workload' = workload, NEW t \in Tasks, UnloadLoraAdapter(t)
      PROVE  UpdateInv'
  <2> USE <1>UnloadLoraAdapterKeeps
  <2>1. TypeOK /\ LockInv /\ TodoInv /\ RegistryInv /\ DroppedInv
    BY DEF UpdateInv
  <2>2. /\ t \in Unloads /\ t \notin Requests /\ pc[t] = "start"
        /\ lock' = Append(lock, t) /\ pc' = [pc EXCEPT ![t] = "queued"]
        /\ UNCHANGED <<registry, counters, dropped, loaded, last_id, todo, victim, ids,
                       running, known, owed>>
    BY <2>1, RequestsAre, Zenon DEF UnloadLoraAdapter, Goto, useVars
  <2>3. pc' \in [Tasks -> Points] /\ \A u \in Tasks : pc'[u] = IF u = t THEN "queued" ELSE pc[u]
    BY <2>1, <2>2, Goes, Zenon DEF Points
  <2>4. LockInv' /\ lock' \in Seq(Tasks)
    BY <2>1, <2>2, <1>Queued, Zenon DEF Updating
  <2>5. RegistryInv' /\ DroppedInv'
    <3>1. Reordered(registry, registry')
      BY <2>1, <2>2, Zenon DEF Reordered, RegistryInv
    <3> QED
      BY <2>1, <2>2, <2>3, <3>1, <1>LookedUp, Zenon DEF Evicting
  <2>6. TypeOK'
    BY <2>1, <2>2, <2>3, <2>4, SameRequests, Zenon DEF TypeOK, Points
  <2>7. TodoInv'
    BY <2>1, <2>2, <2>3, SameRequests, RequestsAre, Zenon DEF TodoInv, Updating
  <2> QED
    BY <2>4, <2>5, <2>6, <2>7 DEF UpdateInv
<1>StartLoadKeeps.
      ASSUME UpdateInv, workload' = workload, NEW t \in Tasks, StartLoad(t)
      PROVE  UpdateInv'
  <2> USE <1>StartLoadKeeps
  <2>1. TypeOK /\ LockInv /\ TodoInv /\ RegistryInv /\ DroppedInv
    BY DEF UpdateInv
  <2>2. /\ t \in Requests /\ t \notin Unloads /\ pc[t] = "queued" /\ Head(lock) = t
        /\ pc' = [pc EXCEPT ![t] = "loading"]
        /\ UNCHANGED <<registry, counters, dropped, loaded, last_id, lock, todo, victim, ids,
                       running, known, owed>>
    BY <2>1, RequestsAre DEF StartLoad, Goto, updateVars, useVars
  <2>3. pc' \in [Tasks -> Points] /\ \A u \in Tasks : pc'[u] = IF u = t THEN "loading" ELSE pc[u]
    BY <2>1, <2>2, Goes, Zenon DEF Points
  <2>4. LockInv'
    <3>1. Holds(t)
      BY <2>1, <2>2, Holder, Zenon
    <3> QED
      BY <2>1, <2>2, <3>1, <1>Kept, Zenon DEF Working
  <2>5. RegistryInv' /\ DroppedInv'
    <3>1. Reordered(registry, registry')
      BY <2>1, <2>2, Zenon DEF Reordered, RegistryInv
    <3> QED
      BY <2>1, <2>2, <2>3, <3>1, <1>LookedUp DEF Evicting
  <2>6. TypeOK'
    BY <2>1, <2>2, <2>3, SameRequests, Zenon DEF TypeOK, Points
  <2>7. TodoInv'
    BY <2>1, <2>2, <2>3, SameRequests, RequestsAre DEF TodoInv, Updating
  <2> QED
    BY <2>4, <2>5, <2>6, <2>7, Zenon DEF UpdateInv
(* The life of an admitted request does not touch the registry.            *)
<1>ElsewhereKeeps.
      ASSUME UpdateInv, Elsewhere
      PROVE  UpdateInv'
  <2> USE <1>ElsewhereKeeps DEF Elsewhere
  <2>1. TypeOK /\ LockInv /\ TodoInv /\ RegistryInv /\ DroppedInv
    BY DEF UpdateInv
  <2>2. LockInv'
    BY <2>1, <1>NotConcerned, Zenon DEF Updating
  <2>3. RegistryInv' /\ DroppedInv'
    <3>1. Reordered(registry, registry')
      BY <2>1, Zenon DEF Reordered, RegistryInv
    <3> QED
      BY <2>1, <3>1, <1>LookedUp DEF Evicting
  <2>4. TypeOK'
    BY <2>1, SameRequests DEF TypeOK, Points
  <2>5. TodoInv'
    BY <2>1, SameRequests, RequestsAre, Zenon DEF TodoInv, Updating
  <2> QED
    BY <2>2, <2>3, <2>4, <2>5 DEF UpdateInv
<1>1. ASSUME UpdateInv, workload' = workload, NEW t \in Tasks, Updates(t) PROVE UpdateInv'
  BY <1>1, <1>ResolveKeeps, <1>UnloadLoraAdapterKeeps, <1>StartLoadKeeps, <1>UnloadKeeps,
     <1>LoadDoneKeeps, <1>NoLongerUsedKeeps, <1>UnloadDoneKeeps, Zenon DEF Updates
<1> QED
  BY <1>1, <1>ElsewhereKeeps
============================================================================
