-------------------------- MODULE InputPathProofs ---------------------------
(***************************************************************************)
(* Proofs about InputPath, for any number of acts, batches and sessions:   *)
(* what is injected is what the user did.  Coalescing and injecting go     *)
(* through a sequence of events, so what they do is proved by induction    *)
(* over its places, from the well-foundedness of < on Nat.                 *)
(***************************************************************************)
EXTENDS InputPath, FiniteSetTheorems, WellFoundedInduction, TLAPS

\* Induction over the natural numbers, for a set.
LEMMA SetInduction ==
    ASSUME NEW S, 0 \in S, \A n \in Nat : n \in S => n + 1 \in S
    PROVE  Nat \subseteq S
<1> DEFINE T == Nat \ S
           R == {p \in Nat \X Nat : p[1] < p[2]}
<1> SUFFICES ASSUME T # {} PROVE FALSE
  OBVIOUS
<1>1. IsWellFoundedOn(R, Nat)
  BY NatLessThanWellFounded DEF OpToRel
<1>2. \A x, y \in Nat : x < y => <<x, y>> \in R
  OBVIOUS
<1> HIDE DEF R
<1>3. PICK x \in T : \A y \in T : ~(<<y, x>> \in R)
  BY <1>1, WFMin
<1>4. x # 0 /\ x - 1 \in Nat /\ x - 1 < x
  OBVIOUS
<1>5. x - 1 \notin T
  BY <1>2, <1>3, <1>4
<1> QED BY <1>4, <1>5

\* A function begins with s and goes on by a step; two functions go on alike.
GoesBy(g, s, step, n) == g[0] = s /\ \A i \in 1 .. n : g[i] = step[<<g[i - 1], i>>]
GoAlike(f, g, n) == f[0] = g[0] /\ \A i \in 1 .. n : f[i - 1] = g[i - 1] => f[i] = g[i]

\* A function that is given at 0 and from each place to the next exists.
LEMMA Recursion ==
    ASSUME NEW X, NEW n \in Nat, NEW s \in X, NEW step \in [X \X (1 .. n) -> X]
    PROVE  \E g \in [0 .. n -> X] : GoesBy(g, s, step, n)
<1> DEFINE S == {m \in Nat : m <= n => \E g \in [0 .. m -> X] : GoesBy(g, s, step, m)}
<1>1. 0 \in S
  <2>1. [i \in 0 .. 0 |-> s] \in [0 .. 0 -> X] /\ GoesBy([i \in 0 .. 0 |-> s], s, step, 0)
    BY DEF GoesBy
  <2> QED BY <2>1
<1>2. ASSUME NEW m \in Nat, m \in S PROVE m + 1 \in S
  <2> SUFFICES ASSUME m + 1 <= n
               PROVE  \E g \in [0 .. m + 1 -> X] : GoesBy(g, s, step, m + 1)
    OBVIOUS
  <2>1. PICK g \in [0 .. m -> X] : GoesBy(g, s, step, m)
    BY <1>2
  <2> DEFINE h == [i \in 0 .. m + 1 |-> IF i <= m THEN g[i] ELSE step[<<g[m], m + 1>>]]
  <2>2. m + 1 \in 1 .. n /\ g[m] \in X
    OBVIOUS
  <2>3. step[<<g[m], m + 1>>] \in X
    BY <2>2
  <2>4. h \in [0 .. m + 1 -> X]
    BY <2>3
  <2>5. h[0] = s
    BY <2>1 DEF GoesBy
  <2>6. ASSUME NEW i \in 1 .. m + 1 PROVE h[i] = step[<<h[i - 1], i>>]
    <3>1. CASE i <= m
      BY <2>1, <3>1 DEF GoesBy
    <3>2. CASE i = m + 1
      BY <3>2
    <3> QED BY <3>1, <3>2
  <2> HIDE DEF h
  <2> QED BY <2>4, <2>5, <2>6 DEF GoesBy
<1>3. n \in S
  <2> HIDE DEF S
  <2> QED BY <1>1, <1>2, SetInduction
<1> QED BY <1>3

LEMMA SameFunction ==
    ASSUME NEW S, NEW f, NEW g, f = [i \in S |-> f[i]], g = [i \in S |-> g[i]],
           \A i \in S : f[i] = g[i]
    PROVE  f = g
OBVIOUS

\* Two functions that go on alike from place to place, from one beginning, agree.
LEMMA Agreement ==
    ASSUME NEW n \in Nat, NEW f, NEW g, GoAlike(f, g, n)
    PROVE  \A i \in 0 .. n : f[i] = g[i]
<1> DEFINE S == {m \in Nat : m <= n => f[m] = g[m]}
<1>1. 0 \in S
  BY DEF GoAlike
<1>2. ASSUME NEW m \in Nat, m \in S PROVE m + 1 \in S
  <2> SUFFICES ASSUME m + 1 <= n PROVE f[m + 1] = g[m + 1]
    OBVIOUS
  <2>1. m + 1 \in 1 .. n /\ (m + 1) - 1 = m /\ f[m] = g[m]
    BY <1>2
  <2> QED BY <2>1 DEF GoAlike
<1> HIDE DEF S
<1>3. Nat \subseteq S
  BY <1>1, <1>2, SetInduction
<1> QED BY <1>3 DEF S

----------------------------------------------------------------------------
(* What goes through the injector *)

Touched == Buttons \cup Keys \cup {"none"}
Making == [out : Seq(InputEvent), hover : Seq(InputEvent), n : Nat]
Injected == [cursor : Spots \cup {NoSpot}, mods : SUBSET Modifiers, pressed : SUBSET Touched]

Fresh(n) == [out |-> << >>, hover |-> << >>, n |-> n]
Coalescing(n, b) == Through(CoalesceOne, Fresh(n), b)
Applying(s, b) == Through(Applied, s, b)

KeepOwed(kept, e, drags) ==
    IF e.kind # "move" \/ (drags /\ IsDrag(e)) THEN Append(kept, e) ELSE kept
Owing(b, drags) == LET Keep(kept, e) == KeepOwed(kept, e, drags) IN Through(Keep, << >>, b)

LEMMA CoalesceType ==
    ASSUME NEW m \in Making, NEW e \in InputEvent
    PROVE  CoalesceOne(m, e) \in Making
<1>1. /\ m.out \in Seq(InputEvent) /\ m.hover \in Seq(InputEvent) /\ m.n \in Nat
      /\ HeldAfter(m.n, e) \in Nat
  BY DEF Making, HeldAfter, InputEvent
<1>2. /\ Append(m.out, e) \in Seq(InputEvent) /\ <<e>> \in Seq(InputEvent) /\ << >> \in Seq(InputEvent)
      /\ m.out \o m.hover \o <<e>> \in Seq(InputEvent)
  BY <1>1
<1>3. CASE e.kind = "move" /\ m.n > 0
  BY <1>1, <1>2, <1>3 DEF CoalesceOne, Making
<1>4. CASE e.kind = "move" /\ ~(m.n > 0)
  BY <1>1, <1>2, <1>4 DEF CoalesceOne, Making
<1>5. CASE e.kind # "move"
  BY <1>1, <1>2, <1>5 DEF CoalesceOne, Making
<1> QED BY <1>3, <1>4, <1>5

LEMMA AppliedType ==
    ASSUME NEW s \in Injected, NEW e \in InputEvent
    PROVE  Applied(s, e) \in Injected
<1> DEFINE held == IF e.what \notin Modifiers THEN s.mods
                   ELSE IF e.down THEN s.mods \cup {e.what} ELSE s.mods \ {e.what}
           keys == IF e.down THEN s.pressed \cup {e.what} ELSE s.pressed \ {e.what}
<1>1. held \in SUBSET Modifiers
  BY DEF Injected
<1>2. CASE e.kind = "move"
  BY <1>2 DEF Applied, Injected, InputEvent
<1>3. CASE e.kind = "key" /\ held = {} /\ e.what \in Printables
  BY <1>1, <1>3 DEF Applied, Injected
<1>4. CASE e.kind = "key" /\ ~(held = {} /\ e.what \in Printables)
  <2>1. keys \in SUBSET Touched
    BY DEF Injected, InputEvent, Touched
  <2>2. Applied(s, e) = [s EXCEPT !.mods = held, !.pressed = keys]
    BY <1>4 DEF Applied
  <2> QED BY <1>1, <2>1, <2>2 DEF Injected
<1>5. CASE e.kind # "move" /\ e.kind # "key"
  BY <1>5 DEF Applied
<1> QED BY <1>2, <1>3, <1>4, <1>5

\* The three ways through a sequence of events, from place to place.
LEMMA CoalescingSteps ==
    ASSUME NEW b \in Seq(InputEvent), NEW n \in Nat
    PROVE  /\ Coalescing(n, b) \in [0 .. Len(b) -> Making] /\ Coalescing(n, b)[0] = Fresh(n)
           /\ \A i \in 1 .. Len(b) :
                 Coalescing(n, b)[i] = CoalesceOne(Coalescing(n, b)[i - 1], b[i])
<1> DEFINE step == [p \in Making \X (1 .. Len(b)) |-> CoalesceOne(p[1], b[p[2]])]
<1>1. Fresh(n) \in Making /\ Len(b) \in Nat
  BY DEF Fresh, Making
<1>2. step \in [Making \X (1 .. Len(b)) -> Making]
  BY CoalesceType
<1>3. \A m \in Making, i \in 1 .. Len(b) : step[<<m, i>>] = CoalesceOne(m, b[i])
  OBVIOUS
<1> HIDE DEF step
<1>4. PICK g \in [0 .. Len(b) -> Making] :
         GoesBy(g, Fresh(n), step, Len(b))
  BY <1>1, <1>2, Recursion, Zenon
<1> DEFINE G(f) == [i \in 0 .. Len(b) |-> IF i = 0 THEN Fresh(n) ELSE CoalesceOne(f[i - 1], b[i])]
           F == CHOOSE f : f = G(f)
<1>5. \A i \in 1 .. Len(b) : i - 1 \in 0 .. Len(b) /\ g[i] = CoalesceOne(g[i - 1], b[i])
  BY <1>1, <1>3, <1>4 DEF GoesBy
<1>6. g = G(g)
  <2>1. \A i \in 0 .. Len(b) : G(g)[i] = g[i]
    BY <1>1, <1>4, <1>5 DEF GoesBy
  <2>2. G(g) = [i \in 0 .. Len(b) |-> G(g)[i]]
    OBVIOUS
  <2> HIDE DEF G
  <2> QED BY <2>1, <2>2, SameFunction
<1>7. F = G(F)
  <2> HIDE DEF G
  <2> QED BY <1>6, Zenon
<1>8. Coalescing(n, b) = F
  BY DEF Coalescing, Through
<1> HIDE DEF F
<1>9. F[0] = Fresh(n) /\ \A i \in 1 .. Len(b) : F[i] = CoalesceOne(F[i - 1], b[i])
  BY <1>1, <1>7
<1>10. \A i \in 0 .. Len(b) : F[i] = g[i]
  <2>1. GoAlike(F, g, Len(b))
    BY <1>4, <1>5, <1>9 DEF GoesBy, GoAlike
  <2> QED BY <1>1, <2>1, Agreement
<1>11. F = g
  <2>1. F = [i \in 0 .. Len(b) |-> F[i]]
    BY <1>7
  <2> QED BY <1>10, <2>1, SameFunction
<1> QED BY <1>4, <1>8, <1>9, <1>11

LEMMA ApplyingSteps ==
    ASSUME NEW b \in Seq(InputEvent), NEW s \in Injected
    PROVE  /\ Applying(s, b) \in [0 .. Len(b) -> Injected] /\ Applying(s, b)[0] = s
           /\ \A i \in 1 .. Len(b) :
                 Applying(s, b)[i] = Applied(Applying(s, b)[i - 1], b[i])
<1> DEFINE step == [p \in Injected \X (1 .. Len(b)) |-> Applied(p[1], b[p[2]])]
<1>1. s \in Injected /\ Len(b) \in Nat
  OBVIOUS
<1>2. step \in [Injected \X (1 .. Len(b)) -> Injected]
  BY AppliedType
<1>3. \A m \in Injected, i \in 1 .. Len(b) : step[<<m, i>>] = Applied(m, b[i])
  OBVIOUS
<1> HIDE DEF step
<1>4. PICK g \in [0 .. Len(b) -> Injected] :
         GoesBy(g, s, step, Len(b))
  BY <1>1, <1>2, Recursion, Zenon
<1> DEFINE G(f) == [i \in 0 .. Len(b) |-> IF i = 0 THEN s ELSE Applied(f[i - 1], b[i])]
           F == CHOOSE f : f = G(f)
<1>5. \A i \in 1 .. Len(b) : i - 1 \in 0 .. Len(b) /\ g[i] = Applied(g[i - 1], b[i])
  BY <1>1, <1>3, <1>4 DEF GoesBy
<1>6. g = G(g)
  <2>1. \A i \in 0 .. Len(b) : G(g)[i] = g[i]
    BY <1>1, <1>4, <1>5 DEF GoesBy
  <2>2. G(g) = [i \in 0 .. Len(b) |-> G(g)[i]]
    OBVIOUS
  <2> HIDE DEF G
  <2> QED BY <2>1, <2>2, SameFunction
<1>7. F = G(F)
  <2> HIDE DEF G
  <2> QED BY <1>6, Zenon
<1>8. Applying(s, b) = F
  BY DEF Applying, Through
<1> HIDE DEF F
<1>9. F[0] = s /\ \A i \in 1 .. Len(b) : F[i] = Applied(F[i - 1], b[i])
  BY <1>1, <1>7
<1>10. \A i \in 0 .. Len(b) : F[i] = g[i]
  <2>1. GoAlike(F, g, Len(b))
    BY <1>4, <1>5, <1>9 DEF GoesBy, GoAlike
  <2> QED BY <1>1, <2>1, Agreement
<1>11. F = g
  <2>1. F = [i \in 0 .. Len(b) |-> F[i]]
    BY <1>7
  <2> QED BY <1>10, <2>1, SameFunction
<1> QED BY <1>4, <1>8, <1>9, <1>11

LEMMA OwedType ==
    ASSUME NEW kept \in Seq(InputEvent), NEW e \in InputEvent, NEW drags \in BOOLEAN
    PROVE  KeepOwed(kept, e, drags) \in Seq(InputEvent)
BY DEF KeepOwed

LEMMA OwingSteps ==
    ASSUME NEW b \in Seq(InputEvent), NEW drags \in BOOLEAN
    PROVE  /\ Owing(b, drags) \in [0 .. Len(b) -> Seq(InputEvent)] /\ Owing(b, drags)[0] = << >>
           /\ \A i \in 1 .. Len(b) :
                 Owing(b, drags)[i] = KeepOwed(Owing(b, drags)[i - 1], b[i], drags)
<1> DEFINE step == [p \in Seq(InputEvent) \X (1 .. Len(b)) |-> KeepOwed(p[1], b[p[2]], drags)]
<1>1. << >> \in Seq(InputEvent) /\ Len(b) \in Nat
  OBVIOUS
<1>2. step \in [Seq(InputEvent) \X (1 .. Len(b)) -> Seq(InputEvent)]
  <2>1. \A m \in Seq(InputEvent), i \in 1 .. Len(b) : KeepOwed(m, b[i], drags) \in Seq(InputEvent)
    BY OwedType
  <2> QED BY <2>1
<1>3. \A m \in Seq(InputEvent), i \in 1 .. Len(b) : step[<<m, i>>] = KeepOwed(m, b[i], drags)
  OBVIOUS
<1> HIDE DEF step
<1>4. PICK g \in [0 .. Len(b) -> Seq(InputEvent)] :
         GoesBy(g, << >>, step, Len(b))
  BY <1>1, <1>2, Recursion, Zenon
<1> DEFINE G(f) == [i \in 0 .. Len(b) |-> IF i = 0 THEN << >> ELSE KeepOwed(f[i - 1], b[i], drags)]
           F == CHOOSE f : f = G(f)
<1>5. \A i \in 1 .. Len(b) : i - 1 \in 0 .. Len(b) /\ g[i] = KeepOwed(g[i - 1], b[i], drags)
  <2>1. \A i \in 1 .. Len(b) : i - 1 \in 0 .. Len(b) /\ g[i] = step[<<g[i - 1], i>>]
    BY <1>1, <1>4 DEF GoesBy
  <2>2. \A i \in 0 .. Len(b) : g[i] \in Seq(InputEvent)
    OBVIOUS
  <2> QED BY <1>3, <2>1, <2>2
<1>6. g = G(g)
  <2>1. \A i \in 0 .. Len(b) : G(g)[i] = g[i]
    BY <1>1, <1>4, <1>5 DEF GoesBy
  <2>2. G(g) = [i \in 0 .. Len(b) |-> G(g)[i]]
    OBVIOUS
  <2> HIDE DEF G
  <2> QED BY <2>1, <2>2, SameFunction
<1>7. F = G(F)
  <2> HIDE DEF G
  <2> QED BY <1>6, Zenon
<1>8. Owing(b, drags) = F
  BY DEF Owing, Through
<1> HIDE DEF F
<1>9. F[0] = << >> /\ \A i \in 1 .. Len(b) : F[i] = KeepOwed(F[i - 1], b[i], drags)
  BY <1>1, <1>7
<1>10. \A i \in 0 .. Len(b) : F[i] = g[i]
  <2>1. GoAlike(F, g, Len(b))
    BY <1>4, <1>5, <1>9 DEF GoesBy, GoAlike
  <2> QED BY <1>1, <2>1, Agreement
<1>11. F = g
  <2>1. F = [i \in 0 .. Len(b) |-> F[i]]
    BY <1>7
  <2> QED BY <1>10, <2>1, SameFunction
<1> QED BY <1>4, <1>8, <1>9, <1>11

\* b is how c begins; c is what follows the first k of b.
Begins(b, c) == Len(b) <= Len(c) /\ \A i \in 1 .. Len(b) : c[i] = b[i]
Follows(c, b, k) == Len(c) = Len(b) - k /\ \A j \in 1 .. Len(c) : c[j] = b[k + j]

\* What begins alike goes alike, and what is left after some events goes on from them.
LEMMA ApplyingPrefix ==
    ASSUME NEW b \in Seq(InputEvent), NEW c \in Seq(InputEvent), NEW s \in Injected,
           Begins(b, c)
    PROVE  \A i \in 0 .. Len(b) : Applying(s, c)[i] = Applying(s, b)[i]
<1> DEFINE f == Applying(s, c)
           g == Applying(s, b)
<1>1. /\ f[0] = s /\ \A i \in 1 .. Len(c) : f[i] = Applied(f[i - 1], c[i])
      /\ g[0] = s /\ \A i \in 1 .. Len(b) : g[i] = Applied(g[i - 1], b[i])
  BY ApplyingSteps
<1> HIDE DEF f, g
<1>2. GoAlike(f, g, Len(b))
  BY <1>1 DEF GoAlike, Begins
<1>3. \A i \in 0 .. Len(b) : f[i] = g[i]
  BY <1>2, Agreement
<1> QED BY <1>3 DEF f, g

LEMMA CoalescingPrefix ==
    ASSUME NEW b \in Seq(InputEvent), NEW c \in Seq(InputEvent), NEW n \in Nat,
           Begins(b, c)
    PROVE  \A i \in 0 .. Len(b) : Coalescing(n, c)[i] = Coalescing(n, b)[i]
<1> DEFINE f == Coalescing(n, c)
           g == Coalescing(n, b)
<1>1. /\ f[0] = Fresh(n) /\ \A i \in 1 .. Len(c) : f[i] = CoalesceOne(f[i - 1], c[i])
      /\ g[0] = Fresh(n) /\ \A i \in 1 .. Len(b) : g[i] = CoalesceOne(g[i - 1], b[i])
  BY CoalescingSteps
<1> HIDE DEF f, g
<1>2. GoAlike(f, g, Len(b))
  BY <1>1 DEF GoAlike, Begins
<1>3. \A i \in 0 .. Len(b) : f[i] = g[i]
  BY <1>2, Agreement
<1> QED BY <1>3 DEF f, g

LEMMA OwingPrefix ==
    ASSUME NEW b \in Seq(InputEvent), NEW c \in Seq(InputEvent), NEW drags \in BOOLEAN,
           Begins(b, c)
    PROVE  \A i \in 0 .. Len(b) : Owing(c, drags)[i] = Owing(b, drags)[i]
<1> DEFINE f == Owing(c, drags)
           g == Owing(b, drags)
<1>1. /\ f[0] = << >> /\ \A i \in 1 .. Len(c) : f[i] = KeepOwed(f[i - 1], c[i], drags)
      /\ g[0] = << >> /\ \A i \in 1 .. Len(b) : g[i] = KeepOwed(g[i - 1], b[i], drags)
  BY OwingSteps
<1> HIDE DEF f, g
<1>2. GoAlike(f, g, Len(b))
  BY <1>1 DEF GoAlike, Begins
<1>3. \A i \in 0 .. Len(b) : f[i] = g[i]
  BY <1>2, Agreement
<1> QED BY <1>3 DEF f, g

LEMMA ApplyingRest ==
    ASSUME NEW b \in Seq(InputEvent), NEW s \in Injected, NEW k \in 0 .. Len(b),
           NEW c \in Seq(InputEvent), Follows(c, b, k)
    PROVE  \A j \in 0 .. Len(c) : Applying(Applying(s, b)[k], c)[j] = Applying(s, b)[k + j]
<1> DEFINE f == Applying(s, b)
           r == Applying(f[k], c)
           g == [j \in 0 .. Len(c) |-> f[k + j]]
<1>1. f \in [0 .. Len(b) -> Injected] /\ \A i \in 1 .. Len(b) : f[i] = Applied(f[i - 1], b[i])
  BY ApplyingSteps
<1>2. f[k] \in Injected
  BY <1>1
<1>3. r[0] = f[k] /\ \A i \in 1 .. Len(c) : r[i] = Applied(r[i - 1], c[i])
  BY <1>2, ApplyingSteps
<1> HIDE DEF f, r
<1>4. GoAlike(r, g, Len(c))
  <2>1. r[0] = g[0]
    BY <1>3
  <2>2. ASSUME NEW j \in 1 .. Len(c), r[j - 1] = g[j - 1] PROVE r[j] = g[j]
    <3>1. k + j \in 1 .. Len(b) /\ (k + j) - 1 = k + (j - 1) /\ j - 1 \in 0 .. Len(c)
      BY DEF Follows
    <3>2. f[k + j] = Applied(f[k + (j - 1)], b[k + j])
      BY <1>1, <3>1
    <3> QED BY <1>3, <2>2, <3>1, <3>2 DEF Follows
  <2> QED BY <2>1, <2>2 DEF GoAlike
<1> HIDE DEF g
<1>5. \A j \in 0 .. Len(c) : r[j] = g[j]
  BY <1>4, Agreement
<1> QED BY <1>5 DEF f, r, g

LEMMA CoalesceCount ==
    ASSUME NEW m \in Making, NEW e \in InputEvent
    PROVE  CoalesceOne(m, e).n = HeldAfter(m.n, e)
<1>1. CASE e.kind = "move" /\ m.n > 0
  BY <1>1 DEF CoalesceOne, HeldAfter, Making
<1>2. CASE e.kind = "move" /\ ~(m.n > 0)
  BY <1>2 DEF CoalesceOne, HeldAfter, Making
<1>3. CASE e.kind # "move"
  BY <1>3 DEF CoalesceOne, HeldAfter, Making
<1> QED BY <1>1, <1>2, <1>3

LEMMA CountRest ==
    ASSUME NEW b \in Seq(InputEvent), NEW n \in Nat, NEW k \in 0 .. Len(b),
           NEW c \in Seq(InputEvent), Follows(c, b, k)
    PROVE  \A j \in 0 .. Len(c) :
              Coalescing(Coalescing(n, b)[k].n, c)[j].n = Coalescing(n, b)[k + j].n
<1> DEFINE h == Coalescing(n, b)
           r == Coalescing(h[k].n, c)
           f == [j \in 0 .. Len(c) |-> r[j].n]
           g == [j \in 0 .. Len(c) |-> h[k + j].n]
<1>1. /\ h \in [0 .. Len(b) -> Making]
      /\ \A i \in 1 .. Len(b) : h[i] = CoalesceOne(h[i - 1], b[i])
  BY CoalescingSteps
<1>2. h[k].n \in Nat
  BY <1>1 DEF Making
<1>3. /\ r \in [0 .. Len(c) -> Making] /\ r[0] = Fresh(h[k].n)
      /\ \A i \in 1 .. Len(c) : r[i] = CoalesceOne(r[i - 1], c[i])
  BY <1>2, CoalescingSteps
<1> HIDE DEF h, r
<1>4. GoAlike(f, g, Len(c))
  <2>1. f[0] = g[0]
    BY <1>3 DEF Fresh
  <2>2. ASSUME NEW j \in 1 .. Len(c), f[j - 1] = g[j - 1] PROVE f[j] = g[j]
    <3>1. k + j \in 1 .. Len(b) /\ (k + j) - 1 = k + (j - 1) /\ j - 1 \in 0 .. Len(c)
          /\ k + (j - 1) \in 0 .. Len(b) /\ j \in 0 .. Len(c)
      BY DEF Follows
    <3>2. h[k + j] = CoalesceOne(h[k + (j - 1)], b[k + j]) /\ r[j] = CoalesceOne(r[j - 1], c[j])
      BY <1>1, <1>3, <3>1
    <3>3. h[k + (j - 1)] \in Making /\ r[j - 1] \in Making /\ b[k + j] = c[j] /\ c[j] \in InputEvent
      <4>1. h[k + (j - 1)] \in Making /\ r[j - 1] \in Making /\ c[j] \in InputEvent
        BY <1>1, <1>3, <3>1
      <4> QED BY <4>1 DEF Follows
    <3>4. h[k + j].n = HeldAfter(h[k + (j - 1)].n, c[j]) /\ r[j].n = HeldAfter(r[j - 1].n, c[j])
      BY <3>2, <3>3, CoalesceCount
    <3> QED BY <2>2, <3>1, <3>4
  <2> QED BY <2>1, <2>2 DEF GoAlike
<1> HIDE DEF f, g
<1>5. \A j \in 0 .. Len(c) : f[j] = g[j]
  BY <1>4, Agreement
<1> QED BY <1>5 DEF h, r, f, g

----------------------------------------------------------------------------
(* One more event *)

ApplyAll(s, b) == Applying(s, b)[Len(b)]
OwedOf(b, drags) == Owing(b, drags)[Len(b)]

\* A button goes down or up where the pointer then is; a drag counts as one.
ClicksAt(b, s) ==
    \A i \in DOMAIN b : b[i].kind = "button" => b[i].at = Applying(s, b)[i - 1].cursor
DragsHeld(b, n) ==
    \A i \in DOMAIN b : IsDrag(b[i]) => Coalescing(n, b)[i - 1].n > 0

LEMMA EventAppended ==
    ASSUME NEW b \in Seq(InputEvent), NEW e \in InputEvent
    PROVE  /\ Append(b, e) \in Seq(InputEvent) /\ Len(b) \in Nat /\ Len(Append(b, e)) = Len(b) + 1
           /\ DOMAIN b = 1 .. Len(b) /\ DOMAIN Append(b, e) = 1 .. Len(b) + 1
           /\ \A i \in 1 .. Len(b) : Append(b, e)[i] = b[i]
           /\ Append(b, e)[Len(b) + 1] = e
OBVIOUS

LEMMA ApplyAllType ==
    ASSUME NEW b \in Seq(InputEvent), NEW s \in Injected
    PROVE  /\ ApplyAll(s, b) \in Injected
           /\ \A i \in 0 .. Len(b) : Applying(s, b)[i] \in Injected
<1>1. Applying(s, b) \in [0 .. Len(b) -> Injected] /\ Len(b) \in Nat
  BY ApplyingSteps
<1> QED BY <1>1 DEF ApplyAll

LEMMA ApplyingOneMore ==
    ASSUME NEW b \in Seq(InputEvent), NEW e \in InputEvent, NEW s \in Injected
    PROVE  /\ \A i \in 0 .. Len(b) : Applying(s, Append(b, e))[i] = Applying(s, b)[i]
           /\ ApplyAll(s, Append(b, e)) = Applied(ApplyAll(s, b), e)
<1> SUFFICES ASSUME NEW c, c = Append(b, e)
             PROVE  /\ \A i \in 0 .. Len(b) : Applying(s, c)[i] = Applying(s, b)[i]
                    /\ ApplyAll(s, c) = Applied(ApplyAll(s, b), e)
  OBVIOUS
<1>1. /\ c \in Seq(InputEvent) /\ Len(b) \in Nat /\ Len(c) = Len(b) + 1
      /\ \A i \in 1 .. Len(b) : c[i] = b[i]
      /\ c[Len(b) + 1] = e
  BY EventAppended
<1>2. \A i \in 0 .. Len(b) : Applying(s, c)[i] = Applying(s, b)[i]
  <2>1. Begins(b, c)
    BY <1>1 DEF Begins
  <2> QED BY <1>1, <2>1, ApplyingPrefix
<1>3. \A i \in 1 .. Len(c) : Applying(s, c)[i] = Applied(Applying(s, c)[i - 1], c[i])
  BY <1>1, ApplyingSteps
<1>4. Applying(s, c)[Len(b) + 1] = Applied(Applying(s, c)[Len(b)], e)
  BY <1>1, <1>3
<1> QED BY <1>1, <1>2, <1>4 DEF ApplyAll

LEMMA OwingOneMore ==
    ASSUME NEW b \in Seq(InputEvent), NEW e \in InputEvent, NEW drags \in BOOLEAN
    PROVE  OwedOf(Append(b, e), drags) = KeepOwed(OwedOf(b, drags), e, drags)
<1> SUFFICES ASSUME NEW c, c = Append(b, e)
             PROVE  OwedOf(c, drags) = KeepOwed(OwedOf(b, drags), e, drags)
  OBVIOUS
<1>1. /\ c \in Seq(InputEvent) /\ Len(b) \in Nat /\ Len(c) = Len(b) + 1
      /\ \A i \in 1 .. Len(b) : c[i] = b[i]
      /\ c[Len(b) + 1] = e
  BY EventAppended
<1>2. \A i \in 0 .. Len(b) : Owing(c, drags)[i] = Owing(b, drags)[i]
  <2>1. Begins(b, c)
    BY <1>1 DEF Begins
  <2> QED BY <1>1, <2>1, OwingPrefix
<1>3. \A i \in 1 .. Len(c) : Owing(c, drags)[i] = KeepOwed(Owing(c, drags)[i - 1], c[i], drags)
  BY <1>1, OwingSteps
<1>4. Owing(c, drags)[Len(b) + 1] = KeepOwed(Owing(c, drags)[Len(b)], e, drags)
  BY <1>1, <1>3
<1> QED BY <1>1, <1>2, <1>4 DEF OwedOf

LEMMA CountOneMore ==
    ASSUME NEW b \in Seq(InputEvent), NEW e \in InputEvent, NEW n \in Nat
    PROVE  /\ \A i \in 0 .. Len(b) : Coalescing(n, Append(b, e))[i] = Coalescing(n, b)[i]
           /\ Coalescing(n, Append(b, e))[Len(b) + 1].n = HeldAfter(Coalescing(n, b)[Len(b)].n, e)
<1> SUFFICES ASSUME NEW c, c = Append(b, e)
             PROVE  /\ \A i \in 0 .. Len(b) : Coalescing(n, c)[i] = Coalescing(n, b)[i]
                    /\ Coalescing(n, c)[Len(b) + 1].n = HeldAfter(Coalescing(n, b)[Len(b)].n, e)
  OBVIOUS
<1>1. /\ c \in Seq(InputEvent) /\ Len(b) \in Nat /\ Len(c) = Len(b) + 1
      /\ \A i \in 1 .. Len(b) : c[i] = b[i]
      /\ c[Len(b) + 1] = e
  BY EventAppended
<1>2. \A i \in 0 .. Len(b) : Coalescing(n, c)[i] = Coalescing(n, b)[i]
  <2>1. Begins(b, c)
    BY <1>1 DEF Begins
  <2> QED BY <1>1, <2>1, CoalescingPrefix
<1>3. \A i \in 1 .. Len(c) : Coalescing(n, c)[i] = CoalesceOne(Coalescing(n, c)[i - 1], c[i])
  BY <1>1, CoalescingSteps
<1>4. Coalescing(n, c)[Len(b) + 1] = CoalesceOne(Coalescing(n, b)[Len(b)], e)
  BY <1>1, <1>2, <1>3
<1>5. Coalescing(n, b)[Len(b)] \in Making
  BY <1>1, CoalescingSteps
<1> QED BY <1>2, <1>4, <1>5, CoalesceCount

LEMMA ClicksOneMore ==
    ASSUME NEW b \in Seq(InputEvent), NEW e \in InputEvent, NEW s \in Injected
    PROVE  /\ ClicksAt(Append(b, e), s) => ClicksAt(b, s)
           /\ ClicksAt(b, s) /\ (e.kind = "button" => e.at = ApplyAll(s, b).cursor)
                 => ClicksAt(Append(b, e), s)
<1> SUFFICES ASSUME NEW c, c = Append(b, e)
             PROVE  /\ ClicksAt(c, s) => ClicksAt(b, s)
                    /\ ClicksAt(b, s) /\ (e.kind = "button" => e.at = ApplyAll(s, b).cursor)
                           => ClicksAt(c, s)
  OBVIOUS
<1>1. /\ DOMAIN b = 1 .. Len(b) /\ DOMAIN c = 1 .. Len(b) + 1 /\ Len(b) \in Nat
      /\ \A i \in 1 .. Len(b) : c[i] = b[i]
      /\ c[Len(b) + 1] = e
  BY EventAppended
<1>2. \A i \in 0 .. Len(b) : Applying(s, c)[i] = Applying(s, b)[i]
  BY ApplyingOneMore
<1>3. \A i \in 1 .. Len(b) : c[i].at = Applying(s, c)[i - 1].cursor
                               <=> b[i].at = Applying(s, b)[i - 1].cursor
  BY <1>1, <1>2
<1>4. Applying(s, c)[(Len(b) + 1) - 1] = ApplyAll(s, b)
  BY <1>1, <1>2 DEF ApplyAll
<1>5. ClicksAt(c, s) => ClicksAt(b, s)
  BY <1>1, <1>3 DEF ClicksAt
<1>6. ASSUME ClicksAt(b, s), e.kind = "button" => e.at = ApplyAll(s, b).cursor,
             NEW i \in DOMAIN c, c[i].kind = "button"
      PROVE  c[i].at = Applying(s, c)[i - 1].cursor
  <2>1. CASE i \in 1 .. Len(b)
    BY <1>1, <1>3, <1>6, <2>1 DEF ClicksAt
  <2>2. CASE i = Len(b) + 1
    BY <1>1, <1>4, <1>6, <2>2
  <2> QED BY <1>1, <2>1, <2>2
<1> QED BY <1>5, <1>6 DEF ClicksAt

LEMMA DragsOneMore ==
    ASSUME NEW b \in Seq(InputEvent), NEW e \in InputEvent, NEW n \in Nat,
           DragsHeld(b, n), IsDrag(e) => Coalescing(n, b)[Len(b)].n > 0
    PROVE  DragsHeld(Append(b, e), n)
<1> SUFFICES ASSUME NEW c, c = Append(b, e) PROVE DragsHeld(c, n)
  OBVIOUS
<1>1. /\ DOMAIN b = 1 .. Len(b) /\ DOMAIN c = 1 .. Len(b) + 1 /\ Len(b) \in Nat
      /\ \A i \in 1 .. Len(b) : c[i] = b[i]
      /\ c[Len(b) + 1] = e
  BY EventAppended
<1>2. \A i \in 0 .. Len(b) : Coalescing(n, c)[i] = Coalescing(n, b)[i]
  BY CountOneMore
<1>3. ASSUME NEW i \in DOMAIN c, IsDrag(c[i])
      PROVE  Coalescing(n, c)[i - 1].n > 0
  <2>1. CASE i \in 1 .. Len(b)
    BY <1>1, <1>2, <1>3, <2>1 DEF DragsHeld
  <2>2. CASE i = Len(b) + 1
    BY <1>1, <1>2, <1>3, <2>2
  <2> QED BY <1>1, <2>1, <2>2
<1> QED BY <1>3 DEF DragsHeld

----------------------------------------------------------------------------
(* What coalescing makes of a batch *)

Full(m) == m.out \o m.hover
IsHover(m, e, drags) == m.hover = <<e>> /\ e.kind = "move" /\ m.n = 0 /\ (drags => ~e.drag)

\* After the first i events: what is kept has done what all of them would do, owes
\* what all of them owe, and lands its clicks.
AtPlace(b, n, s, drags, i) ==
    LET m == Coalescing(n, b)[i] IN
    /\ m.hover = << >> \/ \E e \in InputEvent : IsHover(m, e, drags)
    /\ ApplyAll(s, Full(m)) = Applying(s, b)[i]
    /\ OwedOf(Full(m), drags) = Owing(b, drags)[i]
    /\ ClicksAt(Full(m), s)

LEMMA MovesOver ==
    ASSUME NEW s \in Injected, NEW d \in InputEvent, NEW e \in InputEvent,
           d.kind = "move", e.kind = "move"
    PROVE  Applied(Applied(s, d), e) = Applied(s, e)
<1>1. Applied(s, d) = [s EXCEPT !.cursor = d.at] /\ Applied(s, e) = [s EXCEPT !.cursor = e.at]
      /\ Applied(Applied(s, d), e) = [Applied(s, d) EXCEPT !.cursor = e.at]
  BY DEF Applied
<1> QED BY <1>1 DEF Injected

\* What one event makes of what is kept.
LEMMA CoalesceDrag ==
    ASSUME NEW m \in Making, NEW e \in InputEvent, e.kind = "move", m.n > 0
    PROVE  /\ CoalesceOne(m, e).out = Append(m.out, e)
           /\ CoalesceOne(m, e).hover = m.hover /\ CoalesceOne(m, e).n = m.n
<1>1. m.n \in Nat /\ m.out \in Seq(InputEvent) /\ m.hover \in Seq(InputEvent)
  BY DEF Making
<1> QED BY <1>1 DEF CoalesceOne, Making

LEMMA CoalesceHover ==
    ASSUME NEW m \in Making, NEW e \in InputEvent, e.kind = "move", ~(m.n > 0)
    PROVE  /\ CoalesceOne(m, e).out = m.out
           /\ CoalesceOne(m, e).hover = <<e>> /\ CoalesceOne(m, e).n = m.n
<1>1. m.n \in Nat /\ m.out \in Seq(InputEvent) /\ m.hover \in Seq(InputEvent)
  BY DEF Making
<1> QED BY <1>1 DEF CoalesceOne, Making

LEMMA CoalesceOther ==
    ASSUME NEW m \in Making, NEW e \in InputEvent, e.kind # "move"
    PROVE  CoalesceOne(m, e).out = Append(Full(m), e) /\ CoalesceOne(m, e).hover = << >>
<1>1. m.n \in Nat /\ m.out \in Seq(InputEvent) /\ m.hover \in Seq(InputEvent)
  BY DEF Making
<1>2. CoalesceOne(m, e).out = m.out \o m.hover \o <<e>> /\ CoalesceOne(m, e).hover = << >>
  BY DEF CoalesceOne
<1>3. Full(m) \in Seq(InputEvent) /\ m.out \o m.hover \o <<e>> = Full(m) \o <<e>>
  BY <1>1 DEF Full
<1>4. Full(m) \o <<e>> = Append(Full(m), e)
  BY <1>3
<1> QED BY <1>2, <1>3, <1>4

LEMMA PlaceStep ==
    ASSUME NEW b \in Seq(InputEvent), NEW n \in Nat, NEW s \in Injected, NEW drags \in BOOLEAN,
           ClicksAt(b, s), drags => DragsHeld(b, n),
           NEW i \in 1 .. Len(b), AtPlace(b, n, s, drags, i - 1)
    PROVE  AtPlace(b, n, s, drags, i)
<1> PICK e \in InputEvent : e = b[i]
  OBVIOUS
<1> PICK m \in Making : m = Coalescing(n, b)[i - 1]
  <2>1. Coalescing(n, b) \in [0 .. Len(b) -> Making] /\ i - 1 \in 0 .. Len(b)
    BY CoalescingSteps
  <2> QED BY <2>1
<1> PICK q \in Making : q = Coalescing(n, b)[i]
  <2>1. Coalescing(n, b) \in [0 .. Len(b) -> Making] /\ i \in 0 .. Len(b)
    BY CoalescingSteps
  <2> QED BY <2>1
<1>1. /\ q = CoalesceOne(m, e) /\ Applying(s, b)[i] = Applied(Applying(s, b)[i - 1], e)
      /\ Owing(b, drags)[i] = KeepOwed(Owing(b, drags)[i - 1], e, drags)
  BY CoalescingSteps, ApplyingSteps, OwingSteps
<1>2. /\ m.hover = << >> \/ \E d \in InputEvent : IsHover(m, d, drags)
      /\ ApplyAll(s, Full(m)) = Applying(s, b)[i - 1]
      /\ OwedOf(Full(m), drags) = Owing(b, drags)[i - 1]
      /\ ClicksAt(Full(m), s)
  BY DEF AtPlace
<1>3. /\ m.out \in Seq(InputEvent) /\ m.hover \in Seq(InputEvent) /\ m.n \in Nat
      /\ Full(m) \in Seq(InputEvent)
  BY DEF Making, Full
<1>4. e.kind = "button" => e.at = ApplyAll(s, Full(m)).cursor
  <2>1. i \in DOMAIN b
    OBVIOUS
  <2> QED BY <1>2, <2>1 DEF ClicksAt
<1>5. drags /\ IsDrag(e) => m.n > 0
  BY DEF DragsHeld
<1>6. ASSUME Full(q) = Append(Full(m), e)
      PROVE  /\ ApplyAll(s, Full(q)) = Applying(s, b)[i]
             /\ OwedOf(Full(q), drags) = Owing(b, drags)[i]
             /\ ClicksAt(Full(q), s)
  <2>1. ApplyAll(s, Full(q)) = Applied(ApplyAll(s, Full(m)), e)
    BY <1>3, <1>6, ApplyingOneMore
  <2>2. OwedOf(Full(q), drags) = KeepOwed(OwedOf(Full(m), drags), e, drags)
    BY <1>3, <1>6, OwingOneMore
  <2>3. ClicksAt(Full(q), s)
    BY <1>2, <1>3, <1>4, <1>6, ClicksOneMore
  <2> QED BY <1>1, <1>2, <2>1, <2>2, <2>3
<1>7. CASE e.kind = "move" /\ m.n > 0
  <2>1. m.hover = << >>
    BY <1>2, <1>3, <1>7 DEF IsHover
  <2>3. q.out = Append(m.out, e) /\ q.hover = << >>
    BY <1>1, <1>7, <2>1, CoalesceDrag
  <2>4. Full(q) = Append(Full(m), e)
    BY <1>3, <2>1, <2>3 DEF Full
  <2> QED BY <1>6, <2>3, <2>4 DEF AtPlace
<1>8. CASE e.kind # "move"
  <2>1. q.out = Append(Full(m), e) /\ q.hover = << >> /\ q.out \in Seq(InputEvent)
    <3>1. q.out = Append(Full(m), e) /\ q.hover = << >>
      BY <1>1, <1>8, CoalesceOther
    <3>2. q.out \in Seq(InputEvent)
      BY DEF Making
    <3> QED BY <3>1, <3>2
  <2>2. Full(q) = Append(Full(m), e) /\ q.hover = << >>
    BY <2>1 DEF Full
  <2> QED BY <1>6, <2>2 DEF AtPlace
<1>9. CASE e.kind = "move" /\ ~(m.n > 0)
  <2>1. q.out = m.out /\ q.hover = <<e>> /\ q.n = m.n
    BY <1>1, <1>9, CoalesceHover
  <2>2. q.out = m.out /\ q.hover = <<e>> /\ q.n = 0 /\ Full(q) = Append(m.out, e)
    BY <1>3, <1>9, <2>1 DEF Full
  <2>3. IsHover(q, e, drags)
    BY <1>5, <1>9, <2>2 DEF IsHover, IsDrag
  <2>4. KeepOwed(Owing(b, drags)[i - 1], e, drags) = Owing(b, drags)[i - 1]
    BY <1>5, <1>9 DEF KeepOwed
  <2>5. CASE m.hover = << >>
    <3>1. Full(m) = m.out
      BY <1>3, <2>5 DEF Full
    <3> QED BY <1>6, <2>2, <2>3, <3>1 DEF AtPlace
  <2>6. ASSUME NEW d \in InputEvent, IsHover(m, d, drags) PROVE AtPlace(b, n, s, drags, i)
    <3>1. d.kind = "move" /\ (drags => ~d.drag) /\ Full(m) = Append(m.out, d)
      BY <1>3, <2>6 DEF IsHover, Full
    <3>2. ApplyAll(s, m.out) \in Injected
      BY <1>3, ApplyAllType
    <3>3. ApplyAll(s, Full(q)) = Applied(ApplyAll(s, m.out), e)
          /\ ApplyAll(s, Full(m)) = Applied(ApplyAll(s, m.out), d)
      BY <1>3, <2>2, <3>1, ApplyingOneMore
    <3>4. ApplyAll(s, Full(q)) = Applying(s, b)[i]
      BY <1>1, <1>2, <1>9, <3>1, <3>2, <3>3, MovesOver
    <3>5. OwedOf(Full(q), drags) = KeepOwed(OwedOf(m.out, drags), e, drags)
          /\ OwedOf(Full(m), drags) = KeepOwed(OwedOf(m.out, drags), d, drags)
      BY <1>3, <2>2, <3>1, OwingOneMore
    <3>6. OwedOf(Full(q), drags) = Owing(b, drags)[i]
      <4>1. OwedOf(Full(q), drags) = OwedOf(m.out, drags)
        BY <1>5, <1>9, <3>5 DEF KeepOwed
      <4>2. OwedOf(Full(m), drags) = OwedOf(m.out, drags)
        BY <3>1, <3>5 DEF KeepOwed, IsDrag
      <4> QED BY <1>1, <1>2, <2>4, <4>1, <4>2
    <3>7. ClicksAt(m.out, s)
      BY <1>2, <1>3, <3>1, ClicksOneMore
    <3>8. ClicksAt(Full(q), s)
      BY <1>3, <1>9, <2>2, <3>7, ClicksOneMore
    <3> QED BY <2>3, <3>4, <3>6, <3>8 DEF AtPlace
  <2> QED BY <1>2, <2>5, <2>6
<1> QED BY <1>7, <1>8, <1>9

LEMMA AtEveryPlace ==
    ASSUME NEW b \in Seq(InputEvent), NEW n \in Nat, NEW s \in Injected, NEW drags \in BOOLEAN,
           ClicksAt(b, s), drags => DragsHeld(b, n)
    PROVE  AtPlace(b, n, s, drags, Len(b))
<1> DEFINE S == {i \in Nat : i <= Len(b) => AtPlace(b, n, s, drags, i)}
<1>1. 0 \in S
  <2>1. Coalescing(n, b)[0] = Fresh(n) /\ Applying(s, b)[0] = s /\ Owing(b, drags)[0] = << >>
    BY CoalescingSteps, ApplyingSteps, OwingSteps
  <2>2. Fresh(n).hover = << >> /\ Full(Fresh(n)) = << >> /\ << >> \in Seq(InputEvent)
    BY DEF Fresh, Full
  <2>3. ApplyAll(s, << >>) = s /\ OwedOf(<< >>, drags) = << >>
    BY <2>2, ApplyingSteps, OwingSteps DEF ApplyAll, OwedOf
  <2>4. ClicksAt(<< >>, s)
    BY DEF ClicksAt
  <2>5. AtPlace(b, n, s, drags, 0)
    BY <2>1, <2>2, <2>3, <2>4 DEF AtPlace
  <2> QED BY <2>5
<1>2. ASSUME NEW i \in Nat, i \in S PROVE i + 1 \in S
  <2> SUFFICES ASSUME i + 1 <= Len(b) PROVE AtPlace(b, n, s, drags, i + 1)
    OBVIOUS
  <2>1. i + 1 \in 1 .. Len(b) /\ AtPlace(b, n, s, drags, (i + 1) - 1)
    BY <1>2
  <2> QED BY <2>1, PlaceStep
<1> HIDE DEF S
<1>3. Len(b) \in S
  BY <1>1, <1>2, SetInduction
<1> QED BY <1>3 DEF S

\* What is made of a batch does what the batch would do, owes what it owes, lands its
\* clicks, and leaves the number of buttons the batch leaves.
LEMMA CoalescedFacts ==
    ASSUME NEW b \in Seq(InputEvent), NEW n \in Nat, NEW s \in Injected, NEW drags \in BOOLEAN,
           ClicksAt(b, s), drags => DragsHeld(b, n)
    PROVE  /\ Coalesced(b, n).out \in Seq(InputEvent)
           /\ Coalesced(b, n).n = Coalescing(n, b)[Len(b)].n
           /\ ApplyAll(s, Coalesced(b, n).out) = ApplyAll(s, b)
           /\ OwedOf(Coalesced(b, n).out, drags) = OwedOf(b, drags)
           /\ ClicksAt(Coalesced(b, n).out, s)
<1> DEFINE m == Coalescing(n, b)[Len(b)]
<1>1. m \in Making
  BY CoalescingSteps
<1>2. Coalesced(b, n) = [out |-> Full(m), n |-> m.n]
  BY DEF Coalesced, Coalescing, Fresh, Full
<1>3. Full(m) \in Seq(InputEvent)
  BY <1>1 DEF Making, Full
<1>4. /\ ApplyAll(s, Full(m)) = Applying(s, b)[Len(b)]
      /\ OwedOf(Full(m), drags) = Owing(b, drags)[Len(b)]
      /\ ClicksAt(Full(m), s)
  BY AtEveryPlace DEF AtPlace
<1> QED BY <1>2, <1>3, <1>4 DEF ApplyAll, OwedOf

----------------------------------------------------------------------------
(* What is on its way *)

HeldThen(n, b) == Coalescing(n, b)[Len(b)].n

\* The queue b of an injector in state s with n buttons, of a user whose fingers are on
\* f and whose presses that have come are h.
Coming(b, s, n, f, h, o, away) ==
    /\ away \/ ApplyAll(s, b).mods = f \cap Modifiers
    /\ ClicksAt(b, s)
    /\ o \/ (DragsHeld(b, n) /\ HeldThen(n, b) >= Cardinality(h))

InputTypes ==
    /\ ime \in BOOLEAN /\ serving \in BOOLEAN /\ odd \in BOOLEAN /\ missed \in BOOLEAN
    /\ fingers \subseteq Keys \cup Buttons
    /\ inbox \in Seq(InputEvent) /\ buttonsDown \in Nat /\ Injector \in Injected
    /\ holding \subseteq Buttons /\ IsFiniteSet(holding)

InputInv ==
    /\ InputTypes
    /\ Coming(inbox, Injector, buttonsDown, fingers, holding, odd, missed)

LEMMA AppliedFacts ==
    ASSUME NEW s \in Injected, NEW e \in InputEvent
    PROVE  /\ Applied(s, e).cursor = IF e.kind = "move" THEN e.at ELSE s.cursor
           /\ Applied(s, e).mods = IF e.kind # "key" \/ e.what \notin Modifiers THEN s.mods
                                   ELSE IF e.down THEN s.mods \cup {e.what} ELSE s.mods \ {e.what}
<1> DEFINE held == IF e.what \notin Modifiers THEN s.mods
                   ELSE IF e.down THEN s.mods \cup {e.what} ELSE s.mods \ {e.what}
           keys == IF e.down THEN s.pressed \cup {e.what} ELSE s.pressed \ {e.what}
<1>1. CASE e.kind = "move"
  BY <1>1 DEF Applied, Injected
<1>2. CASE e.kind = "key" /\ held = {} /\ e.what \in Printables
  <2>1. Applied(s, e) = [s EXCEPT !.mods = held]
    BY <1>2 DEF Applied
  <2>2. Applied(s, e).mods = held /\ Applied(s, e).cursor = s.cursor
    BY <2>1 DEF Injected
  <2> QED BY <1>2, <2>2
<1>3. CASE e.kind = "key" /\ ~(held = {} /\ e.what \in Printables)
  <2>1. Applied(s, e) = [s EXCEPT !.mods = held, !.pressed = keys]
    BY <1>3 DEF Applied
  <2>2. Applied(s, e).mods = held /\ Applied(s, e).cursor = s.cursor
    BY <2>1 DEF Injected
  <2> QED BY <1>3, <2>2
<1>4. CASE e.kind # "move" /\ e.kind # "key"
  BY <1>4 DEF Applied
<1> QED BY <1>1, <1>2, <1>3, <1>4

LEMMA HeldType ==
    ASSUME NEW b \in Seq(InputEvent), NEW n \in Nat
    PROVE  /\ HeldThen(n, b) \in Nat /\ \A i \in 0 .. Len(b) : Coalescing(n, b)[i].n \in Nat
<1>1. Coalescing(n, b) \in [0 .. Len(b) -> Making] /\ Len(b) \in Nat
  BY CoalescingSteps
<1>2. \A i \in 0 .. Len(b) : Coalescing(n, b)[i] \in Making
  BY <1>1
<1> QED BY <1>1, <1>2 DEF Making, HeldThen

\* One more event comes: what it does to the modifiers, and what it needs.
LEMMA OneMoreComes ==
    ASSUME NEW b \in Seq(InputEvent), NEW s \in Injected, NEW n \in Nat, NEW e \in InputEvent,
           NEW f, NEW h, NEW o, NEW away, Coming(b, s, n, f, h, o, away),
           NEW g, NEW k, NEW p, NEW gone,
           e.kind = "button" => e.at = ApplyAll(s, b).cursor,
           \/ gone
           \/ /\ ~away
              /\ g \cap Modifiers =
                    IF e.kind # "key" \/ e.what \notin Modifiers THEN f \cap Modifiers
                    ELSE IF e.down THEN (f \cap Modifiers) \cup {e.what}
                    ELSE (f \cap Modifiers) \ {e.what},
           \/ p
           \/ ~o /\ (IsDrag(e) => HeldThen(n, b) > 0) /\ HeldAfter(HeldThen(n, b), e) >= Cardinality(k)
    PROVE  Coming(Append(b, e), s, n, g, k, p, gone)
<1>1. ClicksAt(Append(b, e), s)
  BY ClicksOneMore DEF Coming
<1>2. gone \/ ApplyAll(s, Append(b, e)).mods = g \cap Modifiers
  <2>1. ApplyAll(s, Append(b, e)) = Applied(ApplyAll(s, b), e) /\ ApplyAll(s, b) \in Injected
    BY ApplyingOneMore, ApplyAllType
  <2>2. ~away => ApplyAll(s, b).mods = f \cap Modifiers
    BY DEF Coming
  <2> QED BY <2>1, <2>2, AppliedFacts
<1>3. p \/ (DragsHeld(Append(b, e), n) /\ HeldThen(n, Append(b, e)) >= Cardinality(k))
  <2> SUFFICES ASSUME ~p PROVE DragsHeld(Append(b, e), n) /\ HeldThen(n, Append(b, e)) >= Cardinality(k)
    OBVIOUS
  <2>1. DragsHeld(b, n) /\ (IsDrag(e) => HeldThen(n, b) > 0)
    BY DEF Coming
  <2>2. DragsHeld(Append(b, e), n)
    BY <2>1, DragsOneMore DEF HeldThen
  <2>3. Len(Append(b, e)) = Len(b) + 1
    BY EventAppended
  <2>4. HeldThen(n, Append(b, e)) = HeldAfter(HeldThen(n, b), e)
    BY <2>3, CountOneMore DEF HeldThen
  <2> QED BY <2>2, <2>4
<1> QED BY <1>1, <1>2, <1>3 DEF Coming

LEMMA MoveComes ==
    ASSUME NEW b \in Seq(InputEvent), NEW s \in Injected, NEW n \in Nat,
           NEW e \in InputEvent, e.kind = "move",
           NEW f, NEW h, IsFiniteSet(h), e.drag = (h # {}),
           NEW o, NEW away, Coming(b, s, n, f, h, o, away)
    PROVE  /\ Coming(Append(b, e), s, n, f, h, o, away)
           /\ ApplyAll(s, Append(b, e)).cursor = e.at
<1>2. ~o => /\ IsDrag(e) => HeldThen(n, b) > 0
            /\ HeldAfter(HeldThen(n, b), e) >= Cardinality(h)
  <2> SUFFICES ASSUME ~o PROVE /\ IsDrag(e) => HeldThen(n, b) > 0
                               /\ HeldAfter(HeldThen(n, b), e) >= Cardinality(h)
    OBVIOUS
  <2>1. HeldThen(n, b) >= Cardinality(h) /\ HeldThen(n, b) \in Nat
    BY HeldType DEF Coming
  <2>2. HeldAfter(HeldThen(n, b), e) = HeldThen(n, b)
    BY DEF HeldAfter
  <2>3. IsDrag(e) => Cardinality(h) \in Nat /\ Cardinality(h) > 0
    <3>1. IsDrag(e) => h # {}
      BY Zenon DEF IsDrag
    <3>2. Cardinality(h) \in Nat /\ (h # {} => Cardinality(h) # 0)
      BY FS_CardinalityType, FS_EmptySet
    <3> QED BY <3>1, <3>2
  <2> QED BY <2>1, <2>2, <2>3
<1>3. Coming(Append(b, e), s, n, f, h, o, away)
  BY <1>2, OneMoreComes
<1>4. ApplyAll(s, Append(b, e)).cursor = e.at
  <2>1. ApplyAll(s, b) \in Injected /\ ApplyAll(s, Append(b, e)) = Applied(ApplyAll(s, b), e)
    BY ApplyingOneMore, ApplyAllType
  <2>2. Applied(ApplyAll(s, b), e).cursor = e.at
    BY <2>1, AppliedFacts
  <2> QED BY <2>1, <2>2
<1> QED BY <1>3, <1>4

HoldingAfter(h, e) == IF e.down THEN h \cup {e.what} ELSE h \ {e.what}
OddAfter(o, h, e) == o \/ (~e.down /\ e.what \notin h /\ h # {})

\* A button goes down or up where the move before it went.
LEMMA ButtonComes ==
    ASSUME NEW b \in Seq(InputEvent), NEW s \in Injected, NEW n \in Nat,
           NEW e \in InputEvent, e.kind = "button", e.at = ApplyAll(s, b).cursor,
           NEW f, NEW h, IsFiniteSet(h), NEW o \in BOOLEAN, NEW away, Coming(b, s, n, f, h, o, away),
           NEW g, g \cap Modifiers = f \cap Modifiers
    PROVE  Coming(Append(b, e), s, n, g, HoldingAfter(h, e), OddAfter(o, h, e), away)
<1> PICK k : k = HoldingAfter(h, e)
  OBVIOUS
<1> PICK p : p = OddAfter(o, h, e)
  OBVIOUS
<1>2. HeldThen(n, b) \in Nat /\ Cardinality(h) \in Nat /\ (o \/ HeldThen(n, b) >= Cardinality(h))
  BY HeldType, FS_CardinalityType DEF Coming
<1>3. ~p => HeldAfter(HeldThen(n, b), e) >= Cardinality(k)
  <2> SUFFICES ASSUME ~p PROVE HeldAfter(HeldThen(n, b), e) >= Cardinality(k)
    OBVIOUS
  <2>1. ~o /\ (e.down \/ e.what \in h \/ h = {})
    BY Zenon DEF OddAfter
  <2>2. CASE e.down
    <3>1. Cardinality(k) = Cardinality(h) \/ Cardinality(k) = Cardinality(h) + 1
      BY <2>2, FS_AddElement DEF HoldingAfter
    <3>2. HeldAfter(HeldThen(n, b), e) = HeldThen(n, b) + 1
      BY <2>2 DEF HeldAfter
    <3> QED BY <1>2, <2>1, <3>1, <3>2
  <2>3. CASE ~e.down /\ e.what \in h
    <3>1. Cardinality(k) = Cardinality(h) - 1
      BY <2>3, FS_RemoveElement DEF HoldingAfter
    <3>2. HeldAfter(HeldThen(n, b), e) = IF HeldThen(n, b) > 0 THEN HeldThen(n, b) - 1 ELSE 0
      BY <2>3 DEF HeldAfter
    <3> QED BY <1>2, <2>1, <3>1, <3>2
  <2>4. CASE ~e.down /\ h = {}
    <3>1. Cardinality(k) = 0
      BY <2>4, FS_EmptySet DEF HoldingAfter
    <3>2. HeldAfter(HeldThen(n, b), e) = IF HeldThen(n, b) > 0 THEN HeldThen(n, b) - 1 ELSE 0
      BY <2>4 DEF HeldAfter
    <3> QED BY <1>2, <3>1, <3>2
  <2> QED BY <2>1, <2>2, <2>3, <2>4
<1>4. ~IsDrag(e) /\ (~p => ~o)
  BY Zenon DEF IsDrag, OddAfter
<1>5. away \/ g \cap Modifiers = IF e.kind # "key" \/ e.what \notin Modifiers THEN f \cap Modifiers
                    ELSE IF e.down THEN (f \cap Modifiers) \cup {e.what}
                    ELSE (f \cap Modifiers) \ {e.what}
  OBVIOUS
<1>6. Coming(Append(b, e), s, n, g, k, p, away)
  BY <1>3, <1>4, <1>5, OneMoreComes
<1> QED BY <1>6

\* A key, or the text it stands for.
LEMMA KeyComes ==
    ASSUME NEW b \in Seq(InputEvent), NEW s \in Injected, NEW n \in Nat,
           NEW e \in InputEvent, e.kind \in {"key", "text"}, ~e.drag,
           NEW f, NEW h, IsFiniteSet(h), NEW o, NEW away, Coming(b, s, n, f, h, o, away),
           NEW g,
           g \cap Modifiers = IF e.kind # "key" \/ e.what \notin Modifiers THEN f \cap Modifiers
                              ELSE IF e.down THEN (f \cap Modifiers) \cup {e.what}
                              ELSE (f \cap Modifiers) \ {e.what}
    PROVE  Coming(Append(b, e), s, n, g, h, o, away)
<1>1. HeldThen(n, b) \in Nat /\ Cardinality(h) \in Nat /\ (o \/ HeldThen(n, b) >= Cardinality(h))
  BY HeldType, FS_CardinalityType DEF Coming
<1>2. HeldAfter(HeldThen(n, b), e) = HeldThen(n, b) /\ ~IsDrag(e) /\ e.kind # "button"
  BY DEF HeldAfter, IsDrag
<1>3. o \/ (~o /\ (IsDrag(e) => HeldThen(n, b) > 0) /\ HeldAfter(HeldThen(n, b), e) >= Cardinality(h))
  BY <1>1, <1>2
<1> QED BY <1>2, <1>3, OneMoreComes

\* The first events are injected: what is left is of the injector as it is after them.
LEMMA RestComes ==
    ASSUME NEW b \in Seq(InputEvent), NEW s \in Injected, NEW n \in Nat, NEW k \in 0 .. Len(b),
           NEW c \in Seq(InputEvent), Follows(c, b, k),
           NEW f, NEW h, NEW o, NEW away, Coming(b, s, n, f, h, o, away)
    PROVE  Coming(c, Applying(s, b)[k], Coalescing(n, b)[k].n, f, h, o, away)
<1> PICK t : t = Applying(s, b)[k]
  OBVIOUS
<1> PICK m : m = Coalescing(n, b)[k].n
  OBVIOUS
<1>1. /\ Len(c) \in Nat /\ DOMAIN c = 1 .. Len(c) /\ k + Len(c) = Len(b)
      /\ DOMAIN b = 1 .. Len(b)
      /\ \A i \in 1 .. Len(c) : /\ c[i] = b[k + i] /\ k + i \in 1 .. Len(b)
                                /\ i - 1 \in 0 .. Len(c) /\ k + (i - 1) = (k + i) - 1
  BY DEF Follows
<1>2. \A j \in 0 .. Len(c) : Applying(t, c)[j] = Applying(s, b)[k + j]
  BY ApplyingRest
<1>3. \A j \in 0 .. Len(c) : Coalescing(m, c)[j].n = Coalescing(n, b)[k + j].n
  BY CountRest
<1>4. ApplyAll(t, c) = ApplyAll(s, b) /\ HeldThen(m, c) = HeldThen(n, b)
  <2>1. Len(c) \in 0 .. Len(c)
    BY <1>1
  <2>2. Applying(t, c)[Len(c)] = Applying(s, b)[Len(b)]
        /\ Coalescing(m, c)[Len(c)].n = Coalescing(n, b)[Len(b)].n
    BY <1>1, <1>2, <1>3, <2>1
  <2> QED BY <2>2 DEF ApplyAll, HeldThen
<1>5. ClicksAt(b, s) => ClicksAt(c, t)
  <2> SUFFICES ASSUME ClicksAt(b, s), NEW i \in 1 .. Len(c), c[i].kind = "button"
               PROVE  c[i].at = Applying(t, c)[i - 1].cursor
    BY <1>1 DEF ClicksAt
  <2>1. b[k + i].at = Applying(s, b)[(k + i) - 1].cursor
    BY <1>1 DEF ClicksAt
  <2> QED BY <1>1, <1>2, <2>1
<1>6. DragsHeld(b, n) => DragsHeld(c, m)
  <2> SUFFICES ASSUME DragsHeld(b, n), NEW i \in 1 .. Len(c), IsDrag(c[i])
               PROVE  Coalescing(m, c)[i - 1].n > 0
    BY <1>1 DEF DragsHeld
  <2>1. Coalescing(n, b)[(k + i) - 1].n > 0
    BY <1>1 DEF DragsHeld
  <2> QED BY <1>1, <1>3, <2>1
<1> QED BY <1>4, <1>5, <1>6 DEF Coming

LEMMA FirstComes ==
    ASSUME NEW b \in Seq(InputEvent), NEW s \in Injected, NEW n \in Nat,
           NEW c \in Seq(InputEvent), Begins(c, b)
    PROVE  /\ ClicksAt(b, s) => ClicksAt(c, s)
           /\ DragsHeld(b, n) => DragsHeld(c, n)
<1>1. /\ Len(c) \in Nat /\ DOMAIN c = 1 .. Len(c) /\ DOMAIN b = 1 .. Len(b)
      /\ \A i \in 1 .. Len(c) : b[i] = c[i] /\ i \in DOMAIN b /\ i - 1 \in 0 .. Len(c)
  BY DEF Begins
<1>2. \A i \in 0 .. Len(c) : Applying(s, b)[i] = Applying(s, c)[i]
  BY ApplyingPrefix
<1>3. \A i \in 0 .. Len(c) : Coalescing(n, b)[i] = Coalescing(n, c)[i]
  BY CoalescingPrefix
<1> QED BY <1>1, <1>2, <1>3 DEF ClicksAt, DragsHeld

----------------------------------------------------------------------------
(* Steps *)

LEMMA JoinFacts ==
    ASSUME NEW b \in Seq(InputEvent), NEW d \in InputEvent, NEW e \in InputEvent
    PROVE  /\ b \o << >> = b /\ b \o <<e>> = Append(b, e)
           /\ b \o <<d, e>> = Append(Append(b, d), e)
           /\ Append(b, d) \in Seq(InputEvent) /\ Append(b, e) \in Seq(InputEvent)
           /\ Append(Append(b, d), e) \in Seq(InputEvent)
OBVIOUS

LEMMA SendsFacts ==
    ASSUME InputInv, NEW events, Sends(events)
    PROVE  /\ serving => inbox' = inbox \o events
           /\ ~serving => inbox' = inbox
           /\ Injector' = Injector /\ buttonsDown' = buttonsDown
           /\ ime' \in BOOLEAN /\ serving' \in BOOLEAN
<1>1. UNCHANGED <<ime, serving, buttonsDown, cursor, mods, pressed>>
  BY DEF Sends, injector
<1>2. /\ serving => inbox' = inbox \o events
      /\ ~serving => inbox' = inbox
  BY DEF Sends
<1> QED BY <1>1, <1>2 DEF Injector, InputInv, InputTypes

LEMMA MovesStep ==
    ASSUME InputInv, NEW spot \in Spots, PointerMoves(spot)
    PROVE  InputInv'
<1> PICK e : e = MoveTo(spot)
  OBVIOUS
<1>1. /\ InputTypes /\ Coming(inbox, Injector, buttonsDown, fingers, holding, odd, missed)
      /\ Sends(<<e>>) /\ UNCHANGED <<fingers, holding, odd, missed>>
  BY DEF InputInv, PointerMoves
<1>2. /\ e \in InputEvent /\ Append(inbox, e) \in Seq(InputEvent)
      /\ Coming(Append(inbox, e), Injector, buttonsDown, fingers, holding, odd, missed)
  <2>1. e \in InputEvent /\ e.kind = "move" /\ e.drag = (holding # {})
    BY DEF MoveTo, InputOf, InputEvent
  <2> QED BY <1>1, <2>1, MoveComes, JoinFacts DEF InputTypes
<1>3. Injector' = Injector /\ buttonsDown' = buttonsDown /\ ime' \in BOOLEAN /\ serving' \in BOOLEAN
  BY <1>1, SendsFacts
<1>4. inbox' = inbox \/ inbox' = Append(inbox, e)
  BY <1>1, <1>2, SendsFacts, JoinFacts DEF InputTypes
<1>5. inbox' \in Seq(InputEvent) /\ Coming(inbox', Injector, buttonsDown, fingers, holding, odd, missed)
  BY <1>1, <1>2, <1>4 DEF InputTypes
<1>6. InputTypes'
  BY <1>1, <1>3, <1>5 DEF InputTypes
<1>7. Coming(inbox', Injector', buttonsDown', fingers', holding', odd', missed')
  BY <1>1, <1>3, <1>5
<1> QED BY <1>6, <1>7 DEF InputInv

LEMMA ButtonStep ==
    ASSUME InputInv, NEW button \in Buttons, NEW down \in BOOLEAN, NEW spot \in Spots,
           PointerButton(button, down, spot)
    PROVE  InputInv'
<1> PICK d : d = MoveTo(spot)
  OBVIOUS
<1> PICK e : e = InputOf("button", button, down, spot, FALSE)
  OBVIOUS
<1>1. /\ InputTypes /\ Coming(inbox, Injector, buttonsDown, fingers, holding, odd, missed)
      /\ Sends(<<d, e>>) /\ missed' = missed /\ Touches(button, down)
      /\ IF ~serving THEN UNCHANGED <<holding, odd>>
         ELSE /\ holding' = IF down THEN holding \cup {button} ELSE holding \ {button}
              /\ odd' = (odd \/ (~down /\ button \notin holding /\ holding # {}))
  BY DEF InputInv, PointerButton
<1>2. Injector' = Injector /\ buttonsDown' = buttonsDown /\ ime' \in BOOLEAN /\ serving' \in BOOLEAN
      /\ missed' \in BOOLEAN
  BY <1>1, SendsFacts DEF InputTypes
<1>3. fingers' \subseteq Keys \cup Buttons /\ fingers' \cap Modifiers = fingers \cap Modifiers
  BY <1>1, InputAssumption DEF InputTypes, Touches
<1>4. holding' \subseteq Buttons /\ IsFiniteSet(holding') /\ odd' \in BOOLEAN
  <2>1. holding' \in {holding, holding \cup {button}, holding \ {button}}
    BY <1>1
  <2>2. IsFiniteSet(holding') /\ holding' \subseteq Buttons
    BY <1>1, <2>1, FS_AddElement, FS_RemoveElement DEF InputTypes
  <2>3. odd' \in BOOLEAN
    BY <1>1, Zenon DEF InputTypes
  <2> QED BY <2>2, <2>3
<1>5. CASE ~serving
  <2>1. inbox' = inbox /\ holding' = holding /\ odd' = odd
    BY <1>1, <1>5, SendsFacts
  <2>2. Coming(inbox, Injector, buttonsDown, fingers', holding, odd, missed)
    BY <1>1, <1>3 DEF Coming
  <2>3. Coming(inbox', Injector', buttonsDown', fingers', holding', odd', missed')
    BY <1>1, <1>2, <2>1, <2>2
  <2>4. InputTypes'
    BY <1>1, <1>2, <1>3, <1>4, <2>1 DEF InputTypes
  <2> QED BY <2>3, <2>4 DEF InputInv
<1>6. CASE serving
  <2>1. /\ d \in InputEvent /\ Append(inbox, d) \in Seq(InputEvent)
        /\ Coming(Append(inbox, d), Injector, buttonsDown, fingers, holding, odd, missed)
        /\ ApplyAll(Injector, Append(inbox, d)).cursor = spot
    <3>1. d \in InputEvent /\ d.kind = "move" /\ d.drag = (holding # {}) /\ d.at = spot
      BY DEF MoveTo, InputOf, InputEvent
    <3> QED BY <1>1, <3>1, MoveComes, JoinFacts DEF InputTypes
  <2>2. /\ holding' = IF down THEN holding \cup {button} ELSE holding \ {button}
        /\ odd' = (odd \/ (~down /\ button \notin holding /\ holding # {}))
    BY <1>1, <1>6
  <2> PICK b \in Seq(InputEvent) : b = Append(inbox, d)
    BY <2>1
  <2>3. /\ e \in InputEvent /\ Append(b, e) \in Seq(InputEvent)
        /\ Coming(Append(b, e), Injector, buttonsDown, fingers', holding', odd', missed)
    <3>1. e \in InputEvent /\ e.kind = "button" /\ e.at = spot /\ e.what = button /\ e.down = down
      BY DEF InputOf, InputEvent
    <3>2. Append(b, e) \in Seq(InputEvent)
      BY <3>1, JoinFacts
    <3>3. holding' = HoldingAfter(holding, e) /\ odd' = OddAfter(odd, holding, e)
      BY <2>2, <3>1 DEF HoldingAfter, OddAfter
    <3>4. /\ Injector \in Injected /\ buttonsDown \in Nat /\ IsFiniteSet(holding) /\ odd \in BOOLEAN
          /\ Coming(b, Injector, buttonsDown, fingers, holding, odd, missed)
          /\ e.at = ApplyAll(Injector, b).cursor
      BY <1>1, <2>1, <3>1 DEF InputTypes
    <3>5. Coming(Append(b, e), Injector, buttonsDown, fingers', holding', odd', missed)
      <4>1. Coming(Append(b, e), Injector, buttonsDown, fingers', HoldingAfter(holding, e),
                   OddAfter(odd, holding, e), missed)
        BY <1>3, <3>1, <3>4, ButtonComes
      <4> QED BY <3>3, <4>1, Zenon
    <3> QED BY <3>1, <3>2, <3>5
  <2>4. inbox' = Append(b, e)
    <3>1. inbox' = inbox \o <<d, e>>
      BY <1>1, <1>6, SendsFacts
    <3> QED BY <1>1, <2>1, <2>3, <3>1, JoinFacts DEF InputTypes
  <2>5. InputTypes'
    BY <1>1, <1>2, <1>3, <1>4, <2>3, <2>4 DEF InputTypes
  <2>6. Coming(inbox', Injector', buttonsDown', fingers', holding', odd', missed')
    BY <1>1, <1>2, <2>3, <2>4
  <2> QED BY <2>5, <2>6 DEF InputInv
<1> QED BY <1>1, <1>5, <1>6 DEF InputTypes

LEMMA KeyStep ==
    ASSUME InputInv, NEW key \in Keys, NEW down \in BOOLEAN, KeyTouched(key, down)
    PROVE  InputInv'
<1>1. /\ InputTypes /\ Coming(inbox, Injector, buttonsDown, fingers, holding, odd, missed)
      /\ Sends(Routed(key, down)) /\ missed' = (missed \/ ~serving) /\ Touches(key, down)
      /\ UNCHANGED <<holding, odd>>
  BY DEF InputInv, KeyTouched
<1>2. Injector' = Injector /\ buttonsDown' = buttonsDown /\ ime' \in BOOLEAN /\ serving' \in BOOLEAN
  BY <1>1, SendsFacts
<1>3. missed' \in BOOLEAN
  BY <1>1, Zenon DEF InputTypes
<1>4. fingers' \subseteq Keys \cup Buttons
      /\ fingers' \cap Modifiers =
            IF key \notin Modifiers THEN fingers \cap Modifiers
            ELSE IF down THEN (fingers \cap Modifiers) \cup {key}
            ELSE (fingers \cap Modifiers) \ {key}
  BY <1>1 DEF InputTypes, Touches
<1>5. SUFFICES inbox' \in Seq(InputEvent)
               /\ Coming(inbox', Injector, buttonsDown, fingers', holding, odd, missed')
  <2>1. ASSUME inbox' \in Seq(InputEvent) PROVE InputTypes'
    BY <1>1, <1>2, <1>3, <1>4, <2>1 DEF InputTypes
  <2> QED BY <1>1, <1>2, <2>1 DEF InputInv
<1>6. CASE ~serving
  <2>1. inbox' = inbox /\ missed' = TRUE
    BY <1>1, <1>6, SendsFacts
  <2> QED BY <1>1, <2>1 DEF Coming, InputTypes
<1>7. CASE serving
  <2>1. missed' = missed /\ inbox' = inbox \o Routed(key, down)
    BY <1>1, <1>7, SendsFacts DEF InputTypes
  <2>2. CASE key \in Printables /\ ime /\ fingers \cap Modifiers = {} /\ ~down
    <3>1. inbox' = inbox
      BY <1>1, <2>1, <2>2 DEF Routed, InputTypes
    <3>2. fingers' \cap Modifiers = fingers \cap Modifiers
      BY <1>4, <2>2, InputAssumption
    <3> QED BY <1>1, <2>1, <3>1, <3>2 DEF Coming, InputTypes
  <2>3. CASE key \in Printables /\ ime /\ fingers \cap Modifiers = {} /\ down
    <3> PICK e : e = InputOf("text", "none", TRUE, NoSpot, FALSE)
      OBVIOUS
    <3>1. e \in InputEvent /\ e.kind = "text" /\ ~e.drag
      BY DEF InputOf, InputEvent
    <3>2. inbox' = Append(inbox, e)
      <4>1. Routed(key, down) = <<e>>
        BY <2>3 DEF Routed
      <4>2. inbox \o <<e>> = Append(inbox, e)
        BY <1>1, <3>1, JoinFacts DEF InputTypes
      <4> QED BY <2>1, <4>1, <4>2
    <3>3. fingers' \cap Modifiers = fingers \cap Modifiers
      BY <1>4, <2>3, InputAssumption
    <3>4. Coming(Append(inbox, e), Injector, buttonsDown, fingers', holding, odd, missed)
      BY <1>1, <3>1, <3>3, KeyComes DEF InputTypes
    <3> QED BY <1>1, <2>1, <3>1, <3>2, <3>4, JoinFacts DEF InputTypes
  <2>4. CASE ~(key \in Printables /\ ime /\ fingers \cap Modifiers = {})
    <3> PICK e : e = InputOf("key", key, down, NoSpot, FALSE)
      OBVIOUS
    <3>1. e \in InputEvent /\ e.kind = "key" /\ ~e.drag /\ e.what = key /\ e.down = down
      BY DEF InputOf, InputEvent
    <3>2. inbox' = Append(inbox, e)
      <4>1. Routed(key, down) = <<e>>
        BY <2>4 DEF Routed
      <4>2. inbox \o <<e>> = Append(inbox, e)
        BY <1>1, <3>1, JoinFacts DEF InputTypes
      <4> QED BY <2>1, <4>1, <4>2
    <3>3. Coming(Append(inbox, e), Injector, buttonsDown, fingers', holding, odd, missed)
      BY <1>1, <1>4, <3>1, KeyComes DEF InputTypes
    <3> QED BY <1>1, <2>1, <3>1, <3>2, <3>3, JoinFacts DEF InputTypes
  <2> QED BY <2>2, <2>3, <2>4
<1> QED BY <1>1, <1>6, <1>7 DEF InputTypes

LEMMA TurnsStep ==
    ASSUME InputInv, SessionTurns
    PROVE  InputInv'
<1>1. /\ InputTypes /\ Coming(inbox, Injector, buttonsDown, fingers, holding, odd, missed)
      /\ serving' = ~serving
      /\ UNCHANGED <<ime, fingers, inbox, buttonsDown, cursor, mods, pressed, holding, odd, missed>>
  BY DEF InputInv, SessionTurns, injector
<1>2. Injector' = Injector
  BY <1>1 DEF Injector
<1>3. serving' \in BOOLEAN
  BY <1>1, Zenon DEF InputTypes
<1>4. InputTypes'
  BY <1>1, <1>2, <1>3 DEF InputTypes
<1> QED BY <1>1, <1>2, <1>4 DEF InputInv

LEMMA SplitFacts ==
    ASSUME NEW b \in Seq(InputEvent), NEW k \in 1 .. Len(b)
    PROVE  /\ SubSeq(b, 1, k) \in Seq(InputEvent) /\ Len(SubSeq(b, 1, k)) = k
           /\ Begins(SubSeq(b, 1, k), b)
           /\ SubSeq(b, k + 1, Len(b)) \in Seq(InputEvent)
           /\ Len(SubSeq(b, k + 1, Len(b))) = Len(b) - k
           /\ Follows(SubSeq(b, k + 1, Len(b)), b, k)
<1>1. SubSeq(b, 1, k) \in Seq(InputEvent) /\ Len(SubSeq(b, 1, k)) = k
      /\ \A i \in 1 .. k : SubSeq(b, 1, k)[i] = b[i]
  OBVIOUS
<1>2. SubSeq(b, k + 1, Len(b)) \in Seq(InputEvent) /\ Len(SubSeq(b, k + 1, Len(b))) = Len(b) - k
      /\ \A i \in 1 .. Len(b) - k : SubSeq(b, k + 1, Len(b))[i] = b[k + i]
  OBVIOUS
<1>3. Begins(SubSeq(b, 1, k), b)
  BY <1>1 DEF Begins
<1>4. Follows(SubSeq(b, k + 1, Len(b)), b, k)
  BY <1>2 DEF Follows
<1> QED BY <1>1, <1>2, <1>3, <1>4

\* A step injects the first k events, from the state the injector is in.
Injects(k) ==
    LET made == Coalesced(SubSeq(inbox, 1, k), buttonsDown) IN
    /\ inbox' = SubSeq(inbox, k + 1, Len(inbox))
    /\ buttonsDown' = made.n
    /\ cursor' = ApplyAll(Injector, made.out).cursor
    /\ mods' = ApplyAll(Injector, made.out).mods
    /\ pressed' = ApplyAll(Injector, made.out).pressed

LEMMA InjectSome ==
    ASSUME Inject
    PROVE  /\ \E k \in 1 .. Len(inbox) : Injects(k)
           /\ UNCHANGED <<ime, fingers, serving, acts, gaps, holding, odd, missed>>
BY Zenon DEF Inject, Injects, ApplyAll, Applying

LEMMA InjectStep ==
    ASSUME InputInv, Inject
    PROVE  InputInv'
<1>1. /\ InputTypes /\ Coming(inbox, Injector, buttonsDown, fingers, holding, odd, missed)
      /\ UNCHANGED <<ime, fingers, serving, holding, odd, missed>>
  BY InjectSome DEF InputInv
<1>2. PICK k \in 1 .. Len(inbox) : Injects(k)
  BY InjectSome
<1> PICK b : b = SubSeq(inbox, 1, k)
  OBVIOUS
<1> PICK c : c = SubSeq(inbox, k + 1, Len(inbox))
  OBVIOUS
<1> PICK s : s = Injector
  OBVIOUS
<1> PICK n : n = buttonsDown
  OBVIOUS
<1> PICK made : made = Coalesced(b, n)
  OBVIOUS
<1>3. /\ b \in Seq(InputEvent) /\ Len(b) = k /\ Begins(b, inbox)
      /\ c \in Seq(InputEvent) /\ Follows(c, inbox, k)
      /\ s \in Injected /\ n \in Nat /\ k \in 0 .. Len(inbox)
  BY <1>1, SplitFacts DEF InputTypes
<1>4. ClicksAt(inbox, s)
  BY <1>1 DEF Coming
<1>5. /\ ClicksAt(b, s) /\ ApplyAll(s, b) = Applying(s, inbox)[k]
      /\ HeldThen(n, b) = Coalescing(n, inbox)[k].n
  <2>1. inbox \in Seq(InputEvent)
    BY <1>1 DEF InputTypes
  <2>2. ClicksAt(b, s)
    BY <1>3, <1>4, <2>1, FirstComes
  <2>3. \A i \in 0 .. Len(b) : Applying(s, inbox)[i] = Applying(s, b)[i]
    BY <1>3, <2>1, ApplyingPrefix
  <2>4. \A i \in 0 .. Len(b) : Coalescing(n, inbox)[i] = Coalescing(n, b)[i]
    BY <1>3, <2>1, CoalescingPrefix
  <2>5. k \in 0 .. Len(b) /\ Len(b) = k
    BY <1>3
  <2> QED BY <2>2, <2>3, <2>4, <2>5 DEF ApplyAll, HeldThen
<1>6. /\ made.n = HeldThen(n, b) /\ ApplyAll(s, made.out) = ApplyAll(s, b)
  <2> PICK drags \in BOOLEAN : drags = FALSE
    OBVIOUS
  <2>1. /\ made.n = Coalescing(n, b)[Len(b)].n /\ ApplyAll(s, made.out) = ApplyAll(s, b)
    BY <1>3, <1>5, CoalescedFacts
  <2> QED BY <2>1 DEF HeldThen
<1>7. ApplyAll(s, b) \in Injected
  BY <1>3, ApplyAllType
<1>8. /\ inbox' = c /\ buttonsDown' = made.n
      /\ cursor' = ApplyAll(s, b).cursor /\ mods' = ApplyAll(s, b).mods
      /\ pressed' = ApplyAll(s, b).pressed
  BY <1>2, <1>6 DEF Injects
<1>9. Injector' = Applying(s, inbox)[k] /\ buttonsDown' = Coalescing(n, inbox)[k].n
  BY <1>5, <1>6, <1>7, <1>8 DEF Injector, Injected
<1>10. Coming(c, Applying(s, inbox)[k], Coalescing(n, inbox)[k].n, fingers, holding, odd, missed)
  BY <1>1, <1>3, RestComes DEF InputTypes
<1>11. Injector' \in Injected /\ buttonsDown' \in Nat
  BY <1>1, <1>3, <1>5, <1>7, <1>9, HeldType DEF InputTypes
<1>12. InputTypes'
  BY <1>1, <1>3, <1>8, <1>11 DEF InputTypes
<1>13. Coming(inbox', Injector', buttonsDown', fingers', holding', odd', missed')
  BY <1>1, <1>8, <1>9, <1>10
<1> QED BY <1>12, <1>13 DEF InputInv

LEMMA EmptyFacts ==
    ASSUME NEW s \in Injected, NEW n \in Nat
    PROVE  /\ ApplyAll(s, << >>) = s /\ HeldThen(n, << >>) = n
           /\ ClicksAt(<< >>, s) /\ DragsHeld(<< >>, n)
<1>1. << >> \in Seq(InputEvent) /\ Len(<< >>) = 0
  OBVIOUS
<1>2. Applying(s, << >>)[0] = s /\ Coalescing(n, << >>)[0] = Fresh(n)
  BY <1>1, ApplyingSteps, CoalescingSteps
<1> QED BY <1>1, <1>2 DEF ApplyAll, HeldThen, Fresh, ClicksAt, DragsHeld

LEMMA InputStart ==
    ASSUME InputInit
    PROVE  InputInv
<1>1. Injector \in Injected /\ Injector.mods = {}
  BY DEF InputInit, Injector, Injected
<1>2. InputTypes
  BY <1>1, FS_EmptySet, 0 \in Nat, << >> \in Seq(InputEvent) DEF InputInit, InputTypes
<1>3. ApplyAll(Injector, << >>) = Injector /\ HeldThen(0, << >>) = 0
      /\ ClicksAt(<< >>, Injector) /\ DragsHeld(<< >>, 0)
  BY <1>1, EmptyFacts
<1>4. Coming(<< >>, Injector, 0, {}, {}, FALSE, FALSE)
  BY <1>1, <1>3, FS_EmptySet DEF Coming
<1> QED BY <1>2, <1>4 DEF InputInit, InputInv

LEMMA InputKept ==
    ASSUME InputInv, [InputNext]_inputVars
    PROVE  InputInv'
<1>1. CASE \E spot \in Spots : PointerMoves(spot)
  BY <1>1, MovesStep
<1>2. CASE \E button \in Buttons, down \in BOOLEAN, spot \in Spots : PointerButton(button, down, spot)
  BY <1>2, ButtonStep
<1>3. CASE \E key \in Keys, down \in BOOLEAN : KeyTouched(key, down)
  BY <1>3, KeyStep
<1>4. CASE SessionTurns
  BY <1>4, TurnsStep
<1>5. CASE Inject
  BY <1>5, InjectStep
<1>6. CASE UNCHANGED inputVars
  <2>1. UNCHANGED <<ime, serving, odd, missed, fingers, inbox, buttonsDown, Injector, holding>>
    BY <1>6 DEF inputVars, Injector
  <2> QED BY <2>1 DEF InputInv, InputTypes
<1> QED BY <1>1, <1>2, <1>3, <1>4, <1>5, <1>6 DEF InputNext

\* What is on its way to the injector would do what the user did: in every state.
THEOREM InputHolds == InputSpec => []InputInv
<1>1. InputInit => InputInv
  BY InputStart
<1>2. InputInv /\ [InputNext]_inputVars => InputInv'
  BY InputKept
<1> QED BY <1>1, <1>2, PTL DEF InputSpec

----------------------------------------------------------------------------
(* What is injected *)

LEMMA OwedIs ==
    ASSUME NEW b, NEW drags
    PROVE  Owed(b, drags) = OwedOf(b, drags)
BY DEF Owed, OwedOf, Owing, KeepOwed

LEMMA ModifiersHold ==
    ASSUME InputInv
    PROVE  ModifiersAgree
<1> SUFFICES ASSUME inbox = << >>, ~missed PROVE mods = fingers \cap Modifiers
  BY DEF ModifiersAgree
<1>1. /\ Injector \in Injected /\ buttonsDown \in Nat
      /\ ApplyAll(Injector, << >>).mods = fingers \cap Modifiers
  BY DEF InputInv, InputTypes, Coming
<1>2. ApplyAll(Injector, << >>) = Injector
  BY <1>1, EmptyFacts
<1>3. Injector.mods = mods
  BY DEF Injector
<1> QED BY <1>1, <1>2, <1>3

\* Only the injector takes events from the queue.
LEMMA OnlyInjects ==
    ASSUME InputInv, InputNext, Len(inbox') < Len(inbox)
    PROVE  Inject
<1>1. inbox \in Seq(InputEvent) /\ Len(inbox) \in Nat
  BY DEF InputInv, InputTypes
<1>2. ASSUME NEW d \in InputEvent, NEW e \in InputEvent
      PROVE  /\ Len(inbox \o << >>) >= Len(inbox)
             /\ Len(inbox \o <<e>>) >= Len(inbox)
             /\ Len(inbox \o <<d, e>>) >= Len(inbox)
  BY <1>1
<1>3. ASSUME NEW spot \in Spots PROVE ~PointerMoves(spot)
  <2> PICK e : e = MoveTo(spot)
    OBVIOUS
  <2>1. e \in InputEvent
    BY DEF MoveTo, InputOf, InputEvent
  <2>2. PointerMoves(spot) => inbox' = inbox \/ inbox' = inbox \o <<e>>
    BY DEF PointerMoves, Sends
  <2> QED BY <1>1, <1>2, <2>1, <2>2
<1>4. ASSUME NEW button \in Buttons, NEW down \in BOOLEAN, NEW spot \in Spots
      PROVE  ~PointerButton(button, down, spot)
  <2> PICK d : d = MoveTo(spot)
    OBVIOUS
  <2> PICK e : e = InputOf("button", button, down, spot, FALSE)
    OBVIOUS
  <2>1. d \in InputEvent /\ e \in InputEvent
    BY DEF MoveTo, InputOf, InputEvent
  <2>2. PointerButton(button, down, spot) => inbox' = inbox \/ inbox' = inbox \o <<d, e>>
    BY DEF PointerButton, Sends
  <2> QED BY <1>1, <1>2, <2>1, <2>2
<1>5. ASSUME NEW key \in Keys, NEW down \in BOOLEAN PROVE ~KeyTouched(key, down)
  <2> PICK d : d = InputOf("text", "none", TRUE, NoSpot, FALSE)
    OBVIOUS
  <2> PICK e : e = InputOf("key", key, down, NoSpot, FALSE)
    OBVIOUS
  <2>1. d \in InputEvent /\ e \in InputEvent
    BY DEF InputOf, InputEvent
  <2>2. Routed(key, down) = << >> \/ Routed(key, down) = <<d>> \/ Routed(key, down) = <<e>>
    BY DEF Routed
  <2>3. KeyTouched(key, down) => inbox' = inbox \/ inbox' = inbox \o Routed(key, down)
    BY DEF KeyTouched, Sends
  <2> QED BY <1>1, <1>2, <2>1, <2>2, <2>3
<1>6. ~SessionTurns
  BY <1>1 DEF SessionTurns
<1> QED BY <1>3, <1>4, <1>5, <1>6 DEF InputNext

LEMMA InjectsWell ==
    ASSUME InputInv, Inject
    PROVE  NothingLost /\ ClicksLand
<1>1. PICK k \in 1 .. Len(inbox) : Injects(k)
  BY InjectSome
<1> PICK b : b = SubSeq(inbox, 1, k)
  OBVIOUS
<1> PICK s : s = Injector
  OBVIOUS
<1> PICK n : n = buttonsDown
  OBVIOUS
<1> PICK out : out = Coalesced(b, n).out
  OBVIOUS
<1> PICK drags : drags = ~odd
  OBVIOUS
<1>2. /\ inbox \in Seq(InputEvent) /\ s \in Injected /\ n \in Nat /\ drags \in BOOLEAN
      /\ ClicksAt(inbox, s) /\ (drags => DragsHeld(inbox, n))
  <2>1. /\ inbox \in Seq(InputEvent) /\ Injector \in Injected /\ buttonsDown \in Nat /\ odd \in BOOLEAN
        /\ ClicksAt(inbox, Injector) /\ (~odd => DragsHeld(inbox, buttonsDown))
    BY DEF InputInv, InputTypes, Coming
  <2>2. drags \in BOOLEAN
    BY <2>1, Zenon
  <2> QED BY <2>1, <2>2
<1>3. b \in Seq(InputEvent) /\ Len(b) = k /\ Begins(b, inbox)
  BY <1>2, SplitFacts
<1>4. ClicksAt(b, s) /\ (drags => DragsHeld(b, n))
  BY <1>2, <1>3, FirstComes
<1>5. OwedOf(out, drags) = OwedOf(b, drags) /\ ClicksAt(out, s)
  BY <1>2, <1>3, <1>4, CoalescedFacts
<1>6. Len(inbox) - Len(inbox') = k
  <2>1. inbox' = SubSeq(inbox, k + 1, Len(inbox))
    BY <1>1 DEF Injects
  <2>2. Len(inbox') = Len(inbox) - k
    BY <1>2, <2>1, SplitFacts
  <2> QED BY <1>2, <2>2
<1>7. Batch = b /\ Made = out
  BY <1>6 DEF Batch, Made
<1>8. NothingLost
  BY <1>5, <1>7, OwedIs DEF NothingLost
<1>9. ClicksLand
  BY <1>5, <1>7 DEF ClicksLand, ClicksAt, Applying
<1> QED BY <1>8, <1>9

\* No step of the injector's loses or misplaces what it was to inject.
LEMMA InputActs ==
    ASSUME InputInv, InputNext
    PROVE  ModifiersAgree /\ (Len(inbox') < Len(inbox) => NothingLost /\ ClicksLand)
<1>1. ModifiersAgree
  BY ModifiersHold
<1>2. ASSUME Len(inbox') < Len(inbox) PROVE NothingLost /\ ClicksLand
  BY <1>2, OnlyInjects, InjectsWell
<1> QED BY <1>1, <1>2

\* What is injected is what the user did: coalescing loses no button, no key and no
\* drag, clicks land where the user had the pointer, and the modifiers agree, for any
\* number of acts, batches and lost sessions (workers.rs, coalesce_inputs; inject.rs).
THEOREM FaithfulHolds == InputSpec => InputFaithful
<1> DEFINE Faithful == ModifiersAgree /\ (Len(inbox') < Len(inbox) => NothingLost /\ ClicksLand)
<1>1. InputInv /\ [InputNext]_inputVars => [Faithful]_inputVars
  BY InputActs
<1> QED BY <1>1, InputHolds, PTL DEF InputSpec, InputFaithful

----------------------------------------------------------------------------
(* The values of the injector stay of their types *)

\* No more buttons are ever counted than m, and keys are what is pressed.
AtMost(b, n, m) == \A i \in 0 .. Len(b) : Coalescing(n, b)[i].n <= m
KeysOnly(b) == \A i \in 1 .. Len(b) : b[i].kind = "key" => b[i].what \in Keys

WithinActs ==
    /\ acts \in 0 .. MaxActs /\ gaps \in 0 .. MaxGaps /\ pressed \subseteq Keys
    /\ KeysOnly(inbox) /\ AtMost(inbox, buttonsDown, acts)

\* One more event counts one more button at most, and none unless it is one.
LEMMA AtMostOneMore ==
    ASSUME NEW b \in Seq(InputEvent), NEW e \in InputEvent, NEW n \in Nat, NEW m \in Nat,
           NEW l \in Nat, AtMost(b, n, m), m <= l, e.kind = "button" => m < l
    PROVE  AtMost(Append(b, e), n, l)
<1> PICK c : c = Append(b, e)
  OBVIOUS
<1>1. /\ Len(b) \in Nat /\ Len(c) = Len(b) + 1
      /\ \A i \in 0 .. Len(b) : Coalescing(n, c)[i] = Coalescing(n, b)[i]
      /\ Coalescing(n, c)[Len(b) + 1].n = HeldAfter(Coalescing(n, b)[Len(b)].n, e)
  BY EventAppended, CountOneMore
<1>2. \A i \in 0 .. Len(b) : Coalescing(n, b)[i].n \in Nat /\ Coalescing(n, b)[i].n <= m
  BY HeldType DEF AtMost
<1>3. HeldAfter(Coalescing(n, b)[Len(b)].n, e) <= l
  <2> PICK h \in Nat : h = Coalescing(n, b)[Len(b)].n /\ h <= m
    BY <1>1, <1>2
  <2>1. HeldAfter(h, e) <= l
    BY DEF HeldAfter
  <2> QED BY <2>1
<1>4. ASSUME NEW i \in 0 .. Len(c) PROVE Coalescing(n, c)[i].n <= l
  <2>1. CASE i = Len(b) + 1
    BY <1>1, <1>3, <2>1
  <2>2. CASE i \in 0 .. Len(b)
    BY <1>1, <1>2, <2>2
  <2> QED BY <1>1, <2>1, <2>2
<1> QED BY <1>4 DEF AtMost

LEMMA KeysOneMore ==
    ASSUME NEW b \in Seq(InputEvent), NEW e \in InputEvent, KeysOnly(b),
           e.kind = "key" => e.what \in Keys
    PROVE  KeysOnly(Append(b, e))
BY EventAppended DEF KeysOnly

\* What is left when the first k events have been taken.
LEMMA AtMostRest ==
    ASSUME NEW b \in Seq(InputEvent), NEW n \in Nat, NEW m \in Nat, NEW k \in 0 .. Len(b),
           NEW c \in Seq(InputEvent), Follows(c, b, k), AtMost(b, n, m), KeysOnly(b)
    PROVE  AtMost(c, Coalescing(n, b)[k].n, m) /\ KeysOnly(c)
<1>1. \A j \in 0 .. Len(c) : k + j \in 0 .. Len(b)
  BY DEF Follows
<1>2. AtMost(c, Coalescing(n, b)[k].n, m)
  BY <1>1, CountRest DEF AtMost
<1>3. \A j \in 1 .. Len(c) : k + j \in 1 .. Len(b) /\ c[j] = b[k + j]
  BY DEF Follows
<1> QED BY <1>2, <1>3 DEF KeysOnly

\* Injecting keys presses keys.
LEMMA OneKeyPressed ==
    ASSUME NEW s \in Injected, NEW e \in InputEvent, s.pressed \subseteq Keys,
           e.kind = "key" => e.what \in Keys
    PROVE  Applied(s, e).pressed \subseteq Keys
<1> DEFINE held == IF e.what \notin Modifiers THEN s.mods
                   ELSE IF e.down THEN s.mods \cup {e.what} ELSE s.mods \ {e.what}
           keys == IF e.down THEN s.pressed \cup {e.what} ELSE s.pressed \ {e.what}
<1>1. CASE e.kind = "move"
  BY <1>1 DEF Applied, Injected
<1>2. CASE e.kind = "key" /\ held = {} /\ e.what \in Printables
  <2>1. Applied(s, e) = [s EXCEPT !.mods = held]
    BY <1>2 DEF Applied
  <2>2. Applied(s, e).pressed = s.pressed
    BY <2>1 DEF Injected
  <2> QED BY <2>2
<1>3. CASE e.kind = "key" /\ ~(held = {} /\ e.what \in Printables)
  <2>1. Applied(s, e) = [s EXCEPT !.mods = held, !.pressed = keys]
    BY <1>3 DEF Applied
  <2>2. Applied(s, e).pressed = keys
    BY <2>1 DEF Injected
  <2>3. keys \subseteq Keys
    BY <1>3
  <2> QED BY <2>2, <2>3
<1>4. CASE e.kind # "move" /\ e.kind # "key"
  BY <1>4 DEF Applied
<1> QED BY <1>1, <1>2, <1>3, <1>4

LEMMA KeysPressed ==
    ASSUME NEW b \in Seq(InputEvent), NEW s \in Injected, KeysOnly(b), s.pressed \subseteq Keys
    PROVE  ApplyAll(s, b).pressed \subseteq Keys
<1> DEFINE S == {i \in Nat : i <= Len(b) => Applying(s, b)[i].pressed \subseteq Keys}
<1>1. /\ Applying(s, b) \in [0 .. Len(b) -> Injected] /\ Applying(s, b)[0] = s /\ Len(b) \in Nat
      /\ \A i \in 1 .. Len(b) : Applying(s, b)[i] = Applied(Applying(s, b)[i - 1], b[i])
  BY ApplyingSteps
<1>2. 0 \in S
  BY <1>1
<1>3. ASSUME NEW i \in Nat, i \in S PROVE i + 1 \in S
  <2> SUFFICES ASSUME i + 1 <= Len(b) PROVE Applying(s, b)[i + 1].pressed \subseteq Keys
    OBVIOUS
  <2>1. i \in 0 .. Len(b) /\ i + 1 \in 1 .. Len(b) /\ (i + 1) - 1 = i /\ i <= Len(b)
    BY <1>1
  <2>2. /\ Applying(s, b)[i] \in Injected /\ b[i + 1] \in InputEvent
        /\ Applying(s, b)[i + 1] = Applied(Applying(s, b)[i], b[i + 1])
    BY <1>1, <2>1
  <2>3. Applying(s, b)[i].pressed \subseteq Keys
    BY <1>3, <2>1
  <2>4. b[i + 1].kind = "key" => b[i + 1].what \in Keys
    BY <2>1 DEF KeysOnly
  <2> QED BY <2>2, <2>3, <2>4, OneKeyPressed
<1>4. Nat \subseteq S
  <2> HIDE DEF S
  <2> QED BY <1>2, <1>3, SetInduction
<1>5. Len(b) \in S
  BY <1>1, <1>4
<1> QED BY <1>1, <1>5 DEF ApplyAll

LEMMA SendsRoom ==
    ASSUME InputInv, WithinActs, NEW events, Sends(events),
           \/ ~serving
           \/ KeysOnly(inbox \o events) /\ AtMost(inbox \o events, buttonsDown, acts + 1)
    PROVE  WithinActs'
<1>1. UNCHANGED <<buttonsDown, pressed, gaps>>
  BY DEF Sends, injector
<1>2. CASE ~serving
  <2>1. inbox' = inbox /\ acts' = acts
    BY <1>2 DEF Sends
  <2> QED BY <1>1, <2>1 DEF WithinActs
<1>3. CASE serving
  <2>1. inbox' = inbox \o events /\ acts' = acts + 1 /\ acts < MaxActs
    BY <1>3 DEF Sends
  <2>2. KeysOnly(inbox') /\ AtMost(inbox', buttonsDown', acts')
    BY <1>1, <1>3, <2>1
  <2>3. acts' \in 0 .. MaxActs
    BY <2>1, InputAssumption DEF WithinActs
  <2> QED BY <1>1, <2>2, <2>3 DEF WithinActs
<1> QED BY <1>2, <1>3 DEF InputInv, InputTypes

\* What each of the viewer's acts puts behind the queue.
LEMMA ActsFit ==
    ASSUME InputInv, WithinActs
    PROVE  /\ inbox \in Seq(InputEvent) /\ buttonsDown \in Nat /\ acts \in Nat /\ acts + 1 \in Nat
           /\ KeysOnly(inbox) /\ AtMost(inbox, buttonsDown, acts)
           /\ AtMost(inbox, buttonsDown, acts + 1)
<1>1. inbox \in Seq(InputEvent) /\ buttonsDown \in Nat /\ acts \in Nat
  BY InputAssumption DEF InputInv, InputTypes, WithinActs
<1>2. AtMost(inbox, buttonsDown, acts)
  BY DEF WithinActs
<1>3. ASSUME NEW i \in 0 .. Len(inbox) PROVE Coalescing(buttonsDown, inbox)[i].n <= acts + 1
  <2>1. Coalescing(buttonsDown, inbox)[i].n \in Nat /\ Coalescing(buttonsDown, inbox)[i].n <= acts
    BY <1>1, <1>2, HeldType DEF AtMost
  <2> QED BY <1>1, <2>1
<1> QED BY <1>1, <1>2, <1>3 DEF WithinActs, AtMost

LEMMA MovesRoom ==
    ASSUME InputInv, WithinActs, NEW spot \in Spots, PointerMoves(spot)
    PROVE  WithinActs'
<1> PICK e : e = MoveTo(spot)
  OBVIOUS
<1>1. e \in InputEvent /\ e.kind = "move"
  BY DEF MoveTo, InputOf, InputEvent
<1>2. KeysOnly(Append(inbox, e)) /\ AtMost(Append(inbox, e), buttonsDown, acts + 1)
  BY <1>1, ActsFit, KeysOneMore, AtMostOneMore
<1>3. inbox \o <<e>> = Append(inbox, e)
  BY <1>1, ActsFit, JoinFacts
<1>4. Sends(<<e>>)
  BY DEF PointerMoves
<1> QED BY <1>2, <1>3, <1>4, SendsRoom

LEMMA ButtonRoom ==
    ASSUME InputInv, WithinActs, NEW button \in Buttons, NEW down \in BOOLEAN, NEW spot \in Spots,
           PointerButton(button, down, spot)
    PROVE  WithinActs'
<1> PICK d : d = MoveTo(spot)
  OBVIOUS
<1> PICK e : e = InputOf("button", button, down, spot, FALSE)
  OBVIOUS
<1>1. d \in InputEvent /\ d.kind = "move" /\ e \in InputEvent /\ e.kind = "button"
  BY DEF MoveTo, InputOf, InputEvent
<1> PICK b : b = Append(inbox, d)
  OBVIOUS
<1>2. b \in Seq(InputEvent) /\ KeysOnly(b) /\ AtMost(b, buttonsDown, acts)
  BY <1>1, ActsFit, EventAppended, KeysOneMore, AtMostOneMore
<1>3. KeysOnly(Append(b, e)) /\ AtMost(Append(b, e), buttonsDown, acts + 1)
  <2>1. acts < acts + 1 /\ acts <= acts + 1
    BY ActsFit
  <2> QED BY <1>1, <1>2, <2>1, ActsFit, KeysOneMore, AtMostOneMore
<1>4. inbox \o <<d, e>> = Append(b, e)
  BY <1>1, ActsFit, JoinFacts
<1>5. Sends(<<d, e>>)
  BY DEF PointerButton
<1> QED BY <1>3, <1>4, <1>5, SendsRoom

LEMMA KeyRoom ==
    ASSUME InputInv, WithinActs, NEW key \in Keys, NEW down \in BOOLEAN, KeyTouched(key, down)
    PROVE  WithinActs'
<1>1. Sends(Routed(key, down))
  BY DEF KeyTouched
<1>2. CASE Routed(key, down) = << >>
  <2>1. inbox \o << >> = inbox
    BY ActsFit
  <2> QED BY <1>1, <1>2, <2>1, ActsFit, SendsRoom
<1>3. CASE Routed(key, down) # << >>
  <2>1. PICK e : Routed(key, down) = <<e>>
                 /\ e \in {InputOf("text", "none", TRUE, NoSpot, FALSE),
                           InputOf("key", key, down, NoSpot, FALSE)}
    BY <1>3 DEF Routed
  <2>2. e \in InputEvent /\ e.kind # "button" /\ (e.kind = "key" => e.what \in Keys)
    <3>1. CASE e = InputOf("text", "none", TRUE, NoSpot, FALSE)
      BY <3>1 DEF InputOf, InputEvent
    <3>2. CASE e = InputOf("key", key, down, NoSpot, FALSE)
      BY <3>2 DEF InputOf, InputEvent
    <3> QED BY <2>1, <3>1, <3>2
  <2>3. KeysOnly(Append(inbox, e)) /\ AtMost(Append(inbox, e), buttonsDown, acts + 1)
    BY <2>2, ActsFit, KeysOneMore, AtMostOneMore
  <2>4. inbox \o <<e>> = Append(inbox, e)
    BY <2>2, ActsFit, JoinFacts
  <2> QED BY <1>1, <2>1, <2>3, <2>4, SendsRoom
<1> QED BY <1>2, <1>3

LEMMA InjectRoom ==
    ASSUME InputInv, WithinActs, Inject
    PROVE  WithinActs'
<1>1. inbox \in Seq(InputEvent) /\ buttonsDown \in Nat /\ Injector \in Injected
  BY DEF InputInv, InputTypes
<1>2. PICK k \in 1 .. Len(inbox) : Injects(k)
  BY InjectSome
<1> PICK b : b = SubSeq(inbox, 1, k)
  OBVIOUS
<1> PICK c : c = SubSeq(inbox, k + 1, Len(inbox))
  OBVIOUS
<1>3. /\ b \in Seq(InputEvent) /\ Len(b) = k /\ Begins(b, inbox)
      /\ c \in Seq(InputEvent) /\ Follows(c, inbox, k) /\ k \in 0 .. Len(inbox)
  BY <1>1, SplitFacts
<1>4. /\ buttonsDown' = Coalescing(buttonsDown, inbox)[k].n
      /\ pressed' = ApplyAll(Injector, b).pressed /\ inbox' = c
  <2> PICK drags \in BOOLEAN : drags = FALSE
    OBVIOUS
  <2>1. ClicksAt(b, Injector)
    BY <1>1, <1>3, FirstComes DEF InputInv, Coming
  <2>2. /\ Coalesced(b, buttonsDown).n = Coalescing(buttonsDown, b)[Len(b)].n
        /\ ApplyAll(Injector, Coalesced(b, buttonsDown).out) = ApplyAll(Injector, b)
    BY <1>1, <1>3, <2>1, CoalescedFacts
  <2>3. Coalescing(buttonsDown, inbox)[k] = Coalescing(buttonsDown, b)[k]
    <3>1. k \in 0 .. Len(b)
      BY <1>3
    <3> QED BY <1>1, <1>3, <3>1, CoalescingPrefix
  <2> QED BY <1>2, <1>3, <2>2, <2>3 DEF Injects
<1>5. pressed' \subseteq Keys
  <2>1. KeysOnly(b)
    <3>1. \A i \in 1 .. Len(b) : i \in 1 .. Len(inbox) /\ inbox[i] = b[i]
      BY <1>1, <1>3 DEF Begins
    <3> QED BY <3>1 DEF KeysOnly, WithinActs
  <2>2. Injector.pressed = pressed
    BY DEF Injector
  <2> QED BY <1>1, <1>3, <1>4, <2>1, <2>2, KeysPressed DEF WithinActs
<1>6. KeysOnly(inbox') /\ AtMost(inbox', buttonsDown', acts)
  <2>1. acts \in Nat /\ KeysOnly(inbox) /\ AtMost(inbox, buttonsDown, acts)
    BY ActsFit
  <2>2. AtMost(c, Coalescing(buttonsDown, inbox)[k].n, acts) /\ KeysOnly(c)
    BY <1>1, <1>3, <2>1, AtMostRest
  <2> QED BY <1>4, <2>2
<1>7. UNCHANGED <<acts, gaps>>
  BY InjectSome
<1> QED BY <1>5, <1>6, <1>7 DEF WithinActs

LEMMA RoomKept ==
    ASSUME InputInv, WithinActs, [InputNext]_inputVars
    PROVE  WithinActs'
<1>1. CASE SessionTurns
  <2>1. UNCHANGED <<inbox, buttonsDown, pressed, acts>> /\ gaps < MaxGaps /\ gaps' = gaps + 1
    BY <1>1 DEF SessionTurns, injector
  <2>2. gaps' \in 0 .. MaxGaps
    BY <2>1, InputAssumption DEF WithinActs
  <2> QED BY <2>1, <2>2 DEF WithinActs
<1>2. CASE UNCHANGED inputVars
  <2>1. UNCHANGED <<inbox, buttonsDown, pressed, acts, gaps>>
    BY <1>2 DEF inputVars
  <2> QED BY <2>1 DEF WithinActs
<1> QED BY <1>1, <1>2, MovesRoom, ButtonRoom, KeyRoom, InjectRoom DEF InputNext

LEMMA RoomStart ==
    ASSUME InputInit
    PROVE  WithinActs
<1>1. inbox = << >> /\ buttonsDown = 0 /\ pressed = {} /\ acts = 0 /\ gaps = 0
  BY DEF InputInit
<1>2. Len(<< >>) = 0 /\ << >> \in Seq(InputEvent)
  OBVIOUS
<1>3. Coalescing(0, << >>)[0].n = 0
  <2>1. 0 \in Nat
    OBVIOUS
  <2>2. Coalescing(0, << >>)[0] = Fresh(0)
    BY <1>2, <2>1, CoalescingSteps
  <2>3. Fresh(0).n = 0
    BY DEF Fresh
  <2> QED BY <2>2, <2>3
<1>4. KeysOnly(<< >>)
  BY DEF KeysOnly
<1>5. AtMost(<< >>, 0, 0)
  <2>1. \A i \in 0 .. Len(<< >>) : i = 0
    BY <1>2
  <2> QED BY <1>3, <2>1 DEF AtMost
<1>6. 0 \in 0 .. MaxActs /\ 0 \in 0 .. MaxGaps
  BY InputAssumption
<1> QED BY <1>1, <1>4, <1>5, <1>6 DEF WithinActs

LEMMA InputTypeParts ==
    ASSUME InputInv, WithinActs
    PROVE  InputTypeOK
<1>1. buttonsDown \in 0 .. MaxActs
  <2>1. Coalescing(buttonsDown, inbox)[0] = Fresh(buttonsDown) /\ 0 \in 0 .. Len(inbox)
    BY ActsFit, CoalescingSteps
  <2>2. buttonsDown <= acts
    BY <2>1, ActsFit DEF AtMost, Fresh
  <2> QED BY <2>2, ActsFit, InputAssumption DEF WithinActs
<1>2. cursor \in Spots \cup {NoSpot} /\ mods \subseteq Modifiers
  BY DEF InputInv, InputTypes, Injector, Injected
<1> QED BY <1>1, <1>2, Zenon DEF InputInv, InputTypes, WithinActs, InputTypeOK

\* The injector's values stay of their types: it never counts more buttons than were
\* pressed, and presses only keys, however the events fall into batches and whatever
\* a lost session left behind (workers.rs, coalesce_inputs; inject.rs).
THEOREM InputTypesHold == InputSpec => []InputTypeOK
<1>1. InputInit => InputInv /\ WithinActs
  BY InputStart, RoomStart
<1>2. (InputInv /\ WithinActs) /\ [InputNext]_inputVars => (InputInv /\ WithinActs)'
  BY InputKept, RoomKept
<1>3. InputInv /\ WithinActs => InputTypeOK
  BY InputTypeParts
<1> QED BY <1>1, <1>2, <1>3, PTL DEF InputSpec
============================================================================
