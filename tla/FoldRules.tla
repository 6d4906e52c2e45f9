------------------------------- MODULE FoldRules -------------------------------
(***************************************************************************)
(* Induction over the folds of the community modules.                      *)
(*                                                                         *)
(* Over and Along are what FoldSet and FoldLeft unfold to, for a step op that *)
(* may read a context.  P(aux, ctx, T, acc) says what holds of the         *)
(* accumulator acc once the elements of T, or the first T of a sequence, are *)
(* done.  A module takes FoldSetRule and FoldLeftRule by                   *)
(* INSTANCE FoldRules WITH op <- ..., P <- ...: an operator parameter of a *)
(* theorem could not be instantiated, a constant of a module can.  That every *)
(* family of subsets of a finite set has a minimal member, from which the rules *)
(* follow, is a hypothesis of theirs, so that an instance does not carry a copy *)
(* of the library's theorems.                                              *)
(***************************************************************************)
EXTENDS Integers, Sequences

CONSTANTS op(_,_,_), P(_,_,_,_)

Some(S) == CHOOSE x \in S : TRUE
Largest(S) == CHOOSE x \in S : \A y \in S : x >= y
Over(ctx, base, S) ==
  LET iter[s \in SUBSET S] ==
        IF s = {} THEN base
        ELSE LET x == Some(s) IN op(ctx, x, iter[s \ {x}])
  IN iter[S]
Along(ctx, base, seq) ==
  LET iter[s \in SUBSET DOMAIN seq] ==
        IF s = {} THEN base
        ELSE LET x == Largest(s) IN op(ctx, seq[x], iter[s \ {x}])
  IN iter[DOMAIN seq]

\* Every family of subsets of S has a minimal member, as it has when S is finite.
Founded(S) == \A fam \in SUBSET SUBSET S :
  fam # {} => \E low \in fam : \A any \in fam : any \subseteq low => any = low

\* One step of a fold over s, whose element is picked by pk and looked up in el.
Step(ctx, base, el, pk, f, s) ==
  IF s = {} THEN base ELSE op(ctx, el[pk[s]], f[s \ {pk[s]}])
Folds(ctx, base, el, pk, f, S) == f = [s \in SUBSET S |-> Step(ctx, base, el, pk, f, s)]

LEMMA FoldUnique ==
  ASSUME NEW ctx, NEW base, NEW el, NEW pk, NEW S, Founded(S),
         \A s \in SUBSET S : s # {} => pk[s] \in s,
         NEW T \in SUBSET S, NEW U \in SUBSET S, NEW f, NEW h,
         Folds(ctx, base, el, pk, f, T), Folds(ctx, base, el, pk, h, U)
  PROVE \A s \in SUBSET (T \cap U) : f[s] = h[s]
<1> DEFINE N == {s \in SUBSET (T \cap U) : f[s] # h[s]}
<1> SUFFICES ASSUME N # {} PROVE FALSE
  OBVIOUS
<1>1. PICK s \in N : \A u \in N : u \subseteq s => u = s
  <2>1. N \subseteq SUBSET S /\ N # {}
    OBVIOUS
  <2> HIDE DEF N
  <2> QED BY <2>1 DEF Founded
<1>2. s \in SUBSET T /\ s \in SUBSET U /\ s \in SUBSET S
  OBVIOUS
<1>3. f[s] = Step(ctx, base, el, pk, f, s) /\ h[s] = Step(ctx, base, el, pk, h, s)
  <2> HIDE DEF N
  <2> QED BY <1>2 DEF Folds
<1>4. s # {}
  BY <1>3 DEF Step
<1>5. pk[s] \in s
  BY <1>4, <1>2
<1>6. f[s \ {pk[s]}] = h[s \ {pk[s]}]
  BY <1>5, <1>1
<1>7. f[s] = h[s]
  BY <1>3, <1>4, <1>6 DEF Step
<1> QED
  BY <1>7

LEMMA FoldExists ==
  ASSUME NEW ctx, NEW base, NEW el, NEW pk, NEW S, Founded(S),
         \A s \in SUBSET S : s # {} => pk[s] \in s
  PROVE \E f : Folds(ctx, base, el, pk, f, S)
<1> DEFINE Has(T) == \E f : Folds(ctx, base, el, pk, f, T)
           N == {T \in SUBSET S : ~Has(T)}
<1> SUFFICES ASSUME N # {} PROVE FALSE
  OBVIOUS
<1>1. PICK T \in N : \A U \in N : U \subseteq T => U = T
  <2>1. N \subseteq SUBSET S /\ N # {}
    OBVIOUS
  <2> HIDE DEF N
  <2> QED BY <2>1 DEF Founded
<1>2. T \in SUBSET S /\ ~Has(T)
  OBVIOUS
<1>3. \A U \in SUBSET T : U # T => Has(U)
  <2> HIDE DEF Has
  <2> QED BY <1>1, <1>2
<1> DEFINE F(U) == CHOOSE f : Folds(ctx, base, el, pk, f, U)
           v == [U \in SUBSET T |-> F(U)[U]]
           g == [s \in SUBSET T |-> Step(ctx, base, el, pk, v, s)]
<1>4. ASSUME NEW U \in SUBSET T, U # T PROVE Folds(ctx, base, el, pk, F(U), U)
  <2>1. Has(U)
    BY <1>3, <1>4
  <2> QED BY <2>1
<1>5. ASSUME NEW U \in SUBSET T, U # T PROVE g[U] = v[U]
  <2>1. CASE U = {}
    <3>1. F(U)[U] = Step(ctx, base, el, pk, F(U), U)
      <4>1. Folds(ctx, base, el, pk, F(U), U)
        BY <1>4, <1>5
      <4> HIDE DEF F
      <4> QED BY <4>1 DEF Folds
    <3>2. F(U)[U] = base
      <4> HIDE DEF F
      <4> QED BY <3>1, <2>1 DEF Step
    <3>3. v[U] = F(U)[U]
      <4> HIDE DEF F
      <4> QED OBVIOUS
    <3>4. g[U] = base
      <4> HIDE DEF v
      <4> QED BY <2>1 DEF Step
    <3> HIDE DEF v, g, F
    <3> QED BY <3>2, <3>3, <3>4
  <2>2. CASE U # {}
    <3> DEFINE W == U \ {pk[U]}
    <3>1. pk[U] \in U
      BY <2>2, <1>2
    <3>2. W \in SUBSET U /\ W \in SUBSET T /\ W # T /\ W \in SUBSET S /\ U \in SUBSET S
      BY <3>1, <1>2
    <3>3. Folds(ctx, base, el, pk, F(U), U) /\ Folds(ctx, base, el, pk, F(W), W)
      <4>1. Folds(ctx, base, el, pk, F(U), U)
        BY <1>4, <1>5
      <4>2. Folds(ctx, base, el, pk, F(W), W)
        BY <1>4, <3>2
      <4> HIDE DEF F
      <4> QED BY <4>1, <4>2
    <3>4. F(U)[W] = F(W)[W]
      <4>1. W \in SUBSET (U \cap W)
        BY <3>2
      <4> HIDE DEF F, W
      <4>2. \A s \in SUBSET (U \cap W) : F(U)[s] = F(W)[s]
        BY <3>2, <3>3, FoldUnique
      <4> QED BY <4>1, <4>2
    <3>5. v[U] = F(U)[U] /\ v[W] = F(W)[W]
      <4> HIDE DEF F, W
      <4> QED BY <3>2
    <3>6. F(U)[U] = Step(ctx, base, el, pk, F(U), U)
      <4> HIDE DEF F
      <4> QED BY <3>3 DEF Folds
    <3>7. F(U)[U] = op(ctx, el[pk[U]], F(U)[W])
      <4> HIDE DEF F
      <4> QED BY <3>6, <2>2 DEF Step
    <3>8. g[U] = op(ctx, el[pk[U]], v[W])
      <4> HIDE DEF v
      <4> QED BY <2>2 DEF Step
    <3> HIDE DEF v, g, F, W
    <3> QED BY <3>4, <3>5, <3>7, <3>8
  <2> QED BY <2>1, <2>2
<1>6. ASSUME NEW s \in SUBSET T PROVE Step(ctx, base, el, pk, v, s) = Step(ctx, base, el, pk, g, s)
  <2>1. CASE s = {}
    BY <2>1 DEF Step
  <2>2. CASE s # {}
    <3>1. pk[s] \in s
      BY <2>2, <1>2
    <3>2. s \ {pk[s]} \in SUBSET T /\ s \ {pk[s]} # T
      BY <3>1
    <3>3. g[s \ {pk[s]}] = v[s \ {pk[s]}]
      BY <1>5, <3>2
    <3> HIDE DEF g, v
    <3> QED BY <3>3, <2>2 DEF Step
  <2> QED BY <2>1, <2>2
<1>7. Folds(ctx, base, el, pk, g, T)
  <2>1. g = [s \in SUBSET T |-> Step(ctx, base, el, pk, v, s)]
    OBVIOUS
  <2> HIDE DEF g, v
  <2> QED BY <2>1, <1>6 DEF Folds
<1> HIDE DEF g
<1> QED
  BY <1>7, <1>2

THEOREM FoldSetRule ==
  ASSUME NEW ctx, NEW aux, NEW S,
         \A fam \in SUBSET SUBSET S : fam # {} => \E low \in fam : \A any \in fam : any \subseteq low => any = low,
         NEW base, P(aux, ctx, {}, base),
         \A T \in SUBSET S : \A x \in S \ T : \A acc : P(aux, ctx, T, acc) => P(aux, ctx, T \cup {x}, op(ctx, x, acc))
  PROVE P(aux, ctx, S, Over(ctx, base, S))
<1> DEFINE pick(s) == CHOOSE x \in s : TRUE
           Body(f) == [s \in SUBSET S |-> IF s = {} THEN base ELSE op(ctx, pick(s), f[s \ {pick(s)}])]
           iter == CHOOSE f : f = Body(f)
           el == [x \in S |-> x]
           pk == [s \in SUBSET S |-> pick(s)]
<1>0. Founded(S)
  BY DEF Founded
<1>1. Over(ctx, base, S) = iter[S]
  BY DEF Over, Some
<1>2. \A s \in SUBSET S : s # {} => pick(s) \in s
  OBVIOUS
<1>3. \A s \in SUBSET S : s # {} => pk[s] \in s
  BY <1>2
<1>4. PICK h : Folds(ctx, base, el, pk, h, S)
  <2> HIDE DEF el, pk
  <2> QED BY <1>0, <1>3, FoldExists
<1>5. h = [s \in SUBSET S |-> IF s = {} THEN base ELSE op(ctx, pick(s), h[s \ {pick(s)}])]
  <2>1. ASSUME NEW s \in SUBSET S
        PROVE Step(ctx, base, el, pk, h, s) = IF s = {} THEN base ELSE op(ctx, pick(s), h[s \ {pick(s)}])
    <3>1. s # {} => el[pk[s]] = pick(s) /\ pk[s] = pick(s)
      <4> HIDE DEF pick
      <4> QED BY <1>2
    <3> HIDE DEF el, pk, pick
    <3> QED BY <3>1 DEF Step
  <2> HIDE DEF el, pk, pick
  <2> QED BY <2>1, <1>4 DEF Folds
<1>6. h = Body(h)
  BY <1>5
<1>7. iter = Body(iter)
  <2> HIDE DEF Body
  <2> QED BY <1>6
<1> HIDE DEF iter, el, pk
<1>8. \A s \in SUBSET S : iter[s] = IF s = {} THEN base ELSE op(ctx, pick(s), iter[s \ {pick(s)}])
  <2> HIDE DEF pick
  <2> QED BY <1>7
<1> HIDE DEF Body
<1>10. SUFFICES ASSUME {T \in SUBSET S : ~P(aux, ctx, T, iter[T])} # {} PROVE FALSE
  BY <1>1
<1> DEFINE N == {T \in SUBSET S : ~P(aux, ctx, T, iter[T])}
<1>11. PICK T \in N : \A U \in N : U \subseteq T => U = T
  <2>1. N \subseteq SUBSET S /\ N # {}
    BY <1>10
  <2> HIDE DEF N
  <2> QED BY <2>1, <1>0 DEF Founded
<1>12. T \in SUBSET S /\ ~P(aux, ctx, T, iter[T])
  OBVIOUS
<1>13. T # {}
  <2> HIDE DEF pick
  <2> QED BY <1>12, <1>8
<1> DEFINE x == pick(T)
           U == T \ {x}
<1>14. x \in T
  <2> HIDE DEF pick
  <2> QED BY <1>13, <1>12, <1>2
<1>15. U \in SUBSET S /\ x \in S \ U /\ T = U \cup {x} /\ U # T /\ U \subseteq T
  <2> HIDE DEF x
  <2> QED BY <1>14, <1>12
<1>16. P(aux, ctx, U, iter[U])
  <2> HIDE DEF U
  <2> QED BY <1>15, <1>11
<1>17. iter[T] = op(ctx, x, iter[U])
  <2> HIDE DEF pick
  <2> QED BY <1>8, <1>12, <1>13
<1> HIDE DEF x, U, N
<1>18. P(aux, ctx, U \cup {x}, op(ctx, x, iter[U]))
  BY <1>15, <1>16
<1> QED
  BY <1>18, <1>17, <1>15, <1>12

LEMMA HasMax ==
  ASSUME NEW n \in Nat, Founded(1 .. n), NEW s \in SUBSET (1 .. n), s # {}
  PROVE Largest(s) \in s /\ \A y \in s : y <= Largest(s)
<1> DEFINE N == {1 .. k : k \in {j \in 1 .. n : s \subseteq 1 .. j}}
<1>1. Founded(1 .. n)
  OBVIOUS
<1>2. N \subseteq SUBSET (1 .. n)
  OBVIOUS
<1>3. n \in 1 .. n /\ s \subseteq 1 .. n
  <2>1. PICK y \in s : y \in 1 .. n
    OBVIOUS
  <2> QED BY <2>1
<1>4. N # {}
  BY <1>3
<1>5. PICK T \in N : \A U \in N : U \subseteq T => U = T
  <2> DEFINE I == 1 .. n
  <2>1. Founded(I) /\ N \subseteq SUBSET I
    BY <1>1, <1>2
  <2> HIDE DEF N, I
  <2> QED BY <2>1, <1>4 DEF Founded
<1>6. PICK k \in 1 .. n : T = 1 .. k /\ s \subseteq 1 .. k
  OBVIOUS
<1>7. k \in s
  <2>1. SUFFICES ASSUME k \notin s PROVE FALSE
    OBVIOUS
  <2>2. s \subseteq 1 .. (k - 1)
    BY <2>1, <1>6
  <2>a. PICK y \in s : y \in 1 .. (k - 1)
    BY <2>2
  <2>3. k - 1 \in 1 .. n
    BY <2>a
  <2>4. 1 .. (k - 1) \in N
    BY <2>2, <2>3
  <2>5. 1 .. (k - 1) = 1 .. k
    <3>1. 1 .. (k - 1) \subseteq 1 .. k
      OBVIOUS
    <3> HIDE DEF N
    <3> QED BY <3>1, <2>4, <1>5, <1>6
  <2> QED BY <2>5
<1>8. \A y \in s : y <= k
  BY <1>6
<1>9. \E x \in s : \A y \in s : x >= y
  BY <1>7, <1>8
<1>10. Largest(s) \in s /\ \A y \in s : Largest(s) >= y
  BY <1>9 DEF Largest
<1> QED
  BY <1>10

THEOREM FoldLeftRule ==
  ASSUME NEW ctx, NEW aux, NEW n \in Nat,
         \A fam \in SUBSET SUBSET (1 .. n) : fam # {} => \E low \in fam : \A any \in fam : any \subseteq low => any = low,
         NEW seq, DOMAIN seq = 1 .. n, NEW base, P(aux, ctx, 0, base),
         \A i \in 1 .. n : \A acc : P(aux, ctx, i - 1, acc) => P(aux, ctx, i, op(ctx, seq[i], acc))
  PROVE P(aux, ctx, n, Along(ctx, base, seq))
<1> DEFINE S == DOMAIN seq
           Body(f) == [s \in SUBSET S |-> IF s = {} THEN base ELSE op(ctx, seq[Largest(s)], f[s \ {Largest(s)}])]
           iter == CHOOSE f : f = Body(f)
           pk == [s \in SUBSET S |-> Largest(s)]
<1>1. Along(ctx, base, seq) = iter[S]
  BY DEF Along
<1>a. S = 1 .. n /\ n \in Nat
  OBVIOUS
<1>b. Founded(S)
  BY <1>a DEF Founded
<1>2. \A s \in SUBSET S : s # {} => Largest(s) \in s
  BY <1>a, <1>b, HasMax
<1>3. \A s \in SUBSET S : s # {} => pk[s] \in s
  <2> HIDE DEF S
  <2> QED BY <1>2
<1>4. PICK h : Folds(ctx, base, seq, pk, h, S)
  <2> HIDE DEF pk, S
  <2> QED BY <1>3, <1>b, FoldExists
<1>5. h = [s \in SUBSET S |-> IF s = {} THEN base ELSE op(ctx, seq[Largest(s)], h[s \ {Largest(s)}])]
  <2>1. ASSUME NEW s \in SUBSET S
        PROVE Step(ctx, base, seq, pk, h, s) = IF s = {} THEN base ELSE op(ctx, seq[Largest(s)], h[s \ {Largest(s)}])
    <3>1. pk[s] = Largest(s)
      <4> HIDE DEF S
      <4> QED OBVIOUS
    <3> HIDE DEF pk, S
    <3> QED BY <3>1 DEF Step
  <2> HIDE DEF pk, S
  <2> QED BY <2>1, <1>4 DEF Folds
<1>6. h = Body(h)
  BY <1>5
<1>7. iter = Body(iter)
  <2> HIDE DEF Body
  <2> QED BY <1>6
<1> HIDE DEF iter, pk, S
<1>8. \A s \in SUBSET S : iter[s] = IF s = {} THEN base ELSE op(ctx, seq[Largest(s)], iter[s \ {Largest(s)}])
  BY <1>7
<1> HIDE DEF Body
<1> SUFFICES ASSUME ~P(aux, ctx, n, iter[1 .. n]) PROVE FALSE
  BY <1>1, <1>a
<1> DEFINE N == {1 .. k : k \in {j \in 0 .. n : ~P(aux, ctx, j, iter[1 .. j])}}
<1>11. PICK T \in N : \A U \in N : U \subseteq T => U = T
  <2>1. N \subseteq SUBSET S
    BY <1>a
  <2>2. n \in 0 .. n
    BY <1>a
  <2>3. N # {}
    BY <2>2
  <2> HIDE DEF N
  <2> QED BY <2>1, <2>3, <1>b DEF Founded
<1>12. PICK k \in 0 .. n : T = 1 .. k /\ ~P(aux, ctx, k, iter[1 .. k])
  OBVIOUS
<1>c. k \in Nat /\ 1 .. k \in SUBSET S
  BY <1>a
<1>13. k # 0
  <2>1. SUFFICES ASSUME k = 0 PROVE FALSE
    OBVIOUS
  <2>2. 1 .. k = {}
    BY <2>1
  <2>3. iter[1 .. k] = base
    BY <2>2, <1>8
  <2> QED BY <2>1, <2>3, <1>12
<1>14. Largest(1 .. k) = k
  <2>a. k \in 1 .. k
    BY <1>13, <1>c
  <2>1. 1 .. k # {} /\ 1 .. k \in SUBSET (1 .. n) /\ Founded(1 .. n)
    BY <2>a, <1>a, <1>b, <1>c
  <2>2. Largest(1 .. k) \in 1 .. k /\ \A y \in 1 .. k : y <= Largest(1 .. k)
    BY <2>1, <1>c, HasMax
  <2>3. k \in 1 .. k
    BY <1>13, <1>c
  <2> HIDE DEF N
  <2> QED BY <2>2, <2>3, <1>c
<1>15. (1 .. k) \ {k} = 1 .. (k - 1) /\ k - 1 \in 0 .. n /\ 1 .. k # {}
  <2>1. k \in 1 .. k
    BY <1>13, <1>c
  <2>2. (1 .. k) \ {k} = 1 .. (k - 1)
    BY <1>13, <1>c
  <2>3. k - 1 \in 0 .. n
    BY <1>13, <1>c
  <2> QED BY <2>1, <2>2, <2>3
<1>16. iter[1 .. k] = op(ctx, seq[k], iter[1 .. (k - 1)])
  BY <1>8, <1>14, <1>15, <1>c
<1>17. P(aux, ctx, k - 1, iter[1 .. (k - 1)])
  <2>1. SUFFICES ASSUME ~P(aux, ctx, k - 1, iter[1 .. (k - 1)]) PROVE FALSE
    OBVIOUS
  <2>2. 1 .. (k - 1) \in N
    BY <2>1, <1>15
  <2>3. 1 .. (k - 1) \subseteq 1 .. k /\ k \in 1 .. k /\ k \notin 1 .. (k - 1)
    BY <1>13, <1>c
  <2> HIDE DEF N
  <2> QED BY <2>2, <2>3, <1>11, <1>12
<1>18. k \in 1 .. n
  BY <1>13
<1>19. P(aux, ctx, k, op(ctx, seq[k], iter[1 .. (k - 1)]))
  BY <1>17, <1>18
<1> QED
  BY <1>19, <1>16, <1>12
================================================================================
