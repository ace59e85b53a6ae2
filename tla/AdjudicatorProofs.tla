-------------------------- MODULE AdjudicatorProofs --------------------------
(***************************************************************************)
(* The resolution of a movement phase settles the moves, whatever the      *)
(* units, their orders and the map: no unit arrives where another one is   *)
(* or comes, and who must leave is told so (Adjudicator!Settled).          *)
(*                                                                         *)
(* The loops of the code are folds of the model: what a fold computes are  *)
(* its values between the steps (Runs), and what each step keeps is kept   *)
(* along them (AlongLemma).  The steps before the battles keep Primed: no  *)
(* unit has bounced or is dislodged, no unit that moves gives support.     *)
(* From the strengths on it is Fight: the entries of the combat are those  *)
(* of units, and a unit that attacks has one where it goes.  The loops of  *)
(* the battles go on while a pass gives some unit its first result, so     *)
(* they end within as many passes as there are units, and then it is Calm: *)
(* who attacks is the one strongest of its place.  The dislodgements keep  *)
(* Going: of the places dealt with, each unit that goes has its way clear. *)
(***************************************************************************)
EXTENDS Adjudicator, SequenceTheorems, FiniteSetTheorems, TLAPS

-----------------------------------------------------------------------------
(* Induction without an operator for a parameter. *)

\* A set of numbers has a least one.
LEMMA LeastOne ==
    ASSUME NEW A, A \subseteq Nat, A # {}
    PROVE  \E x \in A : \A y \in A : x <= y
  <1>1. PICK x \in A : \A y \in A : ~(<<y, x>> \in OpToRel(<, Nat))
    BY NatLessThanWellFounded, WFMin
  <1>2. \A y \in A : ~(y < x)
    BY <1>1 DEF OpToRel
  <1>. QED  BY <1>2

\* A set that has 0 and goes on from each number to the next has all of them.
LEMMA AlongLemma ==
    ASSUME NEW N \in Nat, NEW S, 0 \in S, \A n \in 1..N : n - 1 \in S => n \in S
    PROVE  \A n \in 0..N : n \in S
  <1>. DEFINE Bad == {n \in 0..N : n \notin S}
  <1>. SUFFICES ASSUME Bad # {} PROVE FALSE
    OBVIOUS
  <1>1. PICK n \in Bad : \A m \in Bad : n <= m
    <2>1. Bad \subseteq Nat
      OBVIOUS
    <2>. HIDE DEF Bad
    <2>. QED  BY <2>1, LeastOne
  <1>2. n # 0 /\ n \in 1..N /\ n - 1 \in 0..N /\ ~(n <= n - 1)
    OBVIOUS
  <1>3. n - 1 \in S
    BY <1>1, <1>2
  <1>. QED  BY <1>2, <1>3

-----------------------------------------------------------------------------
(* The loops of an adjudication: what FoldLeft computes. *)

DisruptPlace(x, u, f, tag, cotag) == IF f.loc \in x.may[u] THEN DisruptAt(x, u, f.loc, tag, cotag) ELSE x
DisruptUnit(x, u, units, tag, cotag) == FoldLeft(LAMBDA y, f : DisruptPlace(y, u, f, tag, cotag), x, units)

\* A step of each of the loops.
Does(k, a, x, e) ==
    CASE k = "ConvoyedMove" -> ConvoyedMove(x, e)
      [] k = "ConvoyOrder" -> ConvoyOrder(x, e)
      [] k = "SupportOrder" -> SupportOrder(x, e)
      [] k = "DirectCut" -> DirectCut(x, e)
      [] k = "DisruptPlace" -> DisruptPlace(x, a[1], e, a[2], a[3])
      [] k = "DisruptUnit" -> DisruptUnit(x, e, a[1], a[2], a[3])
      [] k = "SureCut" -> SureCut(x, e)
      [] k = "DoubtfulCut" -> DoubtfulCut(x, e)
      [] k = "ConvoyPass" -> IF x.more THEN ConvoyPass([x EXCEPT !.more = FALSE]) ELSE x
      [] k = "Boing" -> Boing(x, e)
      [] k = "SwapBounce" -> SwapBounce(x, e)
      [] k = "Outgunned" -> Outgunned(x, e)
      [] k = "SelfDislodge" -> SelfDislodge(x, e)
      [] k = "BouncePass" -> IF x.more THEN BouncePass([x EXCEPT !.more = FALSE]) ELSE x
      [] k = "DislodgeCut" -> DislodgeCut(x, e)
      [] k = "BattlePass" -> IF x.more THEN BattlePass([x EXCEPT !.more = FALSE]) ELSE x
      [] k = "UnbounceAt" -> UnbounceAt(x, e)
      [] OTHER -> Dislodge(x, e)

\* A fold by its recursion, over the places of the list that are left.
IsFold(it, k, a, base, list, n) ==
    it = [s \in SUBSET (1..n) |-> IF s = {} THEN base ELSE Does(k, a, it[s \ {Max(s)}], list[Max(s)])]

LEMMA MaxLemma ==
    ASSUME NEW n \in Nat, NEW s \in SUBSET (1..n), n \in s
    PROVE  Max(s) = n
  <1>1. \A y \in s : n >= y
    OBVIOUS
  <1>2. \A x \in s : (\A y \in s : x >= y) => x = n
    OBVIOUS
  <1>. QED  BY <1>1, <1>2 DEF Max

LEMMA IterLemma ==
    ASSUME NEW k, NEW a, NEW base, NEW list, NEW N \in Nat
    PROVE  \E it : IsFold(it, k, a, base, list, N)
  <1>. DEFINE Bad == {n \in Nat : ~\E it : IsFold(it, k, a, base, list, n)}
  <1>. SUFFICES ASSUME Bad # {} PROVE FALSE
    OBVIOUS
  <1>1. PICK n \in Bad : \A m \in Bad : n <= m
    <2>1. Bad \subseteq Nat
      OBVIOUS
    <2>. HIDE DEF Bad
    <2>. QED  BY <2>1, LeastOne
  <1>2. n # 0
    <2>. DEFINE f == [s \in SUBSET (1..0) |-> base]
    <2>1. f = [s \in SUBSET (1..0) |-> IF s = {} THEN base ELSE Does(k, a, f[s \ {Max(s)}], list[Max(s)])]
      OBVIOUS
    <2>. HIDE DEF f
    <2>2. IsFold(f, k, a, base, list, 0)
      BY <2>1 DEF IsFold
    <2>. QED  BY <2>2
  <1>3. n - 1 \in Nat /\ n - 1 \notin Bad
    BY <1>1, <1>2
  <1>4. PICK f : IsFold(f, k, a, base, list, n - 1)
    BY <1>3
  <1>5. \A s \in SUBSET (1..n - 1) : f[s] = IF s = {} THEN base ELSE Does(k, a, f[s \ {Max(s)}], list[Max(s)])
    BY <1>4 DEF IsFold
  <1>. DEFINE h == [s \in SUBSET (1..n) |-> IF n \in s THEN Does(k, a, f[s \ {n}], list[n]) ELSE f[s]]
  <1>6. \A s \in SUBSET (1..n) : n \in s => h[s] = Does(k, a, f[s \ {n}], list[n])
    OBVIOUS
  <1>7. \A s \in SUBSET (1..n) : n \notin s => h[s] = f[s]
    OBVIOUS
  <1>8. h = [s \in SUBSET (1..n) |-> h[s]]
    OBVIOUS
  <1>. HIDE DEF h
  <1>9. ASSUME NEW s \in SUBSET (1..n) PROVE h[s] = IF s = {} THEN base ELSE Does(k, a, h[s \ {Max(s)}], list[Max(s)])
    <2>1. CASE n \in s
      <3>1. Max(s) = n
        BY <2>1, <1>3, MaxLemma
      <3>2. s \ {n} \in SUBSET (1..n) /\ n \notin s \ {n}
        OBVIOUS
      <3>3. h[s \ {n}] = f[s \ {n}]
        BY <3>2, <1>7
      <3>. QED  BY <1>6, <2>1, <3>1, <3>3
    <2>2. CASE n \notin s
      <3>1. s \in SUBSET (1..n - 1)
        BY <2>2, <1>3
      <3>2. s \ {Max(s)} \in SUBSET (1..n) /\ n \notin s \ {Max(s)}
        BY <2>2
      <3>3. h[s] = f[s] /\ h[s \ {Max(s)}] = f[s \ {Max(s)}]
        BY <1>7, <2>2, <3>2
      <3>. QED  BY <1>5, <3>1, <3>3
    <2>. QED  BY <2>1, <2>2
  <1>10. IsFold(h, k, a, base, list, n)
    BY <1>8, <1>9 DEF IsFold
  <1>. QED  BY <1>1, <1>10


\* The values between the steps.
Runs(f, k, a, base, list, N) ==
    f[0] = base /\ \A n \in 1..N : f[n] = Does(k, a, f[n - 1], list[n])

LEMMA RunsLemma ==
    ASSUME NEW it, NEW k, NEW a, NEW base, NEW list, NEW N \in Nat, IsFold(it, k, a, base, list, N)
    PROVE  \E f : Runs(f, k, a, base, list, N) /\ it[1..N] = f[N]
  <1>. DEFINE f == [n \in 0..N |-> it[1..n]]
  <1>1. \A s \in SUBSET (1..N) : it[s] = IF s = {} THEN base ELSE Does(k, a, it[s \ {Max(s)}], list[Max(s)])
    BY DEF IsFold
  <1>2. \A n \in 0..N : f[n] = it[1..n]
    OBVIOUS
  <1>. HIDE DEF f
  <1>3. f[0] = base
    <2>1. 1..0 = {}
      OBVIOUS
    <2>. QED  BY <1>1, <1>2, <2>1
  <1>4. ASSUME NEW n \in 1..N PROVE f[n] = Does(k, a, f[n - 1], list[n])
    <2>1. 1..n \in SUBSET (1..N) /\ n \in 1..n /\ n \in Nat /\ n - 1 \in 0..N /\ n \in 0..N
      OBVIOUS
    <2>2. Max(1..n) = n
      BY <2>1, MaxLemma
    <2>3. (1..n) \ {n} = 1..(n - 1)
      OBVIOUS
    <2>. QED  BY <1>1, <1>2, <2>1, <2>2, <2>3
  <1>. QED  BY <1>2, <1>3, <1>4 DEF Runs

\* Each of the loops has such values, and the last one is its result.
LEMMA FoldConvoyedMove ==
    ASSUME NEW base, NEW list, NEW N \in Nat, DOMAIN list = 1..N, NEW y, y = FoldLeft(ConvoyedMove, base, list)
    PROVE  \E f : Runs(f, "ConvoyedMove", <<>>, base, list, N) /\ y = f[N]
  <1>. DEFINE Ok(f) == f = [s \in SUBSET (1..N) |-> IF s = {} THEN base ELSE Does("ConvoyedMove", <<>>, f[s \ {Max(s)}], list[Max(s)])]
  <1>1. y = (CHOOSE f : Ok(f))[1..N]
    BY DEF FoldLeft, MapThenFoldSet, Does
  <1>2. \A f : IsFold(f, "ConvoyedMove", <<>>, base, list, N) <=> Ok(f)
    BY DEF IsFold
  <1>. HIDE DEF Ok
  <1>3. \E f : Ok(f)
    BY ONLY <1>2, IterLemma, N \in Nat
  <1>4. PICK f : f = CHOOSE x : Ok(x)
    OBVIOUS
  <1>5. IsFold(f, "ConvoyedMove", <<>>, base, list, N)
    BY ONLY <1>2, <1>3, <1>4
  <1>6. y = f[1..N]
    BY ONLY <1>1, <1>4
  <1>. QED  BY ONLY <1>5, <1>6, N \in Nat, RunsLemma

LEMMA FoldConvoyOrder ==
    ASSUME NEW base, NEW list, NEW N \in Nat, DOMAIN list = 1..N, NEW y, y = FoldLeft(ConvoyOrder, base, list)
    PROVE  \E f : Runs(f, "ConvoyOrder", <<>>, base, list, N) /\ y = f[N]
  <1>. DEFINE Ok(f) == f = [s \in SUBSET (1..N) |-> IF s = {} THEN base ELSE Does("ConvoyOrder", <<>>, f[s \ {Max(s)}], list[Max(s)])]
  <1>1. y = (CHOOSE f : Ok(f))[1..N]
    BY DEF FoldLeft, MapThenFoldSet, Does
  <1>2. \A f : IsFold(f, "ConvoyOrder", <<>>, base, list, N) <=> Ok(f)
    BY DEF IsFold
  <1>. HIDE DEF Ok
  <1>3. \E f : Ok(f)
    BY ONLY <1>2, IterLemma, N \in Nat
  <1>4. PICK f : f = CHOOSE x : Ok(x)
    OBVIOUS
  <1>5. IsFold(f, "ConvoyOrder", <<>>, base, list, N)
    BY ONLY <1>2, <1>3, <1>4
  <1>6. y = f[1..N]
    BY ONLY <1>1, <1>4
  <1>. QED  BY ONLY <1>5, <1>6, N \in Nat, RunsLemma

LEMMA FoldSupportOrder ==
    ASSUME NEW base, NEW list, NEW N \in Nat, DOMAIN list = 1..N, NEW y, y = FoldLeft(SupportOrder, base, list)
    PROVE  \E f : Runs(f, "SupportOrder", <<>>, base, list, N) /\ y = f[N]
  <1>. DEFINE Ok(f) == f = [s \in SUBSET (1..N) |-> IF s = {} THEN base ELSE Does("SupportOrder", <<>>, f[s \ {Max(s)}], list[Max(s)])]
  <1>1. y = (CHOOSE f : Ok(f))[1..N]
    BY DEF FoldLeft, MapThenFoldSet, Does
  <1>2. \A f : IsFold(f, "SupportOrder", <<>>, base, list, N) <=> Ok(f)
    BY DEF IsFold
  <1>. HIDE DEF Ok
  <1>3. \E f : Ok(f)
    BY ONLY <1>2, IterLemma, N \in Nat
  <1>4. PICK f : f = CHOOSE x : Ok(x)
    OBVIOUS
  <1>5. IsFold(f, "SupportOrder", <<>>, base, list, N)
    BY ONLY <1>2, <1>3, <1>4
  <1>6. y = f[1..N]
    BY ONLY <1>1, <1>4
  <1>. QED  BY ONLY <1>5, <1>6, N \in Nat, RunsLemma

LEMMA FoldDirectCut ==
    ASSUME NEW base, NEW list, NEW N \in Nat, DOMAIN list = 1..N, NEW y, y = FoldLeft(DirectCut, base, list)
    PROVE  \E f : Runs(f, "DirectCut", <<>>, base, list, N) /\ y = f[N]
  <1>. DEFINE Ok(f) == f = [s \in SUBSET (1..N) |-> IF s = {} THEN base ELSE Does("DirectCut", <<>>, f[s \ {Max(s)}], list[Max(s)])]
  <1>1. y = (CHOOSE f : Ok(f))[1..N]
    BY DEF FoldLeft, MapThenFoldSet, Does
  <1>2. \A f : IsFold(f, "DirectCut", <<>>, base, list, N) <=> Ok(f)
    BY DEF IsFold
  <1>. HIDE DEF Ok
  <1>3. \E f : Ok(f)
    BY ONLY <1>2, IterLemma, N \in Nat
  <1>4. PICK f : f = CHOOSE x : Ok(x)
    OBVIOUS
  <1>5. IsFold(f, "DirectCut", <<>>, base, list, N)
    BY ONLY <1>2, <1>3, <1>4
  <1>6. y = f[1..N]
    BY ONLY <1>1, <1>4
  <1>. QED  BY ONLY <1>5, <1>6, N \in Nat, RunsLemma

LEMMA FoldSureCut ==
    ASSUME NEW base, NEW list, NEW N \in Nat, DOMAIN list = 1..N, NEW y, y = FoldLeft(SureCut, base, list)
    PROVE  \E f : Runs(f, "SureCut", <<>>, base, list, N) /\ y = f[N]
  <1>. DEFINE Ok(f) == f = [s \in SUBSET (1..N) |-> IF s = {} THEN base ELSE Does("SureCut", <<>>, f[s \ {Max(s)}], list[Max(s)])]
  <1>1. y = (CHOOSE f : Ok(f))[1..N]
    BY DEF FoldLeft, MapThenFoldSet, Does
  <1>2. \A f : IsFold(f, "SureCut", <<>>, base, list, N) <=> Ok(f)
    BY DEF IsFold
  <1>. HIDE DEF Ok
  <1>3. \E f : Ok(f)
    BY ONLY <1>2, IterLemma, N \in Nat
  <1>4. PICK f : f = CHOOSE x : Ok(x)
    OBVIOUS
  <1>5. IsFold(f, "SureCut", <<>>, base, list, N)
    BY ONLY <1>2, <1>3, <1>4
  <1>6. y = f[1..N]
    BY ONLY <1>1, <1>4
  <1>. QED  BY ONLY <1>5, <1>6, N \in Nat, RunsLemma

LEMMA FoldDoubtfulCut ==
    ASSUME NEW base, NEW list, NEW N \in Nat, DOMAIN list = 1..N, NEW y, y = FoldLeft(DoubtfulCut, base, list)
    PROVE  \E f : Runs(f, "DoubtfulCut", <<>>, base, list, N) /\ y = f[N]
  <1>. DEFINE Ok(f) == f = [s \in SUBSET (1..N) |-> IF s = {} THEN base ELSE Does("DoubtfulCut", <<>>, f[s \ {Max(s)}], list[Max(s)])]
  <1>1. y = (CHOOSE f : Ok(f))[1..N]
    BY DEF FoldLeft, MapThenFoldSet, Does
  <1>2. \A f : IsFold(f, "DoubtfulCut", <<>>, base, list, N) <=> Ok(f)
    BY DEF IsFold
  <1>. HIDE DEF Ok
  <1>3. \E f : Ok(f)
    BY ONLY <1>2, IterLemma, N \in Nat
  <1>4. PICK f : f = CHOOSE x : Ok(x)
    OBVIOUS
  <1>5. IsFold(f, "DoubtfulCut", <<>>, base, list, N)
    BY ONLY <1>2, <1>3, <1>4
  <1>6. y = f[1..N]
    BY ONLY <1>1, <1>4
  <1>. QED  BY ONLY <1>5, <1>6, N \in Nat, RunsLemma

LEMMA FoldBoing ==
    ASSUME NEW base, NEW list, NEW N \in Nat, DOMAIN list = 1..N, NEW y, y = FoldLeft(Boing, base, list)
    PROVE  \E f : Runs(f, "Boing", <<>>, base, list, N) /\ y = f[N]
  <1>. DEFINE Ok(f) == f = [s \in SUBSET (1..N) |-> IF s = {} THEN base ELSE Does("Boing", <<>>, f[s \ {Max(s)}], list[Max(s)])]
  <1>1. y = (CHOOSE f : Ok(f))[1..N]
    BY DEF FoldLeft, MapThenFoldSet, Does
  <1>2. \A f : IsFold(f, "Boing", <<>>, base, list, N) <=> Ok(f)
    BY DEF IsFold
  <1>. HIDE DEF Ok
  <1>3. \E f : Ok(f)
    BY ONLY <1>2, IterLemma, N \in Nat
  <1>4. PICK f : f = CHOOSE x : Ok(x)
    OBVIOUS
  <1>5. IsFold(f, "Boing", <<>>, base, list, N)
    BY ONLY <1>2, <1>3, <1>4
  <1>6. y = f[1..N]
    BY ONLY <1>1, <1>4
  <1>. QED  BY ONLY <1>5, <1>6, N \in Nat, RunsLemma

LEMMA FoldSwapBounce ==
    ASSUME NEW base, NEW list, NEW N \in Nat, DOMAIN list = 1..N, NEW y, y = FoldLeft(SwapBounce, base, list)
    PROVE  \E f : Runs(f, "SwapBounce", <<>>, base, list, N) /\ y = f[N]
  <1>. DEFINE Ok(f) == f = [s \in SUBSET (1..N) |-> IF s = {} THEN base ELSE Does("SwapBounce", <<>>, f[s \ {Max(s)}], list[Max(s)])]
  <1>1. y = (CHOOSE f : Ok(f))[1..N]
    BY DEF FoldLeft, MapThenFoldSet, Does
  <1>2. \A f : IsFold(f, "SwapBounce", <<>>, base, list, N) <=> Ok(f)
    BY DEF IsFold
  <1>. HIDE DEF Ok
  <1>3. \E f : Ok(f)
    BY ONLY <1>2, IterLemma, N \in Nat
  <1>4. PICK f : f = CHOOSE x : Ok(x)
    OBVIOUS
  <1>5. IsFold(f, "SwapBounce", <<>>, base, list, N)
    BY ONLY <1>2, <1>3, <1>4
  <1>6. y = f[1..N]
    BY ONLY <1>1, <1>4
  <1>. QED  BY ONLY <1>5, <1>6, N \in Nat, RunsLemma

LEMMA FoldOutgunned ==
    ASSUME NEW base, NEW list, NEW N \in Nat, DOMAIN list = 1..N, NEW y, y = FoldLeft(Outgunned, base, list)
    PROVE  \E f : Runs(f, "Outgunned", <<>>, base, list, N) /\ y = f[N]
  <1>. DEFINE Ok(f) == f = [s \in SUBSET (1..N) |-> IF s = {} THEN base ELSE Does("Outgunned", <<>>, f[s \ {Max(s)}], list[Max(s)])]
  <1>1. y = (CHOOSE f : Ok(f))[1..N]
    BY DEF FoldLeft, MapThenFoldSet, Does
  <1>2. \A f : IsFold(f, "Outgunned", <<>>, base, list, N) <=> Ok(f)
    BY DEF IsFold
  <1>. HIDE DEF Ok
  <1>3. \E f : Ok(f)
    BY ONLY <1>2, IterLemma, N \in Nat
  <1>4. PICK f : f = CHOOSE x : Ok(x)
    OBVIOUS
  <1>5. IsFold(f, "Outgunned", <<>>, base, list, N)
    BY ONLY <1>2, <1>3, <1>4
  <1>6. y = f[1..N]
    BY ONLY <1>1, <1>4
  <1>. QED  BY ONLY <1>5, <1>6, N \in Nat, RunsLemma

LEMMA FoldSelfDislodge ==
    ASSUME NEW base, NEW list, NEW N \in Nat, DOMAIN list = 1..N, NEW y, y = FoldLeft(SelfDislodge, base, list)
    PROVE  \E f : Runs(f, "SelfDislodge", <<>>, base, list, N) /\ y = f[N]
  <1>. DEFINE Ok(f) == f = [s \in SUBSET (1..N) |-> IF s = {} THEN base ELSE Does("SelfDislodge", <<>>, f[s \ {Max(s)}], list[Max(s)])]
  <1>1. y = (CHOOSE f : Ok(f))[1..N]
    BY DEF FoldLeft, MapThenFoldSet, Does
  <1>2. \A f : IsFold(f, "SelfDislodge", <<>>, base, list, N) <=> Ok(f)
    BY DEF IsFold
  <1>. HIDE DEF Ok
  <1>3. \E f : Ok(f)
    BY ONLY <1>2, IterLemma, N \in Nat
  <1>4. PICK f : f = CHOOSE x : Ok(x)
    OBVIOUS
  <1>5. IsFold(f, "SelfDislodge", <<>>, base, list, N)
    BY ONLY <1>2, <1>3, <1>4
  <1>6. y = f[1..N]
    BY ONLY <1>1, <1>4
  <1>. QED  BY ONLY <1>5, <1>6, N \in Nat, RunsLemma

LEMMA FoldDislodgeCut ==
    ASSUME NEW base, NEW list, NEW N \in Nat, DOMAIN list = 1..N, NEW y, y = FoldLeft(DislodgeCut, base, list)
    PROVE  \E f : Runs(f, "DislodgeCut", <<>>, base, list, N) /\ y = f[N]
  <1>. DEFINE Ok(f) == f = [s \in SUBSET (1..N) |-> IF s = {} THEN base ELSE Does("DislodgeCut", <<>>, f[s \ {Max(s)}], list[Max(s)])]
  <1>1. y = (CHOOSE f : Ok(f))[1..N]
    BY DEF FoldLeft, MapThenFoldSet, Does
  <1>2. \A f : IsFold(f, "DislodgeCut", <<>>, base, list, N) <=> Ok(f)
    BY DEF IsFold
  <1>. HIDE DEF Ok
  <1>3. \E f : Ok(f)
    BY ONLY <1>2, IterLemma, N \in Nat
  <1>4. PICK f : f = CHOOSE x : Ok(x)
    OBVIOUS
  <1>5. IsFold(f, "DislodgeCut", <<>>, base, list, N)
    BY ONLY <1>2, <1>3, <1>4
  <1>6. y = f[1..N]
    BY ONLY <1>1, <1>4
  <1>. QED  BY ONLY <1>5, <1>6, N \in Nat, RunsLemma

LEMMA FoldUnbounceAt ==
    ASSUME NEW base, NEW list, NEW N \in Nat, DOMAIN list = 1..N, NEW y, y = FoldLeft(UnbounceAt, base, list)
    PROVE  \E f : Runs(f, "UnbounceAt", <<>>, base, list, N) /\ y = f[N]
  <1>. DEFINE Ok(f) == f = [s \in SUBSET (1..N) |-> IF s = {} THEN base ELSE Does("UnbounceAt", <<>>, f[s \ {Max(s)}], list[Max(s)])]
  <1>1. y = (CHOOSE f : Ok(f))[1..N]
    BY DEF FoldLeft, MapThenFoldSet, Does
  <1>2. \A f : IsFold(f, "UnbounceAt", <<>>, base, list, N) <=> Ok(f)
    BY DEF IsFold
  <1>. HIDE DEF Ok
  <1>3. \E f : Ok(f)
    BY ONLY <1>2, IterLemma, N \in Nat
  <1>4. PICK f : f = CHOOSE x : Ok(x)
    OBVIOUS
  <1>5. IsFold(f, "UnbounceAt", <<>>, base, list, N)
    BY ONLY <1>2, <1>3, <1>4
  <1>6. y = f[1..N]
    BY ONLY <1>1, <1>4
  <1>. QED  BY ONLY <1>5, <1>6, N \in Nat, RunsLemma

LEMMA FoldDislodge ==
    ASSUME NEW base, NEW list, NEW N \in Nat, DOMAIN list = 1..N, NEW y, y = FoldLeft(Dislodge, base, list)
    PROVE  \E f : Runs(f, "Dislodge", <<>>, base, list, N) /\ y = f[N]
  <1>. DEFINE Ok(f) == f = [s \in SUBSET (1..N) |-> IF s = {} THEN base ELSE Does("Dislodge", <<>>, f[s \ {Max(s)}], list[Max(s)])]
  <1>1. y = (CHOOSE f : Ok(f))[1..N]
    BY DEF FoldLeft, MapThenFoldSet, Does
  <1>2. \A f : IsFold(f, "Dislodge", <<>>, base, list, N) <=> Ok(f)
    BY DEF IsFold
  <1>. HIDE DEF Ok
  <1>3. \E f : Ok(f)
    BY ONLY <1>2, IterLemma, N \in Nat
  <1>4. PICK f : f = CHOOSE x : Ok(x)
    OBVIOUS
  <1>5. IsFold(f, "Dislodge", <<>>, base, list, N)
    BY ONLY <1>2, <1>3, <1>4
  <1>6. y = f[1..N]
    BY ONLY <1>1, <1>4
  <1>. QED  BY ONLY <1>5, <1>6, N \in Nat, RunsLemma

DisruptPlaces(base, list, u, tag, cotag) == FoldLeft(LAMBDA x, f : DisruptPlace(x, u, f, tag, cotag), base, list)
LEMMA FoldDisruptPlace ==
    ASSUME NEW base, NEW list, NEW N \in Nat, DOMAIN list = 1..N, NEW u, NEW tag, NEW cotag, NEW y, y = DisruptPlaces(base, list, u, tag, cotag)
    PROVE  \E f : Runs(f, "DisruptPlace", <<u, tag, cotag>>, base, list, N) /\ y = f[N]
  <1>. DEFINE Ok(f) == f = [s \in SUBSET (1..N) |-> IF s = {} THEN base ELSE Does("DisruptPlace", <<u, tag, cotag>>, f[s \ {Max(s)}], list[Max(s)])]
  <1>1. y = (CHOOSE f : Ok(f))[1..N]
    BY DEF FoldLeft, MapThenFoldSet, Does, DisruptPlaces
  <1>2. \A f : IsFold(f, "DisruptPlace", <<u, tag, cotag>>, base, list, N) <=> Ok(f)
    BY DEF IsFold
  <1>. HIDE DEF Ok
  <1>3. \E f : Ok(f)
    BY ONLY <1>2, IterLemma, N \in Nat
  <1>4. PICK f : f = CHOOSE x : Ok(x)
    OBVIOUS
  <1>5. IsFold(f, "DisruptPlace", <<u, tag, cotag>>, base, list, N)
    BY ONLY <1>2, <1>3, <1>4
  <1>6. y = f[1..N]
    BY ONLY <1>1, <1>4
  <1>. QED  BY ONLY <1>5, <1>6, N \in Nat, RunsLemma

DisruptUnits(base, list, units, tag, cotag) == FoldLeft(LAMBDA x, u : DisruptUnit(x, u, units, tag, cotag), base, list)
LEMMA FoldDisruptUnit ==
    ASSUME NEW base, NEW list, NEW N \in Nat, DOMAIN list = 1..N, NEW units, NEW tag, NEW cotag, NEW y, y = DisruptUnits(base, list, units, tag, cotag)
    PROVE  \E f : Runs(f, "DisruptUnit", <<units, tag, cotag>>, base, list, N) /\ y = f[N]
  <1>. DEFINE Ok(f) == f = [s \in SUBSET (1..N) |-> IF s = {} THEN base ELSE Does("DisruptUnit", <<units, tag, cotag>>, f[s \ {Max(s)}], list[Max(s)])]
  <1>1. y = (CHOOSE f : Ok(f))[1..N]
    BY DEF FoldLeft, MapThenFoldSet, Does, DisruptUnits
  <1>2. \A f : IsFold(f, "DisruptUnit", <<units, tag, cotag>>, base, list, N) <=> Ok(f)
    BY DEF IsFold
  <1>. HIDE DEF Ok
  <1>3. \E f : Ok(f)
    BY ONLY <1>2, IterLemma, N \in Nat
  <1>4. PICK f : f = CHOOSE x : Ok(x)
    OBVIOUS
  <1>5. IsFold(f, "DisruptUnit", <<units, tag, cotag>>, base, list, N)
    BY ONLY <1>2, <1>3, <1>4
  <1>6. y = f[1..N]
    BY ONLY <1>1, <1>4
  <1>. QED  BY ONLY <1>5, <1>6, N \in Nat, RunsLemma

ConvoyPasses(base, list) == FoldLeft(LAMBDA x, u : IF x.more THEN ConvoyPass([x EXCEPT !.more = FALSE]) ELSE x, base, list)
LEMMA FoldConvoyPass ==
    ASSUME NEW base, NEW list, NEW N \in Nat, DOMAIN list = 1..N, NEW y, y = ConvoyPasses(base, list)
    PROVE  \E f : Runs(f, "ConvoyPass", <<>>, base, list, N) /\ y = f[N]
  <1>. DEFINE Ok(f) == f = [s \in SUBSET (1..N) |-> IF s = {} THEN base ELSE Does("ConvoyPass", <<>>, f[s \ {Max(s)}], list[Max(s)])]
  <1>1. y = (CHOOSE f : Ok(f))[1..N]
    BY DEF FoldLeft, MapThenFoldSet, Does, ConvoyPasses
  <1>2. \A f : IsFold(f, "ConvoyPass", <<>>, base, list, N) <=> Ok(f)
    BY DEF IsFold
  <1>. HIDE DEF Ok
  <1>3. \E f : Ok(f)
    BY ONLY <1>2, IterLemma, N \in Nat
  <1>4. PICK f : f = CHOOSE x : Ok(x)
    OBVIOUS
  <1>5. IsFold(f, "ConvoyPass", <<>>, base, list, N)
    BY ONLY <1>2, <1>3, <1>4
  <1>6. y = f[1..N]
    BY ONLY <1>1, <1>4
  <1>. QED  BY ONLY <1>5, <1>6, N \in Nat, RunsLemma

BouncePasses(base, list) == FoldLeft(LAMBDA x, u : IF x.more THEN BouncePass([x EXCEPT !.more = FALSE]) ELSE x, base, list)
LEMMA FoldBouncePass ==
    ASSUME NEW base, NEW list, NEW N \in Nat, DOMAIN list = 1..N, NEW y, y = BouncePasses(base, list)
    PROVE  \E f : Runs(f, "BouncePass", <<>>, base, list, N) /\ y = f[N]
  <1>. DEFINE Ok(f) == f = [s \in SUBSET (1..N) |-> IF s = {} THEN base ELSE Does("BouncePass", <<>>, f[s \ {Max(s)}], list[Max(s)])]
  <1>1. y = (CHOOSE f : Ok(f))[1..N]
    BY DEF FoldLeft, MapThenFoldSet, Does, BouncePasses
  <1>2. \A f : IsFold(f, "BouncePass", <<>>, base, list, N) <=> Ok(f)
    BY DEF IsFold
  <1>. HIDE DEF Ok
  <1>3. \E f : Ok(f)
    BY ONLY <1>2, IterLemma, N \in Nat
  <1>4. PICK f : f = CHOOSE x : Ok(x)
    OBVIOUS
  <1>5. IsFold(f, "BouncePass", <<>>, base, list, N)
    BY ONLY <1>2, <1>3, <1>4
  <1>6. y = f[1..N]
    BY ONLY <1>1, <1>4
  <1>. QED  BY ONLY <1>5, <1>6, N \in Nat, RunsLemma

BattlePasses(base, list) == FoldLeft(LAMBDA x, u : IF x.more THEN BattlePass([x EXCEPT !.more = FALSE]) ELSE x, base, list)
LEMMA FoldBattlePass ==
    ASSUME NEW base, NEW list, NEW N \in Nat, DOMAIN list = 1..N, NEW y, y = BattlePasses(base, list)
    PROVE  \E f : Runs(f, "BattlePass", <<>>, base, list, N) /\ y = f[N]
  <1>. DEFINE Ok(f) == f = [s \in SUBSET (1..N) |-> IF s = {} THEN base ELSE Does("BattlePass", <<>>, f[s \ {Max(s)}], list[Max(s)])]
  <1>1. y = (CHOOSE f : Ok(f))[1..N]
    BY DEF FoldLeft, MapThenFoldSet, Does, BattlePasses
  <1>2. \A f : IsFold(f, "BattlePass", <<>>, base, list, N) <=> Ok(f)
    BY DEF IsFold
  <1>. HIDE DEF Ok
  <1>3. \E f : Ok(f)
    BY ONLY <1>2, IterLemma, N \in Nat
  <1>4. PICK f : f = CHOOSE x : Ok(x)
    OBVIOUS
  <1>5. IsFold(f, "BattlePass", <<>>, base, list, N)
    BY ONLY <1>2, <1>3, <1>4
  <1>6. y = f[1..N]
    BY ONLY <1>1, <1>4
  <1>. QED  BY ONLY <1>5, <1>6, N \in Nat, RunsLemma

-----------------------------------------------------------------------------
(* What the steps before the battles keep.                                 *)

ResFields == {"units", "places", "cmd", "res", "sup", "paths", "may", "combat", "out", "cutters", "more", "sound"}
OrderFields == {"k", "type", "at", "to", "via"}

\* The fields that a step leaves alone.
But(y, x, fields) == DOMAIN y = ResFields /\ \A f \in ResFields \ fields : y[f] = x[f]

\* Units, each with a place, in provinces of their own.
Fielded(units) ==
    /\ Len(units) \in Nat /\ DOMAIN units = 1..Len(units)
    /\ \A u \in ToSet(units) : u.loc \in Locs
    /\ \A u, v \in ToSet(units) : Short[u.loc] = Short[v.loc] => u = v

LEMMA OccupantLemma ==
    ASSUME NEW units, Fielded(units), NEW site, NEW v, v = Occupant(units, site)
    PROVE  /\ v = NoUnit \/ (v \in ToSet(units) /\ site \in {v.loc, Short[v.loc]})
           /\ v = NoUnit => \A u \in ToSet(units) : site \notin {u.loc, Short[u.loc]}
           /\ NoUnit \notin ToSet(units)
  <1>. DEFINE at == {i \in DOMAIN units : site \in {units[i].loc, Short[units[i].loc]}}
  <1>0. NoUnit \notin ToSet(units)
    BY MapAssumption DEF Fielded, NoUnit
  <1>1. CASE \E i \in DOMAIN units : site \in {units[i].loc, Short[units[i].loc]}
    <2>1. PICK i : i = CHOOSE j \in DOMAIN units : site \in {units[j].loc, Short[units[j].loc]}
      OBVIOUS
    <2>2. i \in DOMAIN units /\ site \in {units[i].loc, Short[units[i].loc]}
      BY <1>1, <2>1
    <2>3. v = units[i]
      BY <1>1, <2>1 DEF Occupant
    <2>4. v \in ToSet(units)
      BY <2>2, <2>3 DEF ToSet
    <2>. QED  BY <1>0, <2>2, <2>3, <2>4
  <1>2. CASE ~\E i \in DOMAIN units : site \in {units[i].loc, Short[units[i].loc]}
    BY <1>0, <1>2 DEF Occupant, ToSet
  <1>. QED  BY <1>1, <1>2

\* The unit in the province of a unit is that unit.
LEMMA OccupantAtHome ==
    ASSUME NEW units, Fielded(units), NEW u \in ToSet(units)
    PROVE  Occupant(units, Short[u.loc]) = u
  <1>1. PICK v : v = Occupant(units, Short[u.loc])
    OBVIOUS
  <1>2. v # NoUnit
    BY <1>1, OccupantLemma
  <1>3. v \in ToSet(units) /\ Short[u.loc] \in {v.loc, Short[v.loc]}
    BY <1>1, <1>2, OccupantLemma
  <1>4. u.loc \in Locs /\ v.loc \in Locs
    BY <1>3 DEF Fielded
  <1>5. Short[v.loc] = Short[u.loc]
    BY <1>3, <1>4, MapAssumption
  <1>. QED  BY <1>1, <1>3, <1>5 DEF Fielded

\* A move that is ordered is one that the unit can make.
CanGo(u, o) ==
    /\ DOMAIN o = OrderFields
    /\ o.k = "-" => o.to \in Locs /\ ValidUnit(u.type, o.to, FALSE)
CmdOk(us, cmd) == DOMAIN cmd = us /\ \A u \in us : CanGo(u, cmd[u])

\* Supports are counted, and none is given by a unit that moves.
SupOk(us, sup, cmd) ==
    /\ us \subseteq DOMAIN sup
    /\ \A u \in us : /\ DOMAIN sup[u] = {"n", "own"} /\ sup[u].n \in Int /\ sup[u].own \subseteq us
                     /\ \A v \in sup[u].own : cmd[v].k # "-"
Untold(us, res) == us \subseteq DOMAIN res /\ \A u \in us : {"bounce", "dislodged"} \cap res[u] = {}
NoneOut(us, out) == us \subseteq DOMAIN out /\ \A u \in us : out[u] = None

Drawn(r, units, places) == DOMAIN r = ResFields /\ r.units = units /\ r.places = places
Primed(r, units, places) ==
    /\ Drawn(r, units, places) /\ CmdOk(ToSet(units), r.cmd) /\ SupOk(ToSet(units), r.sup, r.cmd)
    /\ Untold(ToSet(units), r.res) /\ NoneOut(ToSet(units), r.out)

LEMMA TagFields ==
    ASSUME NEW r, DOMAIN r = ResFields, NEW us, NEW tag, NEW y, y = Tag(r, us, tag)
    PROVE  /\ But(y, r, {"res"}) /\ DOMAIN y.res = DOMAIN r.res
           /\ \A u \in DOMAIN r.res : /\ u \in us => y.res[u] = r.res[u] \cup {tag}
                                      /\ u \notin us => y.res[u] = r.res[u]
  <1>1. "res" \in DOMAIN r
    BY DEF ResFields
  <1>2. y = [r EXCEPT !.res = [u \in DOMAIN r.res |-> IF u \in us THEN r.res[u] \cup {tag} ELSE r.res[u]]]
    BY DEF Tag
  <1>3. y.res = [u \in DOMAIN r.res |-> IF u \in us THEN r.res[u] \cup {tag} ELSE r.res[u]]
    BY <1>1, <1>2
  <1>4. But(y, r, {"res"})
    BY <1>2 DEF But, ResFields
  <1>. QED  BY <1>3, <1>4

\* A step that changes nothing but results, none of them to bounced or dislodged.
LEMMA ResPrimed ==
    ASSUME NEW units, NEW places, NEW r, Primed(r, units, places), NEW y,
           But(y, r, {"res", "paths", "may", "combat", "cutters", "more", "sound"}), Untold(ToSet(units), y.res)
    PROVE  Primed(y, units, places)
  <1>1. y.units = r.units /\ y.places = r.places /\ y.cmd = r.cmd /\ y.sup = r.sup /\ y.out = r.out
    BY DEF But, ResFields
  <1>. QED  BY <1>1 DEF Primed, Drawn, But

LEMMA TagPrimed ==
    ASSUME NEW units, NEW places, NEW r, Primed(r, units, places), NEW us, NEW tag, tag # "bounce", tag # "dislodged",
           NEW y, y = Tag(r, us, tag)
    PROVE  Primed(y, units, places)
  <1>1. DOMAIN r = ResFields
    BY DEF Primed, Drawn
  <1>2. But(y, r, {"res"})
    BY <1>1, TagFields
  <1>5. DOMAIN y.res = DOMAIN r.res
    BY <1>1, TagFields
  <1>6. \A u \in DOMAIN r.res : y.res[u] \subseteq r.res[u] \cup {tag}
    BY <1>1, TagFields
  <1>3. Untold(ToSet(units), y.res)
    BY <1>5, <1>6 DEF Untold, Primed
  <1>4. But(y, r, {"res", "paths", "may", "combat", "cutters", "more", "sound"})
    BY <1>2 DEF But
  <1>. QED  BY <1>3, <1>4, ResPrimed

\* A step that changes the order of one unit, and not to a move.
LEMMA CmdPrimed ==
    ASSUME NEW units, NEW places, NEW r, Primed(r, units, places), NEW y, NEW u, NEW o,
           But(y, r, {"cmd"}), y.cmd = [r.cmd EXCEPT ![u] = o],
           u \in ToSet(units) => /\ DOMAIN o = OrderFields
                                 /\ o.k = "-" => r.cmd[u].k = "-" /\ o.to = r.cmd[u].to
    PROVE  Primed(y, units, places)
  <1>. DEFINE us == ToSet(units)
  <1>1. y.units = r.units /\ y.places = r.places /\ y.res = r.res /\ y.sup = r.sup /\ y.out = r.out
    BY DEF But, ResFields
  <1>2. DOMAIN r.cmd = us /\ \A v \in us : CanGo(v, r.cmd[v])
    BY DEF Primed, CmdOk
  <1>3. DOMAIN y.cmd = us /\ \A v \in us : y.cmd[v] = IF v = u THEN o ELSE r.cmd[v]
    BY <1>2
  <1>4. CmdOk(us, y.cmd)
    BY <1>2, <1>3 DEF CmdOk, CanGo
  <1>5. \A v \in us : r.cmd[v].k # "-" => y.cmd[v].k # "-"
    BY <1>3
  <1>6. SupOk(us, y.sup, y.cmd)
    BY <1>1, <1>5 DEF Primed, SupOk
  <1>. QED  BY <1>1, <1>4, <1>6 DEF Primed, Drawn, But

\* A step that changes the supports of one unit.
LEMMA SupPrimed ==
    ASSUME NEW units, NEW places, NEW r, Primed(r, units, places), NEW y, NEW u, NEW s,
           But(y, r, {"sup"}), y.sup = [r.sup EXCEPT ![u] = s],
           u \in ToSet(units) => /\ DOMAIN s = {"n", "own"} /\ s.n \in Int /\ s.own \subseteq ToSet(units)
                                 /\ \A v \in s.own : r.cmd[v].k # "-"
    PROVE  Primed(y, units, places)
  <1>. DEFINE us == ToSet(units)
  <1>1. y.units = r.units /\ y.places = r.places /\ y.res = r.res /\ y.cmd = r.cmd /\ y.out = r.out
    BY DEF But, ResFields
  <1>2. us \subseteq DOMAIN r.sup
    BY DEF Primed, SupOk
  <1>3. us \subseteq DOMAIN y.sup /\ \A v \in us : y.sup[v] = IF v = u THEN s ELSE r.sup[v]
    BY <1>2
  <1>4. SupOk(us, y.sup, y.cmd)
    BY <1>1, <1>3 DEF Primed, SupOk
  <1>. QED  BY <1>1, <1>4 DEF Primed, Drawn, But

\* The steps of the convoys, the supports and the cuts keep Primed.
LEMMA StayPrimed ==
    ASSUME NEW units, NEW places, NEW r, Primed(r, units, places), NEW u \in ToSet(units), NEW fs, NEW y, y = Stay(r, u, fs)
    PROVE  Primed(y, units, places)
  <1>0. DOMAIN r = ResFields /\ DOMAIN r.cmd = ToSet(units) /\ DOMAIN r.cmd[u] = OrderFields
    BY DEF Primed, Drawn, CmdOk, CanGo
  <1>1. PICK o : o = [r.cmd[u] EXCEPT !.via = FALSE]
    OBVIOUS
  <1>2. DOMAIN o = OrderFields /\ o.k = r.cmd[u].k /\ o.to = r.cmd[u].to
    BY <1>0, <1>1 DEF OrderFields
  <1>3. PICK c : c = [r EXCEPT !.cmd = [r.cmd EXCEPT ![u] = o]]
    OBVIOUS
  <1>4. But(c, r, {"cmd"}) /\ c.cmd = [r.cmd EXCEPT ![u] = o]
    BY <1>0, <1>3 DEF But, ResFields
  <1>5. Primed(c, units, places)
    BY <1>2, <1>4, CmdPrimed
  <1>6. PICK told : told \subseteq {"no convoy"} /\
                    y = [r EXCEPT !.cmd = [r.cmd EXCEPT ![u] = o],
                                  !.res = [f \in DOMAIN r.res |-> IF f \in fs THEN {"no convoy"} ELSE IF f = u THEN r.res[f] \cup told ELSE r.res[f]]]
    <2>. DEFINE told == IF Abuts(u.type, u.loc, "S", r.cmd[u].to) THEN {} ELSE {"no convoy"}
    <2>1. told \subseteq {"no convoy"}
      OBVIOUS
    <2>2. y = [r EXCEPT !.cmd = [r.cmd EXCEPT ![u] = o],
                        !.res = [f \in DOMAIN r.res |-> IF f \in fs THEN {"no convoy"} ELSE IF f = u THEN r.res[f] \cup told ELSE r.res[f]]]
      BY <1>1 DEF Stay
    <2>. HIDE DEF told
    <2>. QED  BY <2>1, <2>2
  <1>7. /\ But(y, c, {"res"})
        /\ y.res = [f \in DOMAIN r.res |-> IF f \in fs THEN {"no convoy"} ELSE IF f = u THEN r.res[f] \cup told ELSE r.res[f]]
    BY <1>0, <1>3, <1>6 DEF But, ResFields
  <1>8. Untold(ToSet(units), r.res)
    BY DEF Primed
  <1>9. Untold(ToSet(units), y.res)
    BY <1>6, <1>7, <1>8 DEF Untold
  <1>10. But(y, c, {"res", "paths", "may", "combat", "cutters", "more", "sound"})
    BY <1>7 DEF But
  <1>. QED  BY <1>5, <1>9, <1>10, ResPrimed

LEMMA EmbarkPrimed ==
    ASSUME NEW units, NEW places, NEW r, Primed(r, units, places), NEW u, NEW fs, NEW ps, NEW y, y = Embark(r, u, fs, ps)
    PROVE  Primed(y, units, places)
  <1>0. DOMAIN r = ResFields
    BY DEF Primed, Drawn
  <1>1. PICK S : But(y, r, {"res", "paths", "may"}) /\ y.res = [f \in DOMAIN r.res |-> IF f \in S THEN {"no convoy"} ELSE r.res[f]]
    <2>. DEFINE S == fs \ {f \in fs : f.loc \in UNION ToSet(ps)}
    <2>1. y = [r EXCEPT !.paths[u] = ps, !.may[u] = {f.loc : f \in {f \in fs : f.loc \in UNION ToSet(ps)}},
                        !.res = [f \in DOMAIN r.res |-> IF f \in S THEN {"no convoy"} ELSE r.res[f]]]
      BY DEF Embark
    <2>. HIDE DEF S
    <2>2. But(y, r, {"res", "paths", "may"})
      BY <1>0, <2>1 DEF But, ResFields
    <2>3. y.res = [f \in DOMAIN r.res |-> IF f \in S THEN {"no convoy"} ELSE r.res[f]]
      BY <1>0, <2>1 DEF ResFields
    <2>. QED  BY <2>2, <2>3
  <1>2. Untold(ToSet(units), y.res)
    BY <1>1 DEF Primed, Untold
  <1>3. But(y, r, {"res", "paths", "may", "combat", "cutters", "more", "sound"})
    BY <1>1 DEF But
  <1>. QED  BY <1>2, <1>3, ResPrimed

LEMMA ConvoyedMovePrimed ==
    ASSUME NEW units, NEW places, NEW r, Primed(r, units, places), NEW u \in ToSet(units), NEW y, y = ConvoyedMove(r, u)
    PROVE  Primed(y, units, places)
  <1>1. PICK fs, ps : y = r \/ y = Stay(r, u, fs) \/ y = Embark(r, u, fs, ps)
    BY DEF ConvoyedMove, Depart
  <1>. QED  BY <1>1, StayPrimed, EmbarkPrimed

LEMMA ConvoyOrderPrimed ==
    ASSUME NEW units, NEW places, NEW r, Primed(r, units, places), NEW u \in ToSet(units), NEW y, y = ConvoyOrder(r, u)
    PROVE  Primed(y, units, places)
  <1>0. DOMAIN r = ResFields /\ DOMAIN r.cmd = ToSet(units)
    BY DEF Primed, Drawn, CmdOk
  <1>1. y = r \/ y = Tag(r, {u}, "void") \/ y = [r EXCEPT !.cmd[u] = Hold]
    BY DEF ConvoyOrder
  <1>2. CASE y = [r EXCEPT !.cmd[u] = Hold]
    <2>1. But(y, r, {"cmd"}) /\ y.cmd = [r.cmd EXCEPT ![u] = Hold]
      BY <1>0, <1>2 DEF But, ResFields
    <2>2. DOMAIN Hold = OrderFields /\ Hold.k # "-"
      BY DEF Hold, Order, OrderFields
    <2>. QED  BY <2>1, <2>2, CmdPrimed
  <1>. QED  BY <1>1, <1>2, TagPrimed

LEMMA SupportOrderPrimed ==
    ASSUME NEW units, NEW places, NEW r, Primed(r, units, places), NEW u \in ToSet(units), NEW y, y = SupportOrder(r, u)
    PROVE  Primed(y, units, places)
  <1>0. DOMAIN r = ResFields /\ DOMAIN r.cmd = ToSet(units) /\ DOMAIN r.cmd[u] = OrderFields
    BY DEF Primed, Drawn, CmdOk, CanGo
  <1>1. CASE r.cmd[u].k # "S"
    BY <1>1 DEF SupportOrder
  <1>2. CASE r.cmd[u].k = "S"
    <2>1. PICK guy : guy = Occupant(r.units, r.cmd[u].at)
      OBVIOUS
    <2>2. PICK held : held = [r EXCEPT !.cmd[u] = Hold]
      OBVIOUS
    <2>3. PICK named : named = [r EXCEPT !.cmd[u].type = guy.type, !.cmd[u].at = guy.loc]
      OBVIOUS
    <2>4. PICK s : /\ s = SupportBy(r, u, guy)
                   /\ y = Tag(held, {u}, "void") \/ y = Tag(named, {u}, "void") \/ y = [named EXCEPT !.sup[guy] = s]
      BY <1>2, <2>1, <2>2, <2>3 DEF SupportOrder
    <2>5. Primed(held, units, places)
      <3>1. But(held, r, {"cmd"}) /\ held.cmd = [r.cmd EXCEPT ![u] = Hold]
        BY <1>0, <2>2 DEF But, ResFields
      <3>2. DOMAIN Hold = OrderFields /\ Hold.k # "-"
        BY DEF Hold, Order, OrderFields
      <3>. QED  BY <3>1, <3>2, CmdPrimed
    <2>6. PICK o : o = [[r.cmd[u] EXCEPT !.type = guy.type] EXCEPT !.at = guy.loc]
      OBVIOUS
    <2>7. DOMAIN o = OrderFields /\ o.k = "S"
      BY <1>0, <1>2, <2>6 DEF OrderFields
    <2>8. But(named, r, {"cmd"}) /\ named.cmd = [r.cmd EXCEPT ![u] = o]
      BY <1>0, <2>3, <2>6 DEF But, ResFields
    <2>9. Primed(named, units, places)
      BY <2>7, <2>8, CmdPrimed
    <2>10. CASE y = [named EXCEPT !.sup[guy] = s]
      <3>1. DOMAIN named = ResFields /\ SupOk(ToSet(units), r.sup, r.cmd) /\ named.cmd[u].k # "-"
        BY <1>0, <2>7, <2>8, <2>9 DEF Primed, Drawn
      <3>2. But(y, named, {"sup"}) /\ y.sup = [named.sup EXCEPT ![guy] = s]
        BY <2>10, <3>1 DEF But, ResFields
      <3>3. s.n = r.sup[guy].n + 1 /\ DOMAIN s = {"n", "own"} /\ s.own \subseteq r.sup[guy].own \cup {u}
        BY <2>4 DEF SupportBy
      <3>4. \A v \in ToSet(units) : r.cmd[v].k # "-" => named.cmd[v].k # "-"
        BY <1>0, <2>8, <3>1
      <3>5. guy \in ToSet(units) => /\ DOMAIN s = {"n", "own"} /\ s.n \in Int /\ s.own \subseteq ToSet(units)
                                    /\ \A v \in s.own : named.cmd[v].k # "-"
        BY <3>1, <3>3, <3>4 DEF SupOk
      <3>. QED  BY <2>9, <3>2, <3>5, SupPrimed
    <2>. QED  BY <2>4, <2>5, <2>9, <2>10, TagPrimed
  <1>. QED  BY <1>1, <1>2

LEMMA CutPrimed ==
    ASSUME NEW units, NEW places, NEW r, Primed(r, units, places), NEW u, NEW direct, NEW y, y = CutSupport(r, u, direct)
    PROVE  Primed(y, units, places)
  <1>1. PICK other, helped, cut : cut = Tag(r, {other}, "cut") /\
           (y = r \/ y = [cut EXCEPT !.sup[helped] = [n |-> cut.sup[helped].n - 1, own |-> cut.sup[helped].own \ {other}]])
    BY DEF CutSupport
  <1>2. Primed(cut, units, places)
    BY <1>1, TagPrimed
  <1>3. CASE y = [cut EXCEPT !.sup[helped] = [n |-> cut.sup[helped].n - 1, own |-> cut.sup[helped].own \ {other}]]
    <2>1. DOMAIN cut = ResFields /\ SupOk(ToSet(units), cut.sup, cut.cmd)
      BY <1>2 DEF Primed, Drawn
    <2>2. PICK s : s = [n |-> cut.sup[helped].n - 1, own |-> cut.sup[helped].own \ {other}]
      OBVIOUS
    <2>3. But(y, cut, {"sup"}) /\ y.sup = [cut.sup EXCEPT ![helped] = s]
      BY <1>3, <2>1, <2>2 DEF But, ResFields
    <2>4. helped \in ToSet(units) => /\ DOMAIN s = {"n", "own"} /\ s.n \in Int /\ s.own \subseteq ToSet(units)
                                     /\ \A v \in s.own : cut.cmd[v].k # "-"
      BY <2>1, <2>2 DEF SupOk
    <2>. QED  BY <1>2, <2>3, <2>4, SupPrimed
  <1>. QED  BY <1>1, <1>2, <1>3

LEMMA DirectCutPrimed ==
    ASSUME NEW units, NEW places, NEW r, Primed(r, units, places), NEW u, NEW y, y = DirectCut(r, u)
    PROVE  Primed(y, units, places)
  BY CutPrimed DEF DirectCut

\* What every step keeps is kept by the loop.
LEMMA PrimedAlong ==
    ASSUME NEW units, NEW places, NEW N \in Nat, NEW f, NEW k, NEW a, NEW base, NEW list, Runs(f, k, a, base, list, N),
           Primed(base, units, places),
           \A n \in 1..N : Primed(f[n - 1], units, places) => Primed(Does(k, a, f[n - 1], list[n]), units, places)
    PROVE  Primed(f[N], units, places)
  <1>. DEFINE S == {n \in 0..N : Primed(f[n], units, places)}
  <1>1. f[0] = base /\ \A n \in 1..N : f[n] = Does(k, a, f[n - 1], list[n])
    BY DEF Runs
  <1>2. \A n \in 0..N : n \in S <=> Primed(f[n], units, places)
    OBVIOUS
  <1>. HIDE DEF S
  <1>3. 0 \in S /\ \A n \in 1..N : n - 1 \in S => n \in S
    BY <1>1, <1>2
  <1>4. \A n \in 0..N : n \in S
    BY ONLY <1>3, N \in Nat, AlongLemma
  <1>. QED  BY <1>2, <1>4

LEMMA ConvoysPrimed ==
    ASSUME NEW units, Fielded(units), NEW places, NEW r, Primed(r, units, places), NEW y, y = Convoys(r)
    PROVE  Primed(y, units, places)
  <1>1. Len(units) \in Nat /\ DOMAIN units = 1..Len(units) /\ r.units = units
    BY DEF Fielded, Primed, Drawn
  <1>2. \A n \in 1..Len(units) : units[n] \in ToSet(units)
    BY <1>1 DEF ToSet
  <1>3. PICK z : z = FoldLeft(ConvoyedMove, r, units)
    OBVIOUS
  <1>4. y = FoldLeft(ConvoyOrder, z, units)
    BY <1>1, <1>3 DEF Convoys
  <1>5. PICK f : Runs(f, "ConvoyedMove", <<>>, r, units, Len(units)) /\ z = f[Len(units)]
    BY <1>1, <1>3, FoldConvoyedMove
  <1>6. \A n \in 1..Len(units) : Primed(f[n - 1], units, places) => Primed(Does("ConvoyedMove", <<>>, f[n - 1], units[n]), units, places)
    BY <1>2, ConvoyedMovePrimed DEF Does
  <1>7. Primed(z, units, places)
    BY <1>1, <1>5, <1>6, PrimedAlong
  <1>8. PICK g : Runs(g, "ConvoyOrder", <<>>, z, units, Len(units)) /\ y = g[Len(units)]
    BY <1>1, <1>4, FoldConvoyOrder
  <1>9. \A n \in 1..Len(units) : Primed(g[n - 1], units, places) => Primed(Does("ConvoyOrder", <<>>, g[n - 1], units[n]), units, places)
    BY <1>2, ConvoyOrderPrimed DEF Does
  <1>. QED  BY <1>1, <1>7, <1>8, <1>9, PrimedAlong

LEMMA SupportsPrimed ==
    ASSUME NEW units, Fielded(units), NEW places, NEW r, Primed(r, units, places), NEW y, y = Supports(r)
    PROVE  Primed(y, units, places)
  <1>1. Len(units) \in Nat /\ DOMAIN units = 1..Len(units) /\ r.units = units
    BY DEF Fielded, Primed, Drawn
  <1>2. \A n \in 1..Len(units) : units[n] \in ToSet(units)
    BY <1>1 DEF ToSet
  <1>3. PICK z : z = FoldLeft(SupportOrder, r, units)
    OBVIOUS
  <1>4. y = FoldLeft(DirectCut, z, units)
    BY <1>1, <1>3 DEF Supports
  <1>5. PICK f : Runs(f, "SupportOrder", <<>>, r, units, Len(units)) /\ z = f[Len(units)]
    BY <1>1, <1>3, FoldSupportOrder
  <1>6. \A n \in 1..Len(units) : Primed(f[n - 1], units, places) => Primed(Does("SupportOrder", <<>>, f[n - 1], units[n]), units, places)
    BY <1>2, SupportOrderPrimed DEF Does
  <1>7. Primed(z, units, places)
    BY <1>1, <1>5, <1>6, PrimedAlong
  <1>8. PICK g : Runs(g, "DirectCut", <<>>, z, units, Len(units)) /\ y = g[Len(units)]
    BY <1>1, <1>4, FoldDirectCut
  <1>9. \A n \in 1..Len(units) : Primed(g[n - 1], units, places) => Primed(Does("DirectCut", <<>>, g[n - 1], units[n]), units, places)
    BY <1>2, DirectCutPrimed DEF Does
  <1>. QED  BY <1>1, <1>7, <1>8, <1>9, PrimedAlong

\* The result of a unit is set anew.
LEMMA ResetPrimed ==
    ASSUME NEW units, NEW places, NEW r, Primed(r, units, places), NEW u, NEW s, {"bounce", "dislodged"} \cap s = {},
           NEW y, But(y, r, {"res", "paths"}), y.res = [r.res EXCEPT ![u] = s]
    PROVE  Primed(y, units, places)
  <1>1. Untold(ToSet(units), y.res)
    BY DEF Primed, Untold
  <1>2. But(y, r, {"res", "paths", "may", "combat", "cutters", "more", "sound"})
    BY DEF But
  <1>. QED  BY <1>1, <1>2, ResPrimed

LEMMA DisruptAtPrimed ==
    ASSUME NEW units, NEW places, NEW r, Primed(r, units, places), NEW u, NEW place,
           NEW tag, tag # "bounce", tag # "dislodged", NEW cotag, cotag # "bounce", cotag # "dislodged",
           NEW y, y = DisruptAt(r, u, place, tag, cotag)
    PROVE  Primed(y, units, places)
  <1>0. DOMAIN r = ResFields
    BY DEF Primed, Drawn
  <1>1. PICK left, s, fleet, x : /\ x = [r EXCEPT !.paths[u] = left, !.res[u] = s]
                                 /\ s = {tag} \/ s = r.res[u]
                                 /\ y = r \/ y = x \/ y = [x EXCEPT !.res[fleet] = {cotag}]
    BY DEF DisruptAt
  <1>2. But(x, r, {"res", "paths"}) /\ x.res = [r.res EXCEPT ![u] = s]
    BY <1>0, <1>1 DEF But, ResFields
  <1>3. Primed(x, units, places)
    <2>1. CASE s = {tag}
      BY <1>2, <2>1, ResetPrimed
    <2>2. CASE s = r.res[u]
      <3>2. \A v \in ToSet(units) : v \in DOMAIN x.res /\ x.res[v] = r.res[v]
        BY <1>2, <2>2 DEF Primed, Untold
      <3>3. Untold(ToSet(units), x.res)
        BY <3>2 DEF Primed, Untold
      <3>4. But(x, r, {"res", "paths", "may", "combat", "cutters", "more", "sound"})
        BY <1>2 DEF But
      <3>. QED  BY <3>3, <3>4, ResPrimed
    <2>. QED  BY <1>1, <2>1, <2>2
  <1>4. CASE y = [x EXCEPT !.res[fleet] = {cotag}]
    <2>1. But(y, x, {"res", "paths"}) /\ y.res = [x.res EXCEPT ![fleet] = {cotag}]
      BY <1>2, <1>4 DEF But, ResFields
    <2>2. {"bounce", "dislodged"} \cap {cotag} = {}
      OBVIOUS
    <2>. QED  BY <1>3, <2>1, <2>2, ResetPrimed
  <1>. QED  BY <1>1, <1>3, <1>4

LEMMA DisruptPrimed ==
    ASSUME NEW units, Fielded(units), NEW places, NEW r, Primed(r, units, places),
           NEW tag, tag # "bounce", tag # "dislodged", NEW cotag, cotag # "bounce", cotag # "dislodged",
           NEW y, y = Disrupt(r, tag, cotag)
    PROVE  Primed(y, units, places)
  <1>1. Len(units) \in Nat /\ DOMAIN units = 1..Len(units) /\ r.units = units
    BY DEF Fielded, Primed, Drawn
  <1>2. y = DisruptUnits(r, units, units, tag, cotag)
    <2>1. y = DisruptUnits(r, r.units, r.units, tag, cotag)
      BY DEF Disrupt, DisruptUnits, DisruptUnit, DisruptPlace
    <2>. QED  BY <1>1, <2>1
  <1>3. PICK f : Runs(f, "DisruptUnit", <<units, tag, cotag>>, r, units, Len(units)) /\ y = f[Len(units)]
    BY <1>1, <1>2, FoldDisruptUnit
  <1>4. ASSUME NEW n \in 1..Len(units), Primed(f[n - 1], units, places)
        PROVE  Primed(DisruptUnit(f[n - 1], units[n], units, tag, cotag), units, places)
    <2>1. PICK x, u, z : x = f[n - 1] /\ u = units[n] /\ z = DisruptUnit(x, u, units, tag, cotag)
      OBVIOUS
    <2>2. z = DisruptPlaces(x, units, u, tag, cotag)
      BY <2>1 DEF DisruptUnit, DisruptPlaces
    <2>3. PICK g : Runs(g, "DisruptPlace", <<u, tag, cotag>>, x, units, Len(units)) /\ z = g[Len(units)]
      BY <1>1, <2>2, FoldDisruptPlace
    <2>4. ASSUME NEW m \in 1..Len(units), Primed(g[m - 1], units, places)
          PROVE  Primed(DisruptPlace(g[m - 1], u, units[m], tag, cotag), units, places)
      BY <2>4, DisruptAtPrimed DEF DisruptPlace
    <2>5. \A m \in 1..Len(units) : Primed(g[m - 1], units, places) => Primed(Does("DisruptPlace", <<u, tag, cotag>>, g[m - 1], units[m]), units, places)
      BY <2>4 DEF Does
    <2>6. Primed(x, units, places)
      BY <1>4, <2>1
    <2>. QED  BY <1>1, <2>1, <2>3, <2>5, <2>6, PrimedAlong
  <1>5. \A n \in 1..Len(units) : Primed(f[n - 1], units, places) => Primed(Does("DisruptUnit", <<units, tag, cotag>>, f[n - 1], units[n]), units, places)
    BY <1>4 DEF Does
  <1>. QED  BY <1>1, <1>3, <1>5, PrimedAlong

\* A step that changes nothing but the notes of the loop.
LEMMA NotePrimed ==
    ASSUME NEW units, NEW places, NEW r, Primed(r, units, places), NEW y, But(y, r, {"cutters", "more", "sound", "combat"})
    PROVE  Primed(y, units, places)
  <1>1. y.res = r.res /\ But(y, r, {"res", "paths", "may", "combat", "cutters", "more", "sound"})
    BY DEF But, ResFields
  <1>2. Untold(ToSet(units), y.res)
    BY <1>1 DEF Primed
  <1>. QED  BY <1>1, <1>2, ResPrimed

LEMMA CutByPrimed ==
    ASSUME NEW units, NEW places, NEW r, Primed(r, units, places), NEW u, NEW y, y = CutBy(r, u)
    PROVE  Primed(y, units, places)
  <1>1. PICK x : x = CutSupport(r, u, FALSE)
    OBVIOUS
  <1>2. Primed(x, units, places)
    BY <1>1, CutPrimed
  <1>3. But(y, x, {"cutters", "more", "sound", "combat"})
    BY <1>1, <1>2 DEF CutBy, Primed, Drawn, But, ResFields
  <1>. QED  BY <1>2, <1>3, NotePrimed

LEMMA SureCutPrimed ==
    ASSUME NEW units, NEW places, NEW r, Primed(r, units, places), NEW u, NEW y, y = SureCut(r, u)
    PROVE  Primed(y, units, places)
  BY CutByPrimed DEF SureCut

LEMMA DoubtfulCutPrimed ==
    ASSUME NEW units, NEW places, NEW r, Primed(r, units, places), NEW u, NEW y, y = DoubtfulCut(r, u)
    PROVE  Primed(y, units, places)
  <1>0. DOMAIN r = ResFields
    BY DEF Primed, Drawn
  <1>1. PICK x, helpers, tagged : /\ x = [r EXCEPT !.res[u] = {}] /\ tagged = Tag(r, helpers, "no convoy")
                                  /\ y = r \/ y = CutBy(x, u) \/ y = [tagged EXCEPT !.sup[u] = [n |-> 0, own |-> {}]]
    BY DEF DoubtfulCut
  <1>2. CASE y = CutBy(x, u)
    <2>1. But(x, r, {"res", "paths"}) /\ x.res = [r.res EXCEPT ![u] = {}]
      BY <1>0, <1>1 DEF But, ResFields
    <2>2. Primed(x, units, places)
      BY <2>1, ResetPrimed
    <2>. QED  BY <1>2, <2>2, CutByPrimed
  <1>3. CASE y = [tagged EXCEPT !.sup[u] = [n |-> 0, own |-> {}]]
    <2>1. Primed(tagged, units, places)
      BY <1>1, TagPrimed
    <2>2. PICK s : s = [n |-> 0, own |-> {}]
      OBVIOUS
    <2>3. But(y, tagged, {"sup"}) /\ y.sup = [tagged.sup EXCEPT ![u] = s]
      BY <1>3, <2>1, <2>2 DEF Primed, Drawn, But, ResFields
    <2>. QED  BY <2>1, <2>2, <2>3, SupPrimed
  <1>. QED  BY <1>1, <1>2, <1>3

LEMMA StrengthsPrimed ==
    ASSUME NEW units, NEW places, NEW r, Primed(r, units, places), NEW y, y = Strengths(r)
    PROVE  Primed(y, units, places)
  <1>1. But(y, r, {"cutters", "more", "sound", "combat"})
    BY DEF Strengths, Primed, Drawn, But, ResFields
  <1>. QED  BY <1>1, NotePrimed

LEMMA ConvoyPassPrimed ==
    ASSUME NEW units, Fielded(units), NEW places, NEW r, Primed(r, units, places), NEW y, y = ConvoyPass(r)
    PROVE  Primed(y, units, places)
  <1>1. Len(units) \in Nat /\ DOMAIN units = 1..Len(units) /\ r.units = units
    BY DEF Fielded, Primed, Drawn
  <1>2. PICK t : t = Disrupt(Strengths(r), "maybe", None)
    OBVIOUS
  <1>3. Primed(t, units, places)
    <2>1. PICK q : q = Strengths(r)
      OBVIOUS
    <2>2. None # "bounce" /\ None # "dislodged"
      BY DEF None
    <2>. QED  BY <1>2, <2>1, <2>2, StrengthsPrimed, DisruptPrimed
  <1>4. PICK s : s = FoldLeft(SureCut, t, units)
    OBVIOUS
  <1>5. Primed(s, units, places)
    <2>1. PICK f : Runs(f, "SureCut", <<>>, t, units, Len(units)) /\ s = f[Len(units)]
      BY ONLY <1>1, <1>4, FoldSureCut
    <2>2. \A n \in 1..Len(units) : Primed(f[n - 1], units, places) => Primed(Does("SureCut", <<>>, f[n - 1], units[n]), units, places)
      BY SureCutPrimed DEF Does
    <2>. QED  BY <1>1, <1>3, <2>1, <2>2, PrimedAlong
  <1>6. PICK d : d = Disrupt(s, "no convoy", "disrupted")
    OBVIOUS
  <1>7. Primed(d, units, places)
    BY <1>5, <1>6, DisruptPrimed
  <1>8. y = s \/ y = FoldLeft(DoubtfulCut, d, units)
    BY <1>1, <1>2, <1>4, <1>6 DEF ConvoyPass
  <1>9. CASE y = FoldLeft(DoubtfulCut, d, units)
    <2>1. PICK f : Runs(f, "DoubtfulCut", <<>>, d, units, Len(units)) /\ y = f[Len(units)]
      BY <1>1, <1>9, FoldDoubtfulCut
    <2>2. \A n \in 1..Len(units) : Primed(f[n - 1], units, places) => Primed(Does("DoubtfulCut", <<>>, f[n - 1], units[n]), units, places)
      BY DoubtfulCutPrimed DEF Does
    <2>. QED  BY <1>1, <1>7, <2>1, <2>2, PrimedAlong
  <1>. QED  BY <1>5, <1>8, <1>9

\* The list a loop with a condition runs along.
Twice(units) == units \o units \o <<NoUnit>>
LEMMA TwiceLemma ==
    ASSUME NEW units, Fielded(units)
    PROVE  DOMAIN Twice(units) = 1..(2 * Len(units) + 1) /\ 2 * Len(units) + 1 \in Nat
  BY DEF Fielded, Twice

LEMMA DisruptionsPrimed ==
    ASSUME NEW units, Fielded(units), NEW places, NEW r, Primed(r, units, places), NEW y, y = Disruptions(r)
    PROVE  \E x : Primed(x, units, places) /\ y = Strengths(x)
  <1>1. PICK N : N = 2 * Len(units) + 1 /\ N \in Nat /\ DOMAIN Twice(units) = 1..N
    BY TwiceLemma
  <1>2. r.units = units /\ DOMAIN r = ResFields
    BY DEF Primed, Drawn
  <1>3. PICK base : base = [r EXCEPT !.more = TRUE]
    OBVIOUS
  <1>4. PICK z : z = ConvoyPasses(base, Twice(units))
    OBVIOUS
  <1>5. PICK w : w = [z EXCEPT !.sound = z.sound /\ ~z.more] /\ y = Strengths(w)
    BY <1>2, <1>3, <1>4 DEF Disruptions, While, Twice, ConvoyPasses
  <1>6. Primed(base, units, places)
    <2>1. But(base, r, {"cutters", "more", "sound", "combat"})
      BY <1>2, <1>3 DEF But, ResFields
    <2>. QED  BY <2>1, NotePrimed
  <1>7. PICK f : Runs(f, "ConvoyPass", <<>>, base, Twice(units), N) /\ z = f[N]
    BY <1>1, <1>4, FoldConvoyPass
  <1>8. ASSUME NEW n \in 1..N, Primed(f[n - 1], units, places) PROVE Primed(Does("ConvoyPass", <<>>, f[n - 1], Twice(units)[n]), units, places)
    <2>1. PICK x, x0, p : x = f[n - 1] /\ x0 = [x EXCEPT !.more = FALSE] /\ p = ConvoyPass(x0)
      OBVIOUS
    <2>2. Does("ConvoyPass", <<>>, f[n - 1], Twice(units)[n]) = IF x.more THEN p ELSE x
      BY <2>1 DEF Does
    <2>3. Primed(x, units, places)
      BY <1>8, <2>1
    <2>4. But(x0, x, {"cutters", "more", "sound", "combat"})
      BY <2>1, <2>3 DEF Primed, Drawn, But, ResFields
    <2>5. Primed(x0, units, places)
      BY <2>3, <2>4, NotePrimed
    <2>6. Primed(p, units, places)
      BY <2>1, <2>5, ConvoyPassPrimed
    <2>. QED  BY <2>2, <2>3, <2>6
  <1>9. Primed(z, units, places)
    BY <1>1, <1>6, <1>7, <1>8, PrimedAlong
  <1>10. But(w, z, {"cutters", "more", "sound", "combat"})
    BY <1>5, <1>9 DEF Primed, Drawn, But, ResFields
  <1>. QED  BY <1>5, <1>9, <1>10, NotePrimed

-----------------------------------------------------------------------------
(* The battles. *)

EntryFields == {"at", "str", "unit", "shared"}
EntryOk(e, us, cmd) ==
    /\ DOMAIN e = EntryFields /\ e.unit \in us /\ e.str \in Int
    /\ e.at = Short[e.unit.loc] \/ (cmd[e.unit].k = "-" /\ e.at = Short[cmd[e.unit].to])
EntriesOk(us, combat, cmd) == IsFiniteSet(combat) /\ \A e \in combat : EntryOk(e, us, cmd)

\* A unit that bounced was to move and nothing else befell it.
Bounced(us, res, cmd) ==
    /\ us \subseteq DOMAIN res
    /\ \A u \in us : /\ "dislodged" \notin res[u]
                     /\ "bounce" \in res[u] => cmd[u].k = "-" /\ res[u] = {"bounce"}

\* A unit that attacks has an entry where it goes.
Enters(us, res, cmd, combat) ==
    \A u \in us : cmd[u].k = "-" /\ res[u] = {} => \E e \in combat : e.unit = u /\ e.at = Short[cmd[u].to]

Fight(r, units, places) ==
    /\ Drawn(r, units, places) /\ CmdOk(ToSet(units), r.cmd) /\ SupOk(ToSet(units), r.sup, r.cmd)
    /\ NoneOut(ToSet(units), r.out) /\ Bounced(ToSet(units), r.res, r.cmd)
    /\ EntriesOk(ToSet(units), r.combat, r.cmd) /\ Enters(ToSet(units), r.res, r.cmd, r.combat)

\* The units that have a result.
Tired(r, units) == {u \in ToSet(units) : r.res[u] # {}}

\* A step either changes nothing or gives a unit its first result.
Outcome(y, x, units, places, more) ==
    y = x \/ /\ Fight(y, units, places) /\ Tired(x, units) \subseteq Tired(y, units) /\ Tired(y, units) # Tired(x, units)
             /\ more => y.more = TRUE

\* Every attack is the one strongest of its place.
Calm(r, units) ==
    \A u \in ToSet(units) : Attacks(r, u) => \E e \in r.combat : Strongest(r, Short[r.cmd[u].to]) = {e} /\ e.unit = u

LEMMA UnitsFinite ==
    ASSUME NEW units, Fielded(units)
    PROVE  IsFiniteSet(ToSet(units)) /\ Cardinality(ToSet(units)) \in Nat /\ Cardinality(ToSet(units)) <= Len(units)
  <1>1. Len(units) \in Nat /\ DOMAIN units = 1..Len(units)
    BY DEF Fielded
  <1>2. PICK f : f = [i \in 1..Len(units) |-> units[i]]
    OBVIOUS
  <1>3. f \in Surjection(1..Len(units), ToSet(units))
    BY <1>1, <1>2 DEF Surjection, ToSet
  <1>4. ExistsSurjection(1..Len(units), ToSet(units))
    BY <1>3 DEF ExistsSurjection
  <1>5. IsFiniteSet(ToSet(units))
    BY <1>1, <1>4, FS_NatSurjection
  <1>6. Cardinality(ToSet(units)) <= Len(units)
    BY <1>1, <1>4, FS_SurjCardinalityBound
  <1>. QED  BY <1>5, <1>6, FS_CardinalityType

\* SetToSeq lists the members of a finite set.
LEMMA ListLemma ==
    ASSUME NEW S, IsFiniteSet(S), NEW list, list = SetToSeq(S)
    PROVE  /\ Cardinality(S) \in Nat /\ DOMAIN list = 1..Cardinality(S) /\ ToSet(list) = S
           /\ \A i \in DOMAIN list : list[i] \in S
  <1>1. Cardinality(S) \in Nat /\ ExistsBijection(1..Cardinality(S), S)
    BY FS_CardinalityType
  <1>2. PICK b : b \in Bijection(1..Cardinality(S), S)
    BY <1>1 DEF ExistsBijection
  <1>3. b \in [1..Cardinality(S) -> S] /\ IsInjective(b)
    BY <1>2 DEF Bijection, Injection, IsInjective
  <1>4. list \in [1..Cardinality(S) -> S] /\ IsInjective(list)
    BY <1>3 DEF SetToSeq
  <1>5. list \in Injection(1..Cardinality(S), S)
    BY <1>4 DEF Injection, IsInjective
  <1>6. Cardinality(1..Cardinality(S)) = Cardinality(S)
    BY <1>1, FS_Interval
  <1>7. list \in Surjection(1..Cardinality(S), S)
    BY <1>5, <1>6, FS_Injection
  <1>8. \A x \in S : \E i \in 1..Cardinality(S) : list[i] = x
    BY <1>7 DEF Surjection
  <1>. QED  BY <1>1, <1>4, <1>8 DEF ToSet

\* A step that changes nothing but the notes of the loop.
LEMMA NoteFight ==
    ASSUME NEW units, NEW places, NEW r, Fight(r, units, places), NEW y, But(y, r, {"more", "sound"})
    PROVE  Fight(y, units, places) /\ Tired(y, units) = Tired(r, units) /\ (Calm(r, units) => Calm(y, units))
  <1>1. /\ y.units = r.units /\ y.places = r.places /\ y.cmd = r.cmd /\ y.sup = r.sup /\ y.out = r.out
        /\ y.res = r.res /\ y.combat = r.combat
    BY DEF But, ResFields
  <1>2. Fight(y, units, places)
    BY <1>1 DEF Fight, Drawn, But
  <1>3. Tired(y, units) = Tired(r, units)
    BY <1>1 DEF Tired
  <1>4. Calm(r, units) => Calm(y, units)
    BY <1>1 DEF Calm, Attacks, Strongest, Conflicts
  <1>. QED  BY <1>2, <1>3, <1>4

\* Units that do not move are told something.
LEMMA TagFight ==
    ASSUME NEW units, NEW places, NEW r, Fight(r, units, places), NEW us, NEW tag, tag # "bounce", tag # "dislodged",
           \A u \in us \cap ToSet(units) : r.cmd[u].k # "-",
           NEW y, y = Tag(r, us, tag)
    PROVE  /\ Fight(y, units, places) /\ But(y, r, {"res"}) /\ Tired(r, units) \subseteq Tired(y, units)
           /\ us \cap ToSet(units) \subseteq Tired(y, units)
  <1>1. DOMAIN r = ResFields /\ ToSet(units) \subseteq DOMAIN r.res
    BY DEF Fight, Drawn, Bounced
  <1>2. But(y, r, {"res"})
    BY <1>1, TagFields
  <1>3. DOMAIN y.res = DOMAIN r.res
    BY <1>1, TagFields
  <1>4. \A u \in DOMAIN r.res : u \in us => y.res[u] = r.res[u] \cup {tag}
    BY <1>1, TagFields
  <1>5. \A u \in DOMAIN r.res : u \notin us => y.res[u] = r.res[u]
    BY <1>1, TagFields
  <1>6. /\ y.units = r.units /\ y.places = r.places /\ y.cmd = r.cmd /\ y.sup = r.sup /\ y.out = r.out
        /\ y.combat = r.combat
    BY <1>2 DEF But, ResFields
  <1>7. Bounced(ToSet(units), y.res, y.cmd)
    BY <1>1, <1>3, <1>4, <1>5, <1>6 DEF Fight, Bounced
  <1>8. \A u \in ToSet(units) : y.res[u] = {} => r.res[u] = {}
    BY <1>1, <1>4, <1>5
  <1>9. Enters(ToSet(units), y.res, y.cmd, y.combat)
    BY <1>6, <1>8 DEF Fight, Enters
  <1>10. Fight(y, units, places)
    BY <1>2, <1>6, <1>7, <1>9 DEF Fight, Drawn, But
  <1>11. Tired(r, units) \subseteq Tired(y, units)
    BY <1>8 DEF Tired
  <1>12. us \cap ToSet(units) \subseteq Tired(y, units)
    BY <1>1, <1>4 DEF Tired
  <1>. QED  BY <1>2, <1>10, <1>11, <1>12

\* A unit that attacks bounces.
LEMMA BoingFight ==
    ASSUME NEW units, Fielded(units), NEW places, NEW r, Fight(r, units, places), NEW u \in ToSet(units),
           r.cmd[u].k = "-", r.res[u] \subseteq {"bounce"}, NEW y, y = Boing(r, u)
    PROVE  /\ Fight(y, units, places) /\ Tired(r, units) \subseteq Tired(y, units) /\ u \in Tired(y, units)
           /\ y.cmd = r.cmd /\ y.sup = r.sup /\ DOMAIN y.res = DOMAIN r.res
           /\ y.res[u] = {"bounce"} /\ \A v \in DOMAIN r.res : v # u => y.res[v] = r.res[v]
  <1>1. DOMAIN r = ResFields /\ ToSet(units) \subseteq DOMAIN r.res
    BY DEF Fight, Drawn, Bounced
  <1>2. PICK t, e : /\ t = Tag(r, {u}, "bounce") /\ e = [at |-> Short[u.loc], str |-> 1, unit |-> u, shared |-> FALSE]
                    /\ y = [t EXCEPT !.combat = t.combat \cup {e}]
    BY DEF Boing
  <1>3. But(t, r, {"res"})
    BY <1>1, <1>2, TagFields
  <1>4. DOMAIN t.res = DOMAIN r.res
    BY <1>1, <1>2, TagFields
  <1>5. t.res[u] = r.res[u] \cup {"bounce"}
    BY <1>1, <1>2, TagFields
  <1>6. \A v \in DOMAIN r.res : v # u => t.res[v] = r.res[v]
    BY <1>1, <1>2, TagFields
  <1>7. /\ DOMAIN y = ResFields /\ y.units = r.units /\ y.places = r.places /\ y.cmd = r.cmd /\ y.sup = r.sup /\ y.out = r.out
        /\ y.res = t.res /\ y.combat = r.combat \cup {e}
    BY <1>2, <1>3 DEF But, ResFields
  <1>8. y.res[u] = {"bounce"}
    BY <1>5, <1>7
  <1>9. Bounced(ToSet(units), y.res, y.cmd)
    BY <1>1, <1>4, <1>6, <1>7, <1>8 DEF Fight, Bounced
  <1>10. EntryOk(e, ToSet(units), y.cmd)
    BY <1>2 DEF EntryOk, EntryFields
  <1>11. EntriesOk(ToSet(units), y.combat, y.cmd)
    BY <1>7, <1>10, FS_AddElement DEF Fight, EntriesOk
  <1>12. \A v \in ToSet(units) : y.res[v] = {} => r.res[v] = {}
    BY <1>1, <1>6, <1>7, <1>8
  <1>13. Enters(ToSet(units), y.res, y.cmd, y.combat)
    BY <1>7, <1>12 DEF Fight, Enters
  <1>14. Fight(y, units, places)
    BY <1>7, <1>9, <1>11, <1>13 DEF Fight, Drawn
  <1>15. Tired(r, units) \subseteq Tired(y, units) /\ u \in Tired(y, units)
    BY <1>8, <1>12 DEF Tired
  <1>. QED  BY <1>4, <1>6, <1>7, <1>8, <1>14, <1>15

\* Growth adds up.
LEMMA OutcomeTrans ==
    ASSUME NEW units, NEW places, NEW more, NEW x, NEW y, NEW z, Outcome(y, x, units, places, more), Outcome(z, y, units, places, more)
    PROVE  Outcome(z, x, units, places, more)
  BY DEF Outcome

LEMMA OutcomeBack ==
    ASSUME NEW units, NEW places, NEW more, NEW x, NEW y, Outcome(y, x, units, places, more), Outcome(x, y, units, places, more)
    PROVE  y = x
  BY DEF Outcome

\* No step of a loop changes anything.
Still(k, a, base, list, N) == \A n \in 1..N : Does(k, a, base, list[n]) = base

LEMMA OutcomeAlong ==
    ASSUME NEW units, NEW places, NEW more, NEW N \in Nat, NEW f, NEW k, NEW a, NEW base, NEW list, Runs(f, k, a, base, list, N),
           Fight(base, units, places),
           \A n \in 1..N : Fight(f[n - 1], units, places) => Outcome(Does(k, a, f[n - 1], list[n]), f[n - 1], units, places, more)
    PROVE  /\ Outcome(f[N], base, units, places, more)
           /\ f[N] = base => Still(k, a, base, list, N)
  <1>. DEFINE S == {n \in 0..N : Outcome(f[n], base, units, places, more)}
  <1>1. f[0] = base /\ \A n \in 1..N : f[n] = Does(k, a, f[n - 1], list[n])
    BY DEF Runs
  <1>2. \A n \in 0..N : n \in S <=> Outcome(f[n], base, units, places, more)
    OBVIOUS
  <1>. HIDE DEF S
  <1>3. 0 \in S
    BY <1>1, <1>2 DEF Outcome
  <1>4. ASSUME NEW n \in 1..N, n - 1 \in S PROVE n \in S
    <2>1. n - 1 \in 0..N /\ n \in 0..N
      OBVIOUS
    <2>2. Outcome(f[n - 1], base, units, places, more)
      BY <1>2, <1>4, <2>1
    <2>3. Fight(f[n - 1], units, places)
      BY <2>2 DEF Outcome
    <2>4. Outcome(f[n], f[n - 1], units, places, more)
      BY <1>1, <2>3
    <2>5. Outcome(f[n], base, units, places, more)
      BY <2>2, <2>4, OutcomeTrans
    <2>. QED  BY <1>2, <2>1, <2>5
  <1>5. \A n \in 0..N : n \in S
    BY ONLY <1>3, <1>4, N \in Nat, AlongLemma
  <1>6. \A n \in 0..N : Outcome(f[n], base, units, places, more) /\ Fight(f[n], units, places)
    BY <1>2, <1>5 DEF Outcome
  <1>7. ASSUME f[N] = base PROVE Still(k, a, base, list, N)
    <2>. DEFINE B == {n \in 0..N : f[N - n] = base}
    <2>1. \A n \in 0..N : n \in B <=> f[N - n] = base
      OBVIOUS
    <2>. HIDE DEF B
    <2>2. 0 \in B
      BY <1>7, <2>1
    <2>3. ASSUME NEW n \in 1..N, n - 1 \in B PROVE n \in B
      <3>1. PICK m : m = N - n + 1 /\ m \in 1..N /\ m - 1 = N - n /\ m = N - (n - 1) /\ m - 1 \in 0..N /\ n - 1 \in 0..N /\ n \in 0..N
        OBVIOUS
      <3>2. f[m] = base
        BY <2>1, <2>3, <3>1
      <3>3. Outcome(f[m - 1], base, units, places, more) /\ Fight(f[m - 1], units, places)
        BY <1>6, <3>1
      <3>4. Outcome(f[m], f[m - 1], units, places, more)
        BY <1>1, <3>1, <3>3
      <3>5. f[m - 1] = base
        BY <3>2, <3>3, <3>4, OutcomeBack
      <3>. QED  BY <2>1, <3>1, <3>5
    <2>4. \A n \in 0..N : n \in B
      BY ONLY <2>2, <2>3, N \in Nat, AlongLemma
    <2>5. ASSUME NEW n \in 0..N PROVE f[n] = base
      <3>1. N - n \in 0..N /\ N - (N - n) = n
        OBVIOUS
      <3>. QED  BY <2>1, <2>4, <3>1
    <2>6. ASSUME NEW n \in 1..N PROVE Does(k, a, base, list[n]) = base
      <3>1. n - 1 \in 0..N /\ n \in 0..N
        OBVIOUS
      <3>2. f[n - 1] = base /\ f[n] = base
        BY <2>5, <3>1
      <3>. QED  BY <1>1, <3>2
    <2>. QED  BY <2>6 DEF Still
  <1>8. Outcome(f[N], base, units, places, more)
    BY <1>6
  <1>. QED  BY <1>7, <1>8

\* Supporters are finitely many.
LEMMA OwnLemma ==
    ASSUME NEW units, Fielded(units), NEW places, NEW r, Fight(r, units, places), NEW u \in ToSet(units)
    PROVE  /\ r.sup[u].n \in Int /\ r.sup[u].own \subseteq ToSet(units) /\ Cardinality(r.sup[u].own) \in Nat
           /\ \A v \in r.sup[u].own : r.cmd[v].k # "-"
  <1>1. r.sup[u].n \in Int /\ r.sup[u].own \subseteq ToSet(units) /\ \A v \in r.sup[u].own : r.cmd[v].k # "-"
    BY DEF Fight, SupOk
  <1>2. IsFiniteSet(r.sup[u].own)
    BY <1>1, UnitsFinite, FS_Subset
  <1>. QED  BY <1>1, <1>2, FS_CardinalityType

LEMMA SwapBounceOutcome ==
    ASSUME NEW units, Fielded(units), NEW places, NEW r, Fight(r, units, places), NEW u \in ToSet(units),
           NEW y, y = SwapBounce(r, u)
    PROVE  Outcome(y, r, units, places, FALSE)
  <1>1. r.units = units
    BY DEF Fight, Drawn
  <1>2. PICK swap : swap = Occupant(units, Short[r.cmd[u].to])
    OBVIOUS
  <1>3. CASE Attacks(r, u) /\ swap # NoUnit /\ Attacks(r, swap)
    <2>1. swap \in ToSet(units)
      BY <1>2, <1>3, OccupantLemma
    <2>2. PICK mine, his, even, r1, r2 :
            /\ mine = r.sup[u].n - Cardinality(r.sup[u].own)
            /\ his = r.sup[swap].n - Cardinality(r.sup[swap].own)
            /\ even \in BOOLEAN
            /\ r1 = IF even \/ mine <= his THEN Boing(r, u) ELSE r
            /\ r2 = IF even \/ his <= mine THEN Boing(r1, swap) ELSE r1
            /\ y = r \/ y = Tag(r2, r.sup[u].own \cup r.sup[swap].own, "void")
      <3>. DEFINE even == u.pow = swap.pow \/ r.sup[u].n = r.sup[swap].n
      <3>. HIDE DEF even
      <3>1. even \in BOOLEAN
        BY DEF even
      <3>. QED  BY <1>1, <1>2, <3>1 DEF SwapBounce, even
    <2>3. mine \in Int /\ his \in Int
      <3>1. r.sup[u].n \in Int /\ Cardinality(r.sup[u].own) \in Nat
        BY OwnLemma
      <3>2. r.sup[swap].n \in Int /\ Cardinality(r.sup[swap].own) \in Nat
        BY <2>1, OwnLemma
      <3>. QED  BY <2>2, <3>1, <3>2
    <2>4. mine <= his \/ his <= mine
      BY <2>3
    <2>5. r.cmd[u].k = "-" /\ r.res[u] = {} /\ r.cmd[swap].k = "-" /\ r.res[swap] = {} /\ ToSet(units) \subseteq DOMAIN r.res
      BY <1>3 DEF Attacks, Fight, Bounced
    <2>6. /\ Fight(r1, units, places) /\ Tired(r, units) \subseteq Tired(r1, units) /\ r1.cmd = r.cmd
          /\ r1.res[swap] \subseteq {"bounce"}
          /\ r1 = r \/ u \in Tired(r1, units)
      BY <2>1, <2>2, <2>5, BoingFight
    <2>7. /\ Fight(r2, units, places) /\ Tired(r, units) \subseteq Tired(r2, units) /\ r2.cmd = r.cmd
          /\ u \in Tired(r2, units) \/ swap \in Tired(r2, units)
      <3>1. CASE even \/ his <= mine
        <4>1. r2 = Boing(r1, swap)
          BY <2>2, <3>1
        <4>. QED  BY <2>1, <2>5, <2>6, <4>1, BoingFight
      <3>2. CASE ~(even \/ his <= mine)
        <4>1. r2 = r1 /\ r1 = Boing(r, u)
          BY <2>2, <2>4, <3>2
        <4>. QED  BY <2>5, <2>6, <4>1, BoingFight
      <3>. QED  BY <3>1, <3>2
    <2>8. u \notin Tired(r, units) /\ swap \notin Tired(r, units)
      BY <2>5 DEF Tired
    <2>9. CASE y = Tag(r2, r.sup[u].own \cup r.sup[swap].own, "void")
      <3>1. \A v \in r.sup[u].own \cup r.sup[swap].own : r2.cmd[v].k # "-"
        BY <2>1, <2>7, OwnLemma
      <3>2. Fight(y, units, places)
        BY <2>7, <2>9, <3>1, TagFight
      <3>3. Tired(r2, units) \subseteq Tired(y, units)
        BY <2>7, <2>9, <3>1, TagFight
      <3>. QED  BY <2>7, <2>8, <3>2, <3>3 DEF Outcome
    <2>. QED  BY <2>2, <2>9 DEF Outcome
  <1>4. CASE ~(Attacks(r, u) /\ swap # NoUnit /\ Attacks(r, swap))
    <2>1. y = r
      BY <1>1, <1>2, <1>4 DEF SwapBounce
    <2>. QED  BY <2>1 DEF Outcome
  <1>. QED  BY <1>3, <1>4

\* Every attack on a place is the one strongest there.
CalmAt(r, units, place) ==
    \A u \in ToSet(units) : Attacks(r, u) /\ Short[r.cmd[u].to] = place
                               => \E e \in r.combat : Strongest(r, place) = {e} /\ e.unit = u

LEMMA OutgunnedOutcome ==
    ASSUME NEW units, Fielded(units), NEW places, NEW r, Fight(r, units, places), NEW place,
           NEW y, y = Outgunned(r, place)
    PROVE  /\ Outcome(y, r, units, places, FALSE)
           /\ y = r => CalmAt(r, units, place)
  <1>0. PICK us : us = ToSet(units)
    OBVIOUS
  <1>1. PICK alone, losers :
          /\ alone = (Cardinality(Strongest(r, place)) = 1)
          /\ losers = {e.unit : e \in IF alone THEN Conflicts(r, place) \ Strongest(r, place) ELSE Conflicts(r, place)}
          /\ y = FoldLeft(Boing, r, SetToSeq({u \in losers : Attacks(r, u)}))
    BY DEF Outgunned
  <1>2. /\ IsFiniteSet(r.combat) /\ \A e \in r.combat : e.unit \in us
        /\ \A u \in us : Attacks(r, u) => \E e \in r.combat : e.unit = u /\ e.at = Short[r.cmd[u].to]
    BY <1>0 DEF Fight, EntriesOk, EntryOk, Enters, Attacks
  <1>3. PICK S, list : S = {u \in losers : Attacks(r, u)} /\ list = SetToSeq(S)
    OBVIOUS
  <1>4. S \subseteq us /\ IsFiniteSet(S)
    <2>1. S \subseteq us
      BY <1>1, <1>2, <1>3 DEF Conflicts
    <2>. QED  BY <1>0, <2>1, UnitsFinite, FS_Subset
  <1>5. PICK N : N = Cardinality(S) /\ N \in Nat /\ DOMAIN list = 1..N /\ ToSet(list) = S /\ \A i \in 1..N : list[i] \in S
    BY <1>3, <1>4, ListLemma
  <1>6. y = FoldLeft(Boing, r, list)
    BY <1>1, <1>3
  <1>7. PICK f : Runs(f, "Boing", <<>>, r, list, N) /\ y = f[N]
    BY <1>5, <1>6, FoldBoing
  <1>8. f[0] = r /\ \A n \in 1..N : f[n] = Boing(f[n - 1], list[n])
    BY <1>7 DEF Runs, Does
  <1>. DEFINE Ok(n) == /\ Fight(f[n], units, places) /\ Tired(r, units) \subseteq Tired(f[n], units) /\ f[n].cmd = r.cmd
                       /\ \A v \in us : r.res[v] = {} => f[n].res[v] \subseteq {"bounce"}
                       /\ n # 0 => list[n] \in Tired(f[n], units)
              G == {n \in 0..N : Ok(n)}
  <1>9. \A n \in 0..N : n \in G <=> Ok(n)
    OBVIOUS
  <1>. HIDE DEF G
  <1>10. 0 \in G
    <2>1. Ok(0)
      BY <1>8
    <2>2. 0 \in 0..N
      BY <1>5
    <2>. HIDE DEF Ok
    <2>. QED  BY <1>9, <2>1, <2>2
  <1>11. ASSUME NEW n \in 1..N, n - 1 \in G PROVE n \in G
    <2>1. PICK x, u, z : x = f[n - 1] /\ u = list[n] /\ z = f[n] /\ z = Boing(x, u)
      BY <1>8
    <2>2. n - 1 \in 0..N /\ n \in 0..N
      BY <1>5
    <2>3. /\ Fight(x, units, places) /\ Tired(r, units) \subseteq Tired(x, units) /\ x.cmd = r.cmd
          /\ \A v \in us : r.res[v] = {} => x.res[v] \subseteq {"bounce"}
      BY <1>9, <1>11, <2>1, <2>2
    <2>4. u \in us /\ r.cmd[u].k = "-" /\ r.res[u] = {}
      BY <1>3, <1>4, <1>5, <2>1 DEF Attacks
    <2>5. /\ Fight(z, units, places) /\ Tired(x, units) \subseteq Tired(z, units) /\ u \in Tired(z, units)
          /\ z.cmd = x.cmd /\ z.res[u] = {"bounce"} /\ \A v \in DOMAIN x.res : v # u => z.res[v] = x.res[v]
      BY <1>0, <2>1, <2>3, <2>4, BoingFight
    <2>6. \A v \in us : v \in DOMAIN x.res
      BY <1>0, <2>3 DEF Fight, Bounced
    <2>7. \A v \in us : r.res[v] = {} => z.res[v] \subseteq {"bounce"}
      BY <2>3, <2>5, <2>6
    <2>8. Ok(n)
      BY <2>1, <2>3, <2>5, <2>7
    <2>. QED  BY <1>9, <2>2, <2>8
  <1>12. \A n \in 0..N : n \in G
    BY ONLY <1>5, <1>10, <1>11, AlongLemma
  <1>13. Ok(N)
    BY <1>5, <1>9, <1>12
  <1>14. S # {} => /\ Fight(y, units, places) /\ Tired(r, units) \subseteq Tired(y, units) /\ Tired(y, units) # Tired(r, units)
    <2>. SUFFICES ASSUME S # {} PROVE Fight(y, units, places) /\ Tired(r, units) \subseteq Tired(y, units) /\ Tired(y, units) # Tired(r, units)
      OBVIOUS
    <2>1. N # 0
      BY <1>4, <1>5, FS_EmptySet
    <2>2. N \in 1..N
      BY <1>5, <2>1
    <2>3. list[N] \notin Tired(r, units)
      BY <1>3, <1>5, <2>2 DEF Tired, Attacks
    <2>. QED  BY <1>7, <1>13, <2>1, <2>3
  <1>15. S = {} => y = r
    <2>. SUFFICES ASSUME S = {} PROVE y = r
      OBVIOUS
    <2>1. N = 0
      BY <1>4, <1>5, FS_EmptySet
    <2>. QED  BY <1>7, <1>8, <2>1
  <1>16. Outcome(y, r, units, places, FALSE)
    BY <1>14, <1>15 DEF Outcome
  <1>17. ASSUME y = r, NEW u \in us, Attacks(r, u), Short[r.cmd[u].to] = place
         PROVE  \E e \in r.combat : Strongest(r, place) = {e} /\ e.unit = u
    <2>1. S = {}
      BY <1>14, <1>17
    <2>2. PICK e \in r.combat : e.unit = u /\ e.at = place
      BY <1>2, <1>17
    <2>3. e \in Conflicts(r, place)
      BY <2>2 DEF Conflicts
    <2>4. u \notin losers
      BY <1>3, <1>17, <2>1
    <2>5. alone /\ e \in Strongest(r, place)
      BY <1>1, <2>2, <2>3, <2>4
    <2>6. IsFiniteSet(Strongest(r, place))
      <3>1. Strongest(r, place) \in SUBSET r.combat
        BY DEF Strongest, Conflicts
      <3>. QED  BY <1>2, <3>1, FS_Subset
    <2>7. PICK x : Strongest(r, place) = {x}
      BY <1>1, <2>5, <2>6, FS_Singleton
    <2>. QED  BY <2>2, <2>5, <2>7
  <1>18. y = r => CalmAt(r, units, place)
    BY <1>0, <1>17 DEF CalmAt
  <1>. QED  BY <1>16, <1>18

LEMMA SelfDislodgeOutcome ==
    ASSUME NEW units, Fielded(units), NEW places, NEW r, Fight(r, units, places), NEW place,
           NEW y, y = SelfDislodge(r, place)
    PROVE  Outcome(y, r, units, places, FALSE)
  <1>1. PICK e : e = CHOOSE x \in Strongest(r, place) : TRUE
    OBVIOUS
  <1>2. \/ y = r
        \/ Cardinality(Strongest(r, place)) = 1 /\ Attacks(r, e.unit) /\ y = Tag(Boing(r, e.unit), Help(r, e), "void")
    BY <1>1 DEF SelfDislodge
  <1>3. CASE Cardinality(Strongest(r, place)) = 1 /\ Attacks(r, e.unit) /\ y = Tag(Boing(r, e.unit), Help(r, e), "void")
    <2>1. Strongest(r, place) \subseteq r.combat
      BY DEF Strongest, Conflicts
    <2>2. Strongest(r, place) # {}
      BY <1>3, FS_EmptySet
    <2>3. e \in r.combat
      BY <1>1, <2>1, <2>2
    <2>4. PICK u \in ToSet(units) : u = e.unit
      BY <2>3 DEF Fight, EntriesOk, EntryOk
    <2>5. PICK b : b = Boing(r, u)
      OBVIOUS
    <2>6. r.cmd[u].k = "-" /\ r.res[u] = {}
      BY <1>3, <2>4 DEF Attacks
    <2>7. /\ Fight(b, units, places) /\ Tired(r, units) \subseteq Tired(b, units) /\ u \in Tired(b, units)
          /\ b.cmd = r.cmd
      BY <2>5, <2>6, BoingFight
    <2>8. \A v \in Help(r, e) : b.cmd[v].k # "-"
      BY <2>4, <2>7, OwnLemma DEF Help
    <2>9. y = Tag(b, Help(r, e), "void")
      BY <1>3, <2>4, <2>5
    <2>10. Fight(y, units, places)
      BY <2>7, <2>8, <2>9, TagFight
    <2>11. Tired(b, units) \subseteq Tired(y, units)
      BY <2>7, <2>8, <2>9, TagFight
    <2>12. u \notin Tired(r, units)
      BY <2>6 DEF Tired
    <2>. QED  BY <2>7, <2>10, <2>11, <2>12 DEF Outcome
  <1>. QED  BY <1>2, <1>3 DEF Outcome

LEMMA DislodgeCutOutcome ==
    ASSUME NEW units, Fielded(units), NEW places, NEW r, Fight(r, units, places), NEW u \in ToSet(units),
           NEW y, y = DislodgeCut(r, u)
    PROVE  Outcome(y, r, units, places, TRUE)
  <1>0. r.units = units /\ DOMAIN r = ResFields
    BY DEF Fight, Drawn
  <1>1. PICK m, victim, helped, entries, cut :
          /\ m = [r EXCEPT !.more = TRUE] /\ victim = Occupant(units, Short[r.cmd[u].to]) /\ cut = Tag(m, {victim}, "cut")
          /\ entries \subseteq r.combat
          /\ \/ y = r
             \/ /\ victim # NoUnit /\ r.cmd[victim].k = "S" /\ r.res[victim] = {}
                /\ y = cut \/ (entries # {} /\ y = Weaken(cut, victim, helped, entries))
    BY <1>0 DEF DislodgeCut, Conflicts
  <1>2. CASE victim # NoUnit /\ r.cmd[victim].k = "S" /\ r.res[victim] = {} /\ y # r
    <2>1. victim \in ToSet(units)
      BY <1>1, <1>2, OccupantLemma
    <2>2. But(m, r, {"more", "sound"}) /\ m.more = TRUE /\ m.cmd = r.cmd /\ m.combat = r.combat /\ m.sup = r.sup
      BY <1>0, <1>1 DEF But, ResFields
    <2>3. Fight(m, units, places) /\ Tired(m, units) = Tired(r, units)
      BY <2>2, NoteFight
    <2>4. \A v \in {victim} \cap ToSet(units) : m.cmd[v].k # "-"
      BY <1>2, <2>2
    <2>5. Fight(cut, units, places) /\ But(cut, m, {"res"})
      BY <1>1, <2>3, <2>4, TagFight
    <2>12. PICK S, tag : S = {victim} /\ tag = "cut"
      OBVIOUS
    <2>14. tag # "bounce" /\ tag # "dislodged"
      BY <2>12
    <2>13. cut = Tag(m, S, tag) /\ \A v \in S \cap ToSet(units) : m.cmd[v].k # "-"
      BY <1>1, <2>4, <2>12
    <2>6. Tired(m, units) \subseteq Tired(cut, units) /\ S \cap ToSet(units) \subseteq Tired(cut, units)
      BY ONLY <2>3, <2>13, <2>14, TagFight
    <2>11. {victim} \cap ToSet(units) \subseteq Tired(cut, units)
      BY <2>6, <2>12
    <2>7. victim \notin Tired(r, units)
      BY <1>2 DEF Tired
    <2>8. cut.more = TRUE /\ cut.combat = r.combat
      BY <2>2, <2>5 DEF But, ResFields
    <2>9. CASE y = cut
      BY <2>1, <2>3, <2>5, <2>6, <2>7, <2>8, <2>9, <2>11 DEF Outcome
    <2>10. CASE entries # {} /\ y = Weaken(cut, victim, helped, entries)
      <3>0. PICK e : e = CHOOSE x \in entries : TRUE
        OBVIOUS
      <3>1. e \in r.combat
        BY <1>1, <2>10, <3>0
      <3>2. PICK d, own : /\ d = [e EXCEPT !.str = e.str - 1]
                          /\ own = IF e.shared THEN cut.sup[helped].own \ {victim} ELSE cut.sup[helped].own
        OBVIOUS
      <3>14. y = [cut EXCEPT !.combat = (cut.combat \ {e}) \cup {d}, !.sup[helped].own = own]
        BY <2>10, <3>0, <3>2 DEF Weaken
      <3>3. DOMAIN cut = ResFields
        BY <2>5 DEF Fight, Drawn
      <3>4. But(y, cut, {"combat", "sup"}) /\ y.combat = (r.combat \ {e}) \cup {d}
        BY <2>8, <3>3, <3>14 DEF But, ResFields
      <3>5. y.sup = [cut.sup EXCEPT ![helped] = [cut.sup[helped] EXCEPT !.own = own]]
        BY <3>3, <3>14 DEF ResFields
      <3>6. /\ y.units = cut.units /\ y.places = cut.places /\ y.cmd = cut.cmd /\ y.out = cut.out /\ y.res = cut.res
            /\ y.more = TRUE
        BY <2>8, <3>4 DEF But, ResFields
      <3>7. EntryOk(e, ToSet(units), cut.cmd)
        BY <2>5, <2>8, <3>1 DEF Fight, EntriesOk
      <3>8. d.at = e.at /\ d.unit = e.unit /\ EntryOk(d, ToSet(units), cut.cmd)
        BY <3>2, <3>7 DEF EntryOk, EntryFields
      <3>9. EntriesOk(ToSet(units), y.combat, y.cmd)
        <4>1. IsFiniteSet(r.combat \ {e})
          BY <2>5, <2>8, FS_RemoveElement DEF Fight, EntriesOk
        <4>2. IsFiniteSet(y.combat)
          BY <3>4, <4>1, FS_AddElement
        <4>. QED  BY <2>5, <2>8, <3>4, <3>6, <3>8, <4>2 DEF Fight, EntriesOk
      <3>10. Enters(ToSet(units), y.res, y.cmd, y.combat)
        BY <2>5, <2>8, <3>4, <3>6, <3>8 DEF Fight, Enters
      <3>11. SupOk(ToSet(units), y.sup, y.cmd)
        <4>1. SupOk(ToSet(units), cut.sup, cut.cmd)
          BY <2>5 DEF Fight
        <4>2. own \subseteq cut.sup[helped].own
          BY <3>2
        <4>3. ASSUME NEW v \in ToSet(units)
              PROVE  /\ v \in DOMAIN y.sup /\ DOMAIN y.sup[v] = DOMAIN cut.sup[v] /\ y.sup[v].n = cut.sup[v].n
                     /\ y.sup[v].own \subseteq cut.sup[v].own
          BY <3>5, <4>1, <4>2 DEF SupOk
        <4>. QED  BY <3>6, <4>1, <4>3 DEF SupOk
      <3>12. Fight(y, units, places)
        BY <2>5, <3>4, <3>6, <3>9, <3>10, <3>11 DEF Fight, Drawn, But
      <3>13. Tired(y, units) = Tired(cut, units)
        BY <3>6 DEF Tired
      <3>. QED  BY <2>1, <2>3, <2>6, <2>7, <2>11, <3>6, <3>12, <3>13 DEF Outcome
    <2>. QED  BY <1>1, <1>2, <2>9, <2>10
  <1>. QED  BY <1>1, <1>2 DEF Outcome

\* The places visited are all there are.
Covers(places) == Len(places) \in Nat /\ DOMAIN places = 1..Len(places) /\ \A l \in Locs : Short[l] \in ToSet(places)

\* What a pass of a loop does: there is growth, or all is calm.
LoopStep(y, x, units, places) ==
    /\ Fight(y, units, places) /\ Tired(x, units) \subseteq Tired(y, units)
    /\ \/ y.more = FALSE /\ Calm(y, units)
       \/ y.more = TRUE /\ Tired(y, units) # Tired(x, units)

LEMMA BouncePassStep ==
    ASSUME NEW units, Fielded(units), NEW places, Covers(places), NEW r, Fight(r, units, places), r.more = FALSE,
           NEW y, y = BouncePass(r)
    PROVE  LoopStep(y, r, units, places)
  <1>1. Len(units) \in Nat /\ DOMAIN units = 1..Len(units) /\ r.units = units /\ r.places = places
    BY DEF Fielded, Fight, Drawn
  <1>2. Len(places) \in Nat /\ DOMAIN places = 1..Len(places)
    BY DEF Covers
  <1>3. PICK s, g, d : /\ s = FoldLeft(SwapBounce, r, units) /\ g = FoldLeft(Outgunned, r, places)
                       /\ d = FoldLeft(SelfDislodge, r, places)
    OBVIOUS
  <1>4. y = IF s # r THEN [s EXCEPT !.more = TRUE]
            ELSE IF g # r THEN [g EXCEPT !.more = TRUE] ELSE IF d # r THEN [d EXCEPT !.more = TRUE] ELSE r
    BY <1>1, <1>3 DEF BouncePass
  <1>5. Outcome(s, r, units, places, FALSE)
    <2>1. PICK f : Runs(f, "SwapBounce", <<>>, r, units, Len(units)) /\ s = f[Len(units)]
      BY ONLY <1>1, <1>3, FoldSwapBounce
    <2>2. ASSUME NEW n \in 1..Len(units), Fight(f[n - 1], units, places)
          PROVE  Outcome(Does("SwapBounce", <<>>, f[n - 1], units[n]), f[n - 1], units, places, FALSE)
      <3>1. units[n] \in ToSet(units)
        BY <1>1 DEF ToSet
      <3>. QED  BY <2>2, <3>1, SwapBounceOutcome DEF Does
    <2>. QED  BY <1>1, <2>1, <2>2, OutcomeAlong
  <1>6. Outcome(g, r, units, places, FALSE) /\ (g = r => Calm(r, units))
    <2>1. PICK f : Runs(f, "Outgunned", <<>>, r, places, Len(places)) /\ g = f[Len(places)]
      BY ONLY <1>2, <1>3, FoldOutgunned
    <2>2. ASSUME NEW n \in 1..Len(places), Fight(f[n - 1], units, places)
          PROVE  Outcome(Does("Outgunned", <<>>, f[n - 1], places[n]), f[n - 1], units, places, FALSE)
      BY <2>2, OutgunnedOutcome DEF Does
    <2>3. Outcome(g, r, units, places, FALSE)
      BY <1>2, <2>1, <2>2, OutcomeAlong
    <2>4. ASSUME g = r PROVE Calm(r, units)
      <3>1. \A n \in 1..Len(places) : Does("Outgunned", <<>>, r, places[n]) = r
        <4>1. f[Len(places)] = r
          BY <2>1, <2>4
        <4>2. Still("Outgunned", <<>>, r, places, Len(places))
          BY <1>2, <2>1, <2>2, <4>1, OutcomeAlong
        <4>. QED  BY <4>2 DEF Still
      <3>2. \A n \in 1..Len(places) : Outgunned(r, places[n]) = r
        BY <3>1 DEF Does
      <3>3. ASSUME NEW u \in ToSet(units), Attacks(r, u)
            PROVE  \E e \in r.combat : Strongest(r, Short[r.cmd[u].to]) = {e} /\ e.unit = u
        <4>1. r.cmd[u].to \in Locs
          BY <3>3 DEF Attacks, Fight, CmdOk, CanGo
        <4>2. PICK n \in 1..Len(places) : places[n] = Short[r.cmd[u].to]
          BY <1>2, <4>1 DEF Covers, ToSet
        <4>3. PICK place, x : place = places[n] /\ x = Outgunned(r, place) /\ x = r
          BY <3>2
        <4>4. CalmAt(r, units, place)
          BY <4>3, OutgunnedOutcome
        <4>. QED  BY <3>3, <4>2, <4>3, <4>4 DEF CalmAt
      <3>. QED  BY <3>3 DEF Calm
    <2>. QED  BY <2>3, <2>4
  <1>7. Outcome(d, r, units, places, FALSE)
    <2>1. PICK f : Runs(f, "SelfDislodge", <<>>, r, places, Len(places)) /\ d = f[Len(places)]
      BY ONLY <1>2, <1>3, FoldSelfDislodge
    <2>2. ASSUME NEW n \in 1..Len(places), Fight(f[n - 1], units, places)
          PROVE  Outcome(Does("SelfDislodge", <<>>, f[n - 1], places[n]), f[n - 1], units, places, FALSE)
      BY <2>2, SelfDislodgeOutcome DEF Does
    <2>. QED  BY <1>2, <2>1, <2>2, OutcomeAlong
  <1>8. ASSUME NEW z, Outcome(z, r, units, places, FALSE), z # r, y = [z EXCEPT !.more = TRUE]
        PROVE  LoopStep(y, r, units, places)
    <2>1. Fight(z, units, places) /\ Tired(r, units) \subseteq Tired(z, units) /\ Tired(z, units) # Tired(r, units)
      BY <1>8 DEF Outcome
    <2>2. But(y, z, {"more", "sound"}) /\ y.more = TRUE
      BY <1>8, <2>1 DEF Fight, Drawn, But, ResFields
    <2>3. Fight(y, units, places) /\ Tired(y, units) = Tired(z, units)
      BY <2>1, <2>2, NoteFight
    <2>. QED  BY <2>1, <2>2, <2>3 DEF LoopStep
  <1>9. CASE s = r /\ g = r /\ d = r
    BY <1>4, <1>6, <1>9 DEF LoopStep
  <1>. QED  BY <1>4, <1>5, <1>6, <1>7, <1>8, <1>9

\* The passes of a loop do so, until there is no more.
LoopPasses(f, k, a, list, N, units, places) ==
    \A n \in 1..N : Fight(f[n - 1], units, places)
        => /\ f[n - 1].more = TRUE => LoopStep(Does(k, a, f[n - 1], list[n]), f[n - 1], units, places)
           /\ f[n - 1].more = FALSE => Does(k, a, f[n - 1], list[n]) = f[n - 1]
Looped(f, k, a, base, list, N, units, places) ==
    /\ Runs(f, k, a, base, list, N) /\ Fight(base, units, places) /\ base.more = TRUE
    /\ LoopPasses(f, k, a, list, N, units, places)
Ended(y, base, units, places) ==
    /\ Fight(y, units, places) /\ Tired(base, units) \subseteq Tired(y, units)
    /\ y.more = FALSE /\ Calm(y, units)

\* A loop of passes ends, since there are but so many units: all is calm then.
LEMMA LoopEnds ==
    ASSUME NEW units, Fielded(units), NEW places, NEW f, NEW k, NEW a, NEW base, NEW list, NEW N, N = 2 * Len(units) + 1,
           Looped(f, k, a, base, list, N, units, places)
    PROVE  Ended(f[N], base, units, places)
  <1>0. N \in Nat /\ Len(units) \in Nat /\ Cardinality(ToSet(units)) <= Len(units) /\ Cardinality(ToSet(units)) \in Nat /\ IsFiniteSet(ToSet(units))
    BY UnitsFinite DEF Fielded
  <1>. DEFINE Ok(n) == /\ Fight(f[n], units, places) /\ Tired(base, units) \subseteq Tired(f[n], units)
                       /\ \/ f[n].more = FALSE /\ Calm(f[n], units)
                          \/ f[n].more = TRUE /\ Cardinality(Tired(f[n], units)) >= n
              G == {n \in 0..N : Ok(n)}
  <1>1. f[0] = base /\ \A n \in 1..N : f[n] = Does(k, a, f[n - 1], list[n])
    BY DEF Runs, Looped
  <1>11. Fight(base, units, places) /\ base.more = TRUE /\ LoopPasses(f, k, a, list, N, units, places)
    BY DEF Looped
  <1>2. \A n \in 0..N : n \in G <=> Ok(n)
    OBVIOUS
  <1>. HIDE DEF G
  <1>3. \A x : IsFiniteSet(Tired(x, units)) /\ Cardinality(Tired(x, units)) \in Nat /\ Cardinality(Tired(x, units)) <= Len(units)
    <2>. TAKE x
    <2>1. Tired(x, units) \in SUBSET ToSet(units)
      BY DEF Tired
    <2>2. IsFiniteSet(Tired(x, units)) /\ Cardinality(Tired(x, units)) <= Cardinality(ToSet(units))
      BY <1>0, <2>1, FS_Subset
    <2>3. Cardinality(Tired(x, units)) \in Nat
      BY <2>2, FS_CardinalityType
    <2>. QED  BY <1>0, <2>2, <2>3
  <1>4. 0 \in G
    <2>1. Ok(0)
      BY <1>1, <1>11, <1>3
    <2>2. 0 \in 0..N
      BY <1>0
    <2>. HIDE DEF Ok
    <2>. QED  BY <1>2, <2>1, <2>2
  <1>5. ASSUME NEW n \in 1..N, n - 1 \in G PROVE n \in G
    <2>1. n - 1 \in 0..N /\ n \in 0..N /\ n \in Nat
      BY <1>0
    <2>2. Ok(n - 1)
      BY <1>2, <1>5, <2>1
    <2>3. PICK x, y : x = f[n - 1] /\ y = f[n] /\ y = Does(k, a, x, list[n])
      BY <1>1
    <2>4. CASE x.more = FALSE
      <3>1. y = x /\ Calm(x, units)
        BY <1>11, <2>2, <2>3, <2>4 DEF LoopPasses
      <3>2. Ok(n)
        BY <2>2, <2>3, <2>4, <3>1
      <3>. QED  BY <1>2, <2>1, <3>2
    <2>5. CASE x.more = TRUE
      <3>1. LoopStep(y, x, units, places)
        BY <1>11, <2>2, <2>3, <2>5 DEF LoopPasses
      <3>2. Cardinality(Tired(x, units)) >= n - 1
        BY <2>2, <2>3, <2>5
      <3>3. ASSUME Tired(y, units) # Tired(x, units) PROVE Cardinality(Tired(y, units)) >= n
        <4>1. Tired(x, units) \in SUBSET Tired(y, units)
          BY <3>1 DEF LoopStep
        <4>2. /\ Cardinality(Tired(x, units)) <= Cardinality(Tired(y, units))
              /\ Cardinality(Tired(x, units)) # Cardinality(Tired(y, units))
          BY <1>3, <3>3, <4>1, FS_Subset
        <4>3. PICK i, j : i = Cardinality(Tired(x, units)) /\ j = Cardinality(Tired(y, units)) /\ i \in Nat /\ j \in Nat
          BY <1>3
        <4>. QED  BY <2>1, <3>2, <4>2, <4>3
      <3>4. Ok(n)
        BY <2>2, <2>3, <3>1, <3>3 DEF LoopStep
      <3>. QED  BY <1>2, <2>1, <3>4
    <2>. QED  BY <2>2, <2>3, <2>4, <2>5
  <1>6. \A n \in 0..N : n \in G
    BY ONLY <1>0, <1>4, <1>5, AlongLemma
  <1>7. Ok(N)
    BY <1>0, <1>2, <1>6
  <1>8. ~(Cardinality(Tired(f[N], units)) >= N)
    <2>1. PICK c : c = Cardinality(Tired(f[N], units)) /\ c \in Nat /\ c <= Len(units)
      BY <1>3
    <2>. QED  BY <1>0, <2>1
  <1>. QED  BY <1>7, <1>8 DEF Ended

LEMMA BounceLoop ==
    ASSUME NEW units, Fielded(units), NEW places, Covers(places), NEW r, Fight(r, units, places),
           NEW y, y = While(BouncePass, r)
    PROVE  Fight(y, units, places) /\ Tired(r, units) \subseteq Tired(y, units) /\ y.more = FALSE /\ Calm(y, units)
  <1>1. PICK N : N = 2 * Len(units) + 1 /\ N \in Nat /\ DOMAIN Twice(units) = 1..N
    BY TwiceLemma
  <1>2. r.units = units /\ DOMAIN r = ResFields
    BY DEF Fight, Drawn
  <1>3. PICK base : base = [r EXCEPT !.more = TRUE]
    OBVIOUS
  <1>4. PICK z : z = BouncePasses(base, Twice(units))
    OBVIOUS
  <1>5. y = [z EXCEPT !.sound = z.sound /\ ~z.more]
    BY <1>2, <1>3, <1>4 DEF While, Twice, BouncePasses
  <1>6. But(base, r, {"more", "sound"}) /\ base.more = TRUE
    BY <1>2, <1>3 DEF But, ResFields
  <1>7. Fight(base, units, places) /\ Tired(base, units) = Tired(r, units)
    BY <1>6, NoteFight
  <1>8. PICK f : Runs(f, "BouncePass", <<>>, base, Twice(units), N) /\ z = f[N]
    BY ONLY <1>1, <1>4, FoldBouncePass
  <1>9. LoopPasses(f, "BouncePass", <<>>, Twice(units), N, units, places)
    <2>1. ASSUME NEW n \in 1..N, Fight(f[n - 1], units, places)
          PROVE  /\ f[n - 1].more = TRUE => LoopStep(Does("BouncePass", <<>>, f[n - 1], Twice(units)[n]), f[n - 1], units, places)
                 /\ f[n - 1].more = FALSE => Does("BouncePass", <<>>, f[n - 1], Twice(units)[n]) = f[n - 1]
      <3>1. PICK x, x0, p : x = f[n - 1] /\ x0 = [x EXCEPT !.more = FALSE] /\ p = BouncePass(x0)
        OBVIOUS
      <3>2. Does("BouncePass", <<>>, f[n - 1], Twice(units)[n]) = IF x.more THEN p ELSE x
        BY <3>1 DEF Does
      <3>3. Fight(x, units, places)
        BY <2>1, <3>1
      <3>4. But(x0, x, {"more", "sound"}) /\ x0.more = FALSE
        BY <3>1, <3>3 DEF Fight, Drawn, But, ResFields
      <3>5. Fight(x0, units, places) /\ Tired(x0, units) = Tired(x, units)
        BY <3>3, <3>4, NoteFight
      <3>6. LoopStep(p, x0, units, places)
        BY <3>1, <3>4, <3>5, BouncePassStep
      <3>7. LoopStep(p, x, units, places)
        BY <3>5, <3>6 DEF LoopStep
      <3>. QED  BY <3>1, <3>2, <3>7
    <2>. QED  BY <2>1 DEF LoopPasses
  <1>10. /\ Fight(z, units, places) /\ Tired(base, units) \subseteq Tired(z, units)
         /\ z.more = FALSE /\ Calm(z, units)
    <2>1. Looped(f, "BouncePass", <<>>, base, Twice(units), N, units, places)
      BY <1>6, <1>7, <1>8, <1>9 DEF Looped
    <2>2. Ended(f[N], base, units, places)
      BY ONLY Fielded(units), <1>1, <2>1, LoopEnds
    <2>. QED  BY <1>8, <2>2 DEF Ended
  <1>11. But(y, z, {"more", "sound"}) /\ y.more = FALSE
    BY <1>5, <1>10 DEF Fight, Drawn, But, ResFields
  <1>12. Fight(y, units, places) /\ Tired(y, units) = Tired(z, units) /\ Calm(y, units)
    BY <1>10, <1>11, NoteFight
  <1>. QED  BY <1>7, <1>10, <1>11, <1>12

LEMMA BattlePassStep ==
    ASSUME NEW units, Fielded(units), NEW places, Covers(places), NEW r, Fight(r, units, places),
           NEW y, y = BattlePass(r)
    PROVE  LoopStep(y, r, units, places)
  <1>1. Len(units) \in Nat /\ DOMAIN units = 1..Len(units) /\ r.units = units
    BY DEF Fielded, Fight, Drawn
  <1>2. PICK w : w = While(BouncePass, r)
    OBVIOUS
  <1>3. y = FoldLeft(DislodgeCut, w, units)
    BY <1>1, <1>2 DEF BattlePass
  <1>4. Fight(w, units, places) /\ Tired(r, units) \subseteq Tired(w, units) /\ w.more = FALSE /\ Calm(w, units)
    BY <1>2, BounceLoop
  <1>5. PICK f : Runs(f, "DislodgeCut", <<>>, w, units, Len(units)) /\ y = f[Len(units)]
    BY ONLY <1>1, <1>3, FoldDislodgeCut
  <1>6. ASSUME NEW n \in 1..Len(units), Fight(f[n - 1], units, places)
        PROVE  Outcome(Does("DislodgeCut", <<>>, f[n - 1], units[n]), f[n - 1], units, places, TRUE)
    <2>1. units[n] \in ToSet(units)
      BY <1>1 DEF ToSet
    <2>. QED  BY <1>6, <2>1, DislodgeCutOutcome DEF Does
  <1>7. Outcome(y, w, units, places, TRUE)
    BY <1>1, <1>4, <1>5, <1>6, OutcomeAlong
  <1>. QED  BY <1>4, <1>7 DEF Outcome, LoopStep

LEMMA BattlesCalm ==
    ASSUME NEW units, Fielded(units), NEW places, Covers(places), NEW r, Fight(r, units, places),
           NEW y, y = Battles(r)
    PROVE  Fight(y, units, places) /\ Calm(y, units)
  <1>1. PICK N : N = 2 * Len(units) + 1 /\ N \in Nat /\ DOMAIN Twice(units) = 1..N
    BY TwiceLemma
  <1>2. r.units = units /\ DOMAIN r = ResFields
    BY DEF Fight, Drawn
  <1>3. PICK base : base = [r EXCEPT !.more = TRUE]
    OBVIOUS
  <1>4. PICK z : z = BattlePasses(base, Twice(units))
    OBVIOUS
  <1>5. y = [z EXCEPT !.sound = z.sound /\ ~z.more]
    BY <1>2, <1>3, <1>4 DEF Battles, While, Twice, BattlePasses
  <1>6. But(base, r, {"more", "sound"}) /\ base.more = TRUE
    BY <1>2, <1>3 DEF But, ResFields
  <1>7. Fight(base, units, places)
    BY <1>6, NoteFight
  <1>8. PICK f : Runs(f, "BattlePass", <<>>, base, Twice(units), N) /\ z = f[N]
    BY ONLY <1>1, <1>4, FoldBattlePass
  <1>9. LoopPasses(f, "BattlePass", <<>>, Twice(units), N, units, places)
    <2>1. ASSUME NEW n \in 1..N, Fight(f[n - 1], units, places)
          PROVE  /\ f[n - 1].more = TRUE => LoopStep(Does("BattlePass", <<>>, f[n - 1], Twice(units)[n]), f[n - 1], units, places)
                 /\ f[n - 1].more = FALSE => Does("BattlePass", <<>>, f[n - 1], Twice(units)[n]) = f[n - 1]
      <3>1. PICK x, x0, p : x = f[n - 1] /\ x0 = [x EXCEPT !.more = FALSE] /\ p = BattlePass(x0)
        OBVIOUS
      <3>2. Does("BattlePass", <<>>, f[n - 1], Twice(units)[n]) = IF x.more THEN p ELSE x
        BY <3>1 DEF Does
      <3>3. Fight(x, units, places)
        BY <2>1, <3>1
      <3>4. But(x0, x, {"more", "sound"})
        BY <3>1, <3>3 DEF Fight, Drawn, But, ResFields
      <3>5. Fight(x0, units, places) /\ Tired(x0, units) = Tired(x, units)
        BY <3>3, <3>4, NoteFight
      <3>6. LoopStep(p, x0, units, places)
        BY <3>1, <3>5, BattlePassStep
      <3>7. LoopStep(p, x, units, places)
        BY <3>5, <3>6 DEF LoopStep
      <3>. QED  BY <3>1, <3>2, <3>7
    <2>. QED  BY <2>1 DEF LoopPasses
  <1>10. Fight(z, units, places) /\ z.more = FALSE /\ Calm(z, units)
    <2>1. Looped(f, "BattlePass", <<>>, base, Twice(units), N, units, places)
      BY <1>6, <1>7, <1>8, <1>9 DEF Looped
    <2>2. Ended(f[N], base, units, places)
      BY ONLY Fielded(units), <1>1, <2>1, LoopEnds
    <2>. QED  BY <1>8, <2>2 DEF Ended
  <1>11. But(y, z, {"more", "sound"})
    BY <1>5, <1>10 DEF Fight, Drawn, But, ResFields
  <1>. QED  BY <1>10, <1>11, NoteFight

\* The battles begin when the strengths are known.
LEMMA StrengthsFight ==
    ASSUME NEW units, Fielded(units), NEW places, NEW r, Primed(r, units, places), NEW y, y = Strengths(r)
    PROVE  Fight(y, units, places)
  <1>1. DOMAIN r = ResFields /\ DOMAIN r.cmd = ToSet(units)
    BY DEF Primed, Drawn, CmdOk
  <1>. DEFINE entry(u) == [at |-> Short[IF Attacks(r, u) THEN r.cmd[u].to ELSE u.loc],
                           str |-> 1 + r.sup[u].n, unit |-> u, shared |-> TRUE]
  <1>2. y = [r EXCEPT !.combat = {entry(u) : u \in ToSet(units)}]
    BY <1>1 DEF Strengths
  <1>3. But(y, r, {"combat"}) /\ y.combat = {entry(u) : u \in ToSet(units)}
    BY <1>1, <1>2 DEF But, ResFields
  <1>4. /\ y.units = r.units /\ y.places = r.places /\ y.cmd = r.cmd /\ y.sup = r.sup /\ y.out = r.out /\ y.res = r.res
    BY <1>3 DEF But, ResFields
  <1>5. IsFiniteSet(y.combat)
    <2>1. PICK g : g = [u \in ToSet(units) |-> entry(u)]
      OBVIOUS
    <2>2. g \in Surjection(ToSet(units), y.combat)
      BY <1>3, <2>1 DEF Surjection
    <2>. QED  BY <2>2, UnitsFinite, FS_Surjection
  <1>6. ASSUME NEW u \in ToSet(units) PROVE EntryOk(entry(u), ToSet(units), y.cmd)
    <2>1. r.sup[u].n \in Int
      BY DEF Primed, SupOk
    <2>. QED  BY <1>4, <2>1 DEF EntryOk, EntryFields, Attacks
  <1>7. EntriesOk(ToSet(units), y.combat, y.cmd)
    BY <1>3, <1>5, <1>6 DEF EntriesOk
  <1>8. Enters(ToSet(units), y.res, y.cmd, y.combat)
    <2>. SUFFICES ASSUME NEW u \in ToSet(units), r.cmd[u].k = "-", r.res[u] = {}
                  PROVE  \E e \in y.combat : e.unit = u /\ e.at = Short[r.cmd[u].to]
      BY <1>4 DEF Enters
    <2>1. entry(u) \in y.combat
      BY <1>3
    <2>2. entry(u).unit = u /\ entry(u).at = Short[r.cmd[u].to]
      BY DEF Attacks
    <2>. QED  BY <2>1, <2>2
  <1>9. Bounced(ToSet(units), y.res, y.cmd)
    BY <1>4 DEF Primed, Untold, Bounced
  <1>. QED  BY <1>3, <1>4, <1>7, <1>8, <1>9 DEF Primed, Fight, Drawn, But

-----------------------------------------------------------------------------
(* Dislodgements.                                                          *)

\* A unit is out when it is told that it is dislodged; one that bounced may
\* go on after all, and is told nothing else.
Notified(us, res, out, cmd) ==
    /\ us \subseteq DOMAIN res /\ us \subseteq DOMAIN out
    /\ \A u \in us : /\ out[u] # None => "dislodged" \in res[u]
                     /\ "bounce" \in res[u] => /\ cmd[u].k = "-" /\ res[u] \subseteq {"bounce", "dislodged"}
                                               /\ "dislodged" \in res[u] => out[u] # None

\* The unit that stands where u goes, leaves or is dislodged.
WayClear(r, u) ==
    \/ Occupant(r.units, Short[r.cmd[u].to]) = NoUnit
    \/ Attacks(r, Occupant(r.units, Short[r.cmd[u].to]))
    \/ r.out[Occupant(r.units, Short[r.cmd[u].to])] # None

Going(r, units, places, done) ==
    /\ Drawn(r, units, places) /\ CmdOk(ToSet(units), r.cmd) /\ SupOk(ToSet(units), r.sup, r.cmd)
    /\ Notified(ToSet(units), r.res, r.out, r.cmd) /\ EntriesOk(ToSet(units), r.combat, r.cmd) /\ Calm(r, units)
    /\ \A u \in ToSet(units) \cap done : Attacks(r, u) => WayClear(r, u)

\* The strongest of a place stays so when others go.
LEMMA StrongestKept ==
    ASSUME NEW units, NEW r, EntriesOk(ToSet(units), r.combat, r.cmd), NEW y, y.combat \subseteq r.combat,
           NEW place, NEW e \in y.combat, Strongest(r, place) = {e}
    PROVE  Strongest(y, place) = {e}
  <1>1. \A f \in r.combat : f.str \in Int
    BY DEF EntriesOk, EntryOk
  <1>2. e \in r.combat /\ e.at = place /\ \A f \in r.combat : f.at = place => f.str <= e.str
    BY DEF Strongest, Conflicts
  <1>3. e \in Strongest(y, place)
    BY <1>2 DEF Strongest, Conflicts
  <1>4. ASSUME NEW g \in Strongest(y, place) PROVE g = e
    <2>1. g \in r.combat /\ g.at = place /\ e.str <= g.str
      BY <1>2 DEF Strongest, Conflicts
    <2>2. \A f \in r.combat : f.at = place => f.str <= g.str
      BY <1>1, <1>2, <2>1
    <2>3. g \in Strongest(r, place)
      BY <2>1, <2>2 DEF Strongest, Conflicts
    <2>. QED  BY <2>3
  <1>. QED  BY <1>3, <1>4

\* The unit w is told nothing any more, and its entries at home are gone.
Freed(y, r, w) ==
    /\ But(y, r, {"res", "out", "combat", "sound"}) /\ DOMAIN y.res = DOMAIN r.res /\ DOMAIN y.out = DOMAIN r.out
    /\ y.res[w] = {} /\ \A v \in DOMAIN r.res : v # w => y.res[v] = r.res[v]
    /\ y.out[w] = None /\ \A v \in DOMAIN r.out : v # w => y.out[v] = r.out[v]
    /\ y.combat \subseteq r.combat /\ \A f \in r.combat \ y.combat : f.unit = w /\ f.at = Short[w.loc]

\* A unit that bounced goes on when it is the strongest where a unit leaves.
LEMMA FreedGoing ==
    ASSUME NEW units, Fielded(units), NEW places, NEW done, NEW r, Going(r, units, places, done),
           NEW a \in ToSet(units), Attacks(r, a), NEW site, site = Short[a.loc], NEW e, Strongest(r, site) = {e},
           NEW w, w = e.unit, "bounce" \in r.res[w], NEW y, Freed(y, r, w)
    PROVE  Going(y, units, places, done)
  <1>. DEFINE us == ToSet(units)
  <1>1. /\ y.units = units /\ y.places = places /\ y.cmd = r.cmd /\ y.sup = r.sup /\ r.units = units /\ DOMAIN y = ResFields
    BY DEF Freed, But, ResFields, Going, Drawn
  <1>2. e \in r.combat /\ e.at = Short[a.loc]
    BY DEF Strongest, Conflicts
  <1>3. w = e.unit /\ w \in us
    BY <1>2 DEF Going, EntriesOk, EntryOk
  <1>4. r.cmd[w].k = "-" /\ w # a
    BY <1>3 DEF Going, Notified, Attacks
  <1>5. Short[w.loc] # Short[a.loc]
    BY <1>3, <1>4 DEF Fielded
  <1>6. Short[r.cmd[w].to] = Short[a.loc]
    BY <1>2, <1>3, <1>5 DEF Going, EntriesOk, EntryOk
  <1>7. e \in y.combat
    BY <1>2, <1>3, <1>5 DEF Freed
  <1>8. us \subseteq DOMAIN y.res /\ us \subseteq DOMAIN y.out /\ us \subseteq DOMAIN r.res /\ us \subseteq DOMAIN r.out
    BY DEF Freed, Going, Notified
  <1>9. Attacks(y, w)
    BY <1>1, <1>3, <1>4 DEF Freed, Attacks
  <1>10. \A v \in us : v # w => y.res[v] = r.res[v] /\ y.out[v] = r.out[v]
    BY <1>3, <1>8 DEF Freed
  <1>11. \A v \in us : v # w => (Attacks(y, v) <=> Attacks(r, v))
    BY <1>1, <1>10 DEF Attacks
  <1>12. Notified(us, y.res, y.out, y.cmd)
    <2>1. y.res[w] = {} /\ y.out[w] = None
      BY <1>3 DEF Freed
    <2>2. \A v \in us : v # w =>
            /\ r.out[v] # None => "dislodged" \in r.res[v]
            /\ "bounce" \in r.res[v] => /\ r.cmd[v].k = "-" /\ r.res[v] \subseteq {"bounce", "dislodged"}
                                        /\ "dislodged" \in r.res[v] => r.out[v] # None
      BY DEF Going, Notified
    <2>. QED  BY <1>1, <1>8, <1>10, <2>1, <2>2 DEF Notified
  <1>13. EntriesOk(us, r.combat, r.cmd) /\ y.combat \subseteq r.combat
    BY DEF Going, Freed
  <1>14. EntriesOk(us, y.combat, y.cmd)
    <2>1. IsFiniteSet(y.combat)
      BY <1>13, FS_Subset DEF EntriesOk
    <2>. QED  BY <1>1, <1>13, <2>1 DEF EntriesOk
  <1>15. ASSUME NEW v \in us, Attacks(y, v)
         PROVE  \E f \in y.combat : Strongest(y, Short[y.cmd[v].to]) = {f} /\ f.unit = v
    <2>1. CASE v = w
      <3>1. Strongest(y, Short[a.loc]) = {e}
        BY <1>7, <1>13, StrongestKept
      <3>. QED  BY <1>1, <1>3, <1>6, <1>7, <2>1, <3>1
    <2>2. CASE v # w
      <3>1. PICK f \in r.combat : Strongest(r, Short[r.cmd[v].to]) = {f} /\ f.unit = v
        BY <1>11, <1>15, <2>2 DEF Going, Calm
      <3>2. f \in y.combat
        BY <1>3, <2>2, <3>1 DEF Freed
      <3>3. PICK p : p = Short[r.cmd[v].to]
        OBVIOUS
      <3>4. Strongest(y, p) = {f}
        BY <1>13, <3>1, <3>2, <3>3, StrongestKept
      <3>. QED  BY <1>1, <3>1, <3>2, <3>3, <3>4
    <2>. QED  BY <2>1, <2>2
  <1>16. Calm(y, units)
    BY <1>15 DEF Calm
  <1>17. ASSUME NEW v \in us \cap done, Attacks(y, v) PROVE WayClear(y, v)
    <2>1. PICK o : o = Occupant(units, Short[r.cmd[v].to])
      OBVIOUS
    <2>2. o = NoUnit \/ o \in us
      BY <2>1, OccupantLemma
    <2>3. CASE v = w
      <3>1. o = a
        BY <1>6, <2>1, <2>3, OccupantAtHome
      <3>2. Attacks(y, o)
        BY <1>4, <1>11, <3>1
      <3>. QED  BY <1>1, <2>1, <3>2 DEF WayClear
    <2>4. CASE v # w
      <3>1. o = NoUnit \/ Attacks(r, o) \/ r.out[o] # None
        BY <1>1, <1>11, <1>17, <2>1, <2>4 DEF Going, WayClear
      <3>2. o = NoUnit \/ Attacks(y, o) \/ y.out[o] # None
        BY <1>9, <1>10, <1>11, <2>2, <3>1
      <3>. QED  BY <1>1, <2>1, <3>2 DEF WayClear
    <2>. QED  BY <2>3, <2>4
  <1>18. Drawn(y, units, places) /\ CmdOk(us, y.cmd) /\ SupOk(us, y.sup, y.cmd)
    BY <1>1 DEF Going, Drawn
  <1>19. Going(y, units, places, done)
    BY <1>12, <1>14, <1>16, <1>17, <1>18 DEF Going
  <1>. QED  BY <1>19

\* Entries of a unit at a place are gone, if any.
Gone(y, r, u, site) == y.combat \subseteq r.combat /\ \A f \in r.combat \ y.combat : f.unit = u /\ f.at = site

LEMMA NoEffectFields ==
    ASSUME NEW r, DOMAIN r = ResFields, NEW u, NEW site, NEW shared, NEW y, y = NoEffect(r, u, site, shared)
    PROVE  But(y, r, {"combat", "sound"}) /\ Gone(y, r, u, site)
  <1>1. PICK gone, sound : gone \subseteq {e \in Conflicts(r, site) : e.unit = u} /\ y = [r EXCEPT !.combat = r.combat \ gone, !.sound = sound]
    BY DEF NoEffect
  <1>2. But(y, r, {"combat", "sound"}) /\ y.combat = r.combat \ gone
    BY <1>1 DEF But, ResFields
  <1>. QED  BY <1>1, <1>2 DEF Conflicts, Gone

\* The place where the chain goes on is the home of a unit that leaves it.
ChainOk(x, units, places, done) ==
    /\ DOMAIN x = {"r", "site"} /\ Going(x.r, units, places, done)
    /\ x.site # None => \E a \in ToSet(units) : Attacks(x.r, a) /\ x.site = Short[a.loc]

LEMMA UnbounceAtChain ==
    ASSUME NEW units, Fielded(units), NEW places, NEW done, NEW x, ChainOk(x, units, places, done), NEW u, NEW y, y = UnbounceAt(x, u)
    PROVE  ChainOk(y, units, places, done)
  <1>1. PICK r : r = x.r /\ Going(r, units, places, done)
    BY DEF ChainOk
  <1>2. DOMAIN r = ResFields
    BY <1>1 DEF Going, Drawn
  <1>3. SUFFICES ASSUME x.site # None, Cardinality(Strongest(r, x.site)) = 1,
                        "bounce" \in r.res[(CHOOSE e \in Strongest(r, x.site) : TRUE).unit]
                 PROVE  ChainOk(y, units, places, done)
    <2>1. CASE x.site = None
      BY <2>1 DEF UnbounceAt
    <2>2. CASE x.site # None /\ (Cardinality(Strongest(r, x.site)) # 1 \/ "bounce" \notin r.res[(CHOOSE e \in Strongest(r, x.site) : TRUE).unit])
      <3>1. y = [x EXCEPT !.site = None]
        BY <1>1, <2>2 DEF UnbounceAt
      <3>2. DOMAIN y = {"r", "site"} /\ y.r = x.r /\ y.site = None
        BY <3>1 DEF ChainOk
      <3>. QED  BY <3>2 DEF ChainOk
    <2>. QED  BY <2>1, <2>2
  <1>4. PICK a \in ToSet(units) : Attacks(r, a) /\ x.site = Short[a.loc]
    BY <1>1, <1>3 DEF ChainOk
  <1>5. PICK e, w : e = (CHOOSE f \in Strongest(r, x.site) : TRUE) /\ w = e.unit
    OBVIOUS
  <1>6. Strongest(r, x.site) = {e}
    <2>1. IsFiniteSet(Strongest(r, x.site))
      <3>1. IsFiniteSet(r.combat) /\ Strongest(r, x.site) \subseteq r.combat
        BY <1>1 DEF Going, EntriesOk, Strongest, Conflicts
      <3>. QED  BY <3>1, FS_Subset
    <2>2. \E z : Strongest(r, x.site) = {z}
      BY <1>3, <2>1, FS_Singleton
    <2>. QED  BY <1>5, <2>2
  <1>7. w \in ToSet(units)
    BY <1>1, <1>5, <1>6 DEF Strongest, Conflicts, Going, EntriesOk, EntryOk
  <1>8. /\ "bounce" \in r.res[w] /\ r.res[w] \subseteq {"bounce", "dislodged"}
        /\ "dislodged" \in r.res[w] => r.out[w] # None
        /\ w \in DOMAIN r.res /\ w \in DOMAIN r.out
    BY <1>1, <1>3, <1>5, <1>7 DEF Going, Notified
  <1>9. PICK freed, home, vacated, no, site : /\ no = FALSE /\ site = x.site /\ freed = [r EXCEPT !.res[w] = @ \ {"bounce"}] /\ home = Short[w.loc]
                                    /\ vacated = NoEffect(freed, w, home, no)
    OBVIOUS
  <1>10. But(freed, r, {"res"}) /\ freed.res = [r.res EXCEPT ![w] = @ \ {"bounce"}]
    BY <1>2, <1>9 DEF But, ResFields
  <1>11. home # None
    BY <1>7, <1>9, MapAssumption DEF Fielded
  <1>12. CASE r.out[w] # None
    <2>1. PICK s : s = [freed EXCEPT !.out[w] = None, !.res[w] = @ \ {"dislodged"}]
      OBVIOUS
    <2>2. y = [r |-> s, site |-> None]
      BY <1>1, <1>3, <1>5, <1>9, <1>12, <2>1 DEF UnbounceAt
    <2>3. /\ But(s, r, {"res", "out"}) /\ s.out = [r.out EXCEPT ![w] = None]
          /\ s.res = [freed.res EXCEPT ![w] = @ \ {"dislodged"}]
      BY <1>10, <2>1 DEF But, ResFields
    <2>4. s.combat = r.combat /\ But(s, r, {"res", "out", "combat", "sound"})
      BY <2>3 DEF But, ResFields
    <2>5. Freed(s, r, w)
      <3>1. DOMAIN s.res = DOMAIN r.res /\ s.res[w] = {} /\ \A v \in DOMAIN r.res : v # w => s.res[v] = r.res[v]
        <4>1. DOMAIN s.res = DOMAIN r.res /\ \A v \in DOMAIN r.res : v # w => s.res[v] = r.res[v]
          BY <1>10, <2>3
        <4>2. s.res[w] = (r.res[w] \ {"bounce"}) \ {"dislodged"}
          BY <1>8, <1>10, <2>3
        <4>3. s.res[w] = {}
          BY <1>8, <4>2
        <4>. QED  BY <4>1, <4>3
      <3>2. DOMAIN s.out = DOMAIN r.out /\ s.out[w] = None /\ \A v \in DOMAIN r.out : v # w => s.out[v] = r.out[v]
        BY <1>8, <2>3
      <3>. QED  BY <2>4, <3>1, <3>2 DEF Freed
    <2>6. Going(s, units, places, done)
      BY ONLY Fielded(units), <1>1, <1>4, <1>5, <1>6, <1>8, <1>9, <2>5, FreedGoing
    <2>7. DOMAIN y = {"r", "site"} /\ y.r = s /\ y.site = None
      BY <2>2
    <2>. QED  BY <2>6, <2>7 DEF ChainOk
  <1>13. CASE r.out[w] = None
    <2>1. PICK next : next \in {None, home} /\ y = [r |-> vacated, site |-> next]
      BY <1>1, <1>3, <1>5, <1>9, <1>13 DEF UnbounceAt
    <2>2. DOMAIN freed = ResFields
      BY <1>10 DEF But
    <2>3. But(vacated, freed, {"combat", "sound"})
      BY ONLY <1>9, <2>2, NoEffectFields
    <2>4. Gone(vacated, freed, w, home)
      BY ONLY <1>9, <2>2, NoEffectFields
    <2>6. /\ freed.combat = r.combat /\ vacated.res = freed.res /\ vacated.out = r.out
          /\ But(vacated, r, {"res", "out", "combat", "sound"})
      BY <1>10, <2>3 DEF But, ResFields
    <2>7. Freed(vacated, r, w)
      <3>1. DOMAIN vacated.res = DOMAIN r.res /\ \A v \in DOMAIN r.res : v # w => vacated.res[v] = r.res[v]
        BY <1>10, <2>6
      <3>2. vacated.res[w] = r.res[w] \ {"bounce"}
        BY <1>8, <1>10, <2>6
      <3>3. vacated.res[w] = {}
        BY <1>8, <1>13, <3>2
      <3>4. vacated.combat \subseteq r.combat /\ \A f \in r.combat \ vacated.combat : f.unit = w /\ f.at = Short[w.loc]
        BY <1>9, <2>4, <2>6 DEF Gone
      <3>. QED  BY <1>13, <2>6, <3>1, <3>3, <3>4 DEF Freed
    <2>8. Going(vacated, units, places, done)
      BY ONLY Fielded(units), <1>1, <1>4, <1>5, <1>6, <1>8, <1>9, <2>7, FreedGoing
    <2>9. Attacks(vacated, w)
      <3>1. r.cmd[w].k = "-" /\ vacated.cmd = r.cmd
        BY <1>1, <1>7, <1>8, <2>6 DEF Going, Notified, But, ResFields
      <3>. QED  BY <2>7, <3>1 DEF Freed, Attacks
    <2>10. DOMAIN y = {"r", "site"} /\ y.r = vacated /\ y.site = next
      BY <2>1
    <2>. QED  BY <1>7, <1>9, <2>1, <2>8, <2>9, <2>10 DEF ChainOk
  <1>. QED  BY <1>12, <1>13

LEMMA UnbounceGoing ==
    ASSUME NEW units, Fielded(units), NEW places, NEW done, NEW r, Going(r, units, places, done),
           NEW a \in ToSet(units), Attacks(r, a), NEW y, y = Unbounce(r, Short[a.loc])
    PROVE  Going(y, units, places, done)
  <1>1. Len(units) \in Nat /\ DOMAIN units = 1..Len(units) /\ r.units = units
    BY DEF Fielded, Going, Drawn
  <1>2. PICK x, z : x = [r |-> r, site |-> Short[a.loc]] /\ z = FoldLeft(UnbounceAt, x, units) /\ y = z.r
    BY <1>1 DEF Unbounce
  <1>3. PICK f : Runs(f, "UnbounceAt", <<>>, x, units, Len(units)) /\ z = f[Len(units)]
    BY ONLY <1>1, <1>2, FoldUnbounceAt
  <1>. DEFINE S == {n \in 0..Len(units) : ChainOk(f[n], units, places, done)}
  <1>4. f[0] = x /\ \A n \in 1..Len(units) : f[n] = UnbounceAt(f[n - 1], units[n])
    BY <1>3 DEF Runs, Does
  <1>5. \A n \in 0..Len(units) : n \in S <=> ChainOk(f[n], units, places, done)
    OBVIOUS
  <1>. HIDE DEF S
  <1>6. ChainOk(x, units, places, done)
    BY <1>2 DEF ChainOk
  <1>7. 0 \in S
    BY <1>1, <1>4, <1>5, <1>6
  <1>8. ASSUME NEW n \in 1..Len(units), n - 1 \in S PROVE n \in S
    <2>1. n - 1 \in 0..Len(units) /\ n \in 0..Len(units)
      BY <1>1
    <2>2. ChainOk(f[n - 1], units, places, done)
      BY <1>5, <1>8, <2>1
    <2>3. PICK p, q, v : p = f[n - 1] /\ q = f[n] /\ v = units[n] /\ q = UnbounceAt(p, v)
      BY <1>4
    <2>4. ChainOk(q, units, places, done)
      BY <2>2, <2>3, UnbounceAtChain
    <2>. QED  BY <1>5, <2>1, <2>3, <2>4
  <1>9. \A n \in 0..Len(units) : n \in S
    BY ONLY <1>1, <1>7, <1>8, AlongLemma
  <1>10. ChainOk(z, units, places, done)
    BY <1>1, <1>3, <1>5, <1>9
  <1>. QED  BY <1>2, <1>10 DEF ChainOk

\* The unit loser is dislodged by one that goes where it stands.
Ousts(y, r, loser, us) ==
    /\ But(y, r, {"res", "out", "combat", "sound"}) /\ DOMAIN y.res = DOMAIN r.res /\ DOMAIN y.out = DOMAIN r.out
    /\ y.out[loser] # None /\ \A v \in us : v # loser => y.out[v] = r.out[v]
    /\ "dislodged" \in y.res[loser]
    /\ \A v \in us : IF r.cmd[v].k # "-" THEN /\ "bounce" \in y.res[v] => "bounce" \in r.res[v]
                                              /\ "dislodged" \in r.res[v] => "dislodged" \in y.res[v]
                     ELSE IF v = loser THEN y.res[v] \subseteq r.res[v] \cup {"dislodged"} ELSE y.res[v] = r.res[v]
    /\ y.combat \subseteq r.combat /\ \A f \in r.combat \ y.combat : f.unit = loser

LEMMA OustsGoing ==
    ASSUME NEW units, Fielded(units), NEW places, NEW done, NEW r, Going(r, units, places, done),
           NEW u \in ToSet(units), Attacks(r, u), NEW loser \in ToSet(units), ~Attacks(r, loser),
           loser = Occupant(units, Short[r.cmd[u].to]), NEW y, Ousts(y, r, loser, ToSet(units))
    PROVE  Going(y, units, places, done \cup {u}) /\ Attacks(y, u)
  <1>. DEFINE us == ToSet(units)
  <1>1. /\ y.units = units /\ y.places = places /\ y.cmd = r.cmd /\ y.sup = r.sup /\ r.units = units /\ DOMAIN y = ResFields
    BY DEF Ousts, But, ResFields, Going, Drawn
  <1>2. us \subseteq DOMAIN y.res /\ us \subseteq DOMAIN y.out /\ us \subseteq DOMAIN r.res /\ us \subseteq DOMAIN r.out
    BY DEF Ousts, Going, Notified
  <1>3. \A v \in us : Attacks(y, v) <=> Attacks(r, v)
    <2>. SUFFICES ASSUME NEW v \in us, r.cmd[v].k = "-" PROVE y.res[v] = {} <=> r.res[v] = {}
      BY <1>1 DEF Attacks
    <2>1. CASE v = loser
      BY <2>1 DEF Ousts, Attacks
    <2>2. CASE v # loser
      BY <2>2 DEF Ousts
    <2>. QED  BY <2>1, <2>2
  <1>4. Notified(us, y.res, y.out, y.cmd)
    <2>. SUFFICES ASSUME NEW v \in us
                  PROVE  /\ y.out[v] # None => "dislodged" \in y.res[v]
                         /\ "bounce" \in y.res[v] => /\ r.cmd[v].k = "-" /\ y.res[v] \subseteq {"bounce", "dislodged"}
                                                     /\ "dislodged" \in y.res[v] => y.out[v] # None
      BY <1>1, <1>2 DEF Notified
    <2>0. /\ r.out[v] # None => "dislodged" \in r.res[v]
          /\ "bounce" \in r.res[v] => /\ r.cmd[v].k = "-" /\ r.res[v] \subseteq {"bounce", "dislodged"}
                                      /\ "dislodged" \in r.res[v] => r.out[v] # None
      BY DEF Going, Notified
    <2>1. CASE r.cmd[v].k # "-"
      BY <2>0, <2>1 DEF Ousts
    <2>2. CASE r.cmd[v].k = "-" /\ v = loser
      <3>1. y.res[v] \subseteq r.res[v] \cup {"dislodged"} /\ "dislodged" \in y.res[v] /\ y.out[v] # None
        BY <2>2 DEF Ousts
      <3>. QED  BY <2>0, <2>2, <3>1
    <2>3. CASE r.cmd[v].k = "-" /\ v # loser
      <3>1. y.res[v] = r.res[v] /\ y.out[v] = r.out[v]
        BY <2>3 DEF Ousts
      <3>. QED  BY <2>0, <2>3, <3>1
    <2>. QED  BY <2>1, <2>2, <2>3
  <1>5. EntriesOk(us, r.combat, r.cmd) /\ y.combat \subseteq r.combat
    BY DEF Going, Ousts
  <1>6. EntriesOk(us, y.combat, y.cmd)
    <2>1. IsFiniteSet(y.combat)
      BY <1>5, FS_Subset DEF EntriesOk
    <2>. QED  BY <1>1, <1>5, <2>1 DEF EntriesOk
  <1>7. ASSUME NEW v \in us, Attacks(y, v)
        PROVE  \E f \in y.combat : Strongest(y, Short[y.cmd[v].to]) = {f} /\ f.unit = v
    <2>1. PICK f \in r.combat : Strongest(r, Short[r.cmd[v].to]) = {f} /\ f.unit = v
      BY <1>3, <1>7 DEF Going, Calm
    <2>2. v # loser
      BY <1>3, <1>7
    <2>3. f \in y.combat
      BY <2>1, <2>2 DEF Ousts
    <2>4. PICK p : p = Short[r.cmd[v].to]
      OBVIOUS
    <2>5. Strongest(y, p) = {f}
      BY <1>5, <2>1, <2>3, <2>4, StrongestKept
    <2>. QED  BY <1>1, <2>1, <2>3, <2>4, <2>5
  <1>8. Calm(y, units)
    BY <1>7 DEF Calm
  <1>9. ASSUME NEW v \in us \cap (done \cup {u}), Attacks(y, v) PROVE WayClear(y, v)
    <2>1. PICK o : o = Occupant(units, Short[r.cmd[v].to])
      OBVIOUS
    <2>2. o = NoUnit \/ o \in us
      BY <2>1, OccupantLemma
    <2>3. y.out[loser] # None
      BY DEF Ousts
    <2>4. CASE v = u
      <3>1. o = loser
        BY <2>1, <2>4
      <3>. QED  BY <1>1, <2>1, <2>3, <3>1 DEF WayClear
    <2>5. CASE v # u
      <3>1. o = NoUnit \/ Attacks(r, o) \/ r.out[o] # None
        BY <1>1, <1>3, <1>9, <2>1, <2>5 DEF Going, WayClear
      <3>2. \A q \in us : r.out[q] # None => y.out[q] # None
        BY <2>3 DEF Ousts
      <3>3. o = NoUnit \/ Attacks(y, o) \/ y.out[o] # None
        BY <1>3, <2>2, <3>1, <3>2
      <3>. QED  BY <1>1, <2>1, <3>3 DEF WayClear
    <2>. QED  BY <2>4, <2>5
  <1>10. Drawn(y, units, places) /\ CmdOk(us, y.cmd) /\ SupOk(us, y.sup, y.cmd)
    BY <1>1 DEF Going, Drawn
  <1>11. Going(y, units, places, done \cup {u})
    BY <1>4, <1>6, <1>8, <1>9, <1>10 DEF Going
  <1>. QED  BY <1>3, <1>11

\* What Beat does is that.
LEMMA BeatLemma ==
    ASSUME NEW units, Fielded(units), NEW places, NEW done, NEW r, Going(r, units, places, done),
           NEW u \in ToSet(units), Attacks(r, u), NEW loser \in ToSet(units), NEW y, y = Beat(r, u, loser)
    PROVE  Ousts(y, r, loser, ToSet(units))
  <1>. DEFINE us == ToSet(units)
  <1>1. DOMAIN r = ResFields /\ us \subseteq DOMAIN r.res /\ us \subseteq DOMAIN r.out
    BY DEF Going, Drawn, Notified
  <1>2. PICK site, yes, tag, own : site = Short[u.loc] /\ yes = TRUE /\ tag = "void" /\ own = r.sup[u].own
    OBVIOUS
  <1>3. site # None
    BY <1>2, MapAssumption DEF Fielded
  <1>4. PICK r1 : r1 = [r EXCEPT !.res[loser] = (@ \ {"disrupted"}) \cup {"dislodged"}, !.out[loser] = site]
    OBVIOUS
  <1>5. PICK r2 : /\ r2 = r1 \/ r2 = NoEffect(r1, loser, site, yes)
                  /\ y = Tag(r2, own, tag)
    BY <1>2, <1>4 DEF Beat
  <1>6. /\ But(r1, r, {"res", "out"}) /\ r1.out = [r.out EXCEPT ![loser] = site]
        /\ r1.res = [r.res EXCEPT ![loser] = (@ \ {"disrupted"}) \cup {"dislodged"}]
    BY <1>1, <1>4 DEF But, ResFields
  <1>7. /\ But(r2, r, {"res", "out", "combat", "sound"}) /\ r2.res = r1.res /\ r2.out = r1.out
        /\ r2.combat \subseteq r.combat /\ \A f \in r.combat \ r2.combat : f.unit = loser
    <2>1. CASE r2 = NoEffect(r1, loser, site, yes)
      <3>1. DOMAIN r1 = ResFields
        BY <1>6 DEF But
      <3>2. But(r2, r1, {"combat", "sound"}) /\ Gone(r2, r1, loser, site)
        BY ONLY <2>1, <3>1, NoEffectFields
      <3>. QED  BY <1>6, <3>2 DEF But, ResFields, Gone
    <2>2. CASE r2 = r1
      BY <1>6, <2>2 DEF But, ResFields
    <2>. QED  BY <1>5, <2>1, <2>2
  <1>8. DOMAIN r2 = ResFields
    BY <1>7 DEF But
  <1>9. \A v \in own : r.cmd[v].k # "-"
    BY <1>2 DEF Going, SupOk
  <1>10. But(y, r2, {"res"}) /\ DOMAIN y.res = DOMAIN r2.res
    BY ONLY <1>5, <1>8, TagFields
  <1>11. \A v \in DOMAIN r2.res : v \in own => y.res[v] = r2.res[v] \cup {tag}
    BY ONLY <1>5, <1>8, TagFields
  <1>12. \A v \in DOMAIN r2.res : v \notin own => y.res[v] = r2.res[v]
    BY ONLY <1>5, <1>8, TagFields
  <1>13. But(y, r, {"res", "out", "combat", "sound"}) /\ y.out = r1.out /\ y.combat = r2.combat
    BY <1>7, <1>10 DEF But, ResFields
  <1>14. /\ DOMAIN r1.out = DOMAIN r.out /\ r1.out[loser] # None
         /\ \A v \in us : v # loser => r1.out[v] = r.out[v]
    BY <1>1, <1>3, <1>6
  <1>15. /\ DOMAIN r2.res = DOMAIN r.res /\ r2.res[loser] = (r.res[loser] \ {"disrupted"}) \cup {"dislodged"}
         /\ \A v \in us : v # loser => r2.res[v] = r.res[v]
    BY <1>1, <1>6, <1>7
  <1>16. "dislodged" \in y.res[loser]
    BY <1>1, <1>11, <1>12, <1>15
  <1>17. ASSUME NEW v \in us
         PROVE  IF r.cmd[v].k # "-" THEN /\ "bounce" \in y.res[v] => "bounce" \in r.res[v]
                                         /\ "dislodged" \in r.res[v] => "dislodged" \in y.res[v]
                ELSE IF v = loser THEN y.res[v] \subseteq r.res[v] \cup {"dislodged"} ELSE y.res[v] = r.res[v]
    <2>1. v \in DOMAIN r2.res
      BY <1>1, <1>15
    <2>2. CASE v \in own
      <3>1. r.cmd[v].k # "-" /\ y.res[v] = r2.res[v] \cup {"void"}
        BY <1>2, <1>9, <1>11, <2>1, <2>2
      <3>. QED  BY <1>15, <3>1
    <2>3. CASE v \notin own
      <3>1. y.res[v] = r2.res[v]
        BY <1>12, <2>1, <2>3
      <3>. QED  BY <1>15, <3>1
    <2>. QED  BY <2>2, <2>3
  <1>. QED  BY <1>7, <1>10, <1>13, <1>14, <1>15, <1>16, <1>17 DEF Ousts

LEMMA DislodgeGoing ==
    ASSUME NEW units, Fielded(units), NEW places, NEW done, NEW r, Going(r, units, places, done),
           NEW u \in ToSet(units), NEW y, y = Dislodge(r, u)
    PROVE  Going(y, units, places, done \cup {u})
  <1>. DEFINE us == ToSet(units)
  <1>1. r.units = units /\ DOMAIN r = ResFields /\ us \subseteq DOMAIN r.res /\ us \subseteq DOMAIN r.out
    BY DEF Going, Drawn, Notified
  <1>2. PICK site, loser : site = Short[u.loc] /\ loser = Occupant(units, Short[r.cmd[u].to])
    OBVIOUS
  <1>3. loser = NoUnit \/ loser \in us
    BY <1>2, OccupantLemma
  <1>4. site # None
    BY <1>2, MapAssumption DEF Fielded
  <1>5. CASE ~Attacks(r, u)
    <2>1. y = r
      BY <1>5 DEF Dislodge
    <2>. QED  BY <1>5, <2>1 DEF Going
  <1>6. CASE Attacks(r, u)
    <2>1. PICK r3 : /\ Going(r3, units, places, done \cup {u}) /\ Attacks(r3, u)
                    /\ y = r3 \/ y = Unbounce(r3, site)
      <3>1. CASE loser = NoUnit \/ Attacks(r, loser)
        <4>1. y = r \/ y = Unbounce(r, site)
          BY <1>1, <1>2, <1>6, <3>1 DEF Dislodge
        <4>2. WayClear(r, u)
          BY <1>1, <1>2, <3>1 DEF WayClear
        <4>3. Going(r, units, places, done \cup {u})
          BY <4>2 DEF Going
        <4>. QED  BY <1>6, <4>1, <4>3
      <3>2. CASE loser # NoUnit /\ ~Attacks(r, loser)
        <4>0. loser \in us
          BY <1>3, <3>2
        <4>1. PICK b : b = Beat(r, u, loser) /\ (y = b \/ y = Unbounce(b, site))
          BY <1>1, <1>2, <1>6, <3>2 DEF Dislodge
        <4>2. Ousts(b, r, loser, us)
          BY <1>6, <4>0, <4>1, BeatLemma
        <4>3. Going(b, units, places, done \cup {u}) /\ Attacks(b, u)
          BY ONLY Fielded(units), Going(r, units, places, done), u \in us, <1>2, <1>6, <3>2, <4>0, <4>2, OustsGoing
        <4>. QED  BY <4>1, <4>3
      <3>. QED  BY <3>1, <3>2
    <2>2. CASE y = r3
      BY <2>1, <2>2
    <2>3. CASE y = Unbounce(r3, site)
      <3>1. PICK d : d = done \cup {u}
        OBVIOUS
      <3>2. Going(y, units, places, d)
        BY <1>2, <2>1, <2>3, <3>1, UnbounceGoing
      <3>. QED  BY <3>1, <3>2
    <2>. QED  BY <2>1, <2>2, <2>3
  <1>. QED  BY <1>5, <1>6

\* The battles over, no unit is dislodged yet and none has gone.
LEMMA CalmGoing ==
    ASSUME NEW units, NEW places, NEW r, Fight(r, units, places), Calm(r, units)
    PROVE  Going(r, units, places, {})
  <1>1. Notified(ToSet(units), r.res, r.out, r.cmd)
    BY DEF Fight, Bounced, NoneOut, Notified
  <1>. QED  BY <1>1 DEF Fight, Going

LEMMA DislodgementsGoing ==
    ASSUME NEW units, Fielded(units), NEW places, NEW r, Going(r, units, places, {}), NEW y, y = Dislodgements(r)
    PROVE  Going(y, units, places, ToSet(units))
  <1>1. Len(units) \in Nat /\ DOMAIN units = 1..Len(units) /\ r.units = units
    BY DEF Fielded, Going, Drawn
  <1>2. y = FoldLeft(Dislodge, r, units)
    BY <1>1 DEF Dislodgements
  <1>3. PICK f : Runs(f, "Dislodge", <<>>, r, units, Len(units)) /\ y = f[Len(units)]
    BY ONLY <1>1, <1>2, FoldDislodge
  <1>. DEFINE done(n) == {units[i] : i \in 1..n}
              S == {n \in 0..Len(units) : Going(f[n], units, places, done(n))}
  <1>4. f[0] = r /\ \A n \in 1..Len(units) : f[n] = Dislodge(f[n - 1], units[n])
    BY <1>3 DEF Runs, Does
  <1>5. \A n \in 0..Len(units) : n \in S <=> Going(f[n], units, places, done(n))
    OBVIOUS
  <1>. HIDE DEF S
  <1>6. 0 \in S
    <2>1. done(0) = {} /\ 0 \in 0..Len(units)
      BY <1>1
    <2>. HIDE DEF done
    <2>. QED  BY <1>4, <1>5, <2>1
  <1>7. ASSUME NEW n \in 1..Len(units), n - 1 \in S PROVE n \in S
    <2>1. n - 1 \in 0..Len(units) /\ n \in 0..Len(units) /\ n \in Nat
      BY <1>1
    <2>2. PICK p, q, v, d : p = f[n - 1] /\ q = f[n] /\ v = units[n] /\ q = Dislodge(p, v) /\ d = done(n - 1)
      BY <1>4
    <2>3. Going(p, units, places, d)
      BY <1>5, <1>7, <2>1, <2>2
    <2>4. v \in ToSet(units)
      BY <1>1, <2>2 DEF ToSet
    <2>5. Going(q, units, places, d \cup {v})
      BY ONLY Fielded(units), <2>2, <2>3, <2>4, DislodgeGoing
    <2>6. done(n) = d \cup {v}
      <3>1. 1..n = (1..(n - 1)) \cup {n}
        BY <2>1
      <3>. QED  BY <2>2, <3>1
    <2>. QED  BY <1>5, <2>1, <2>2, <2>5, <2>6
  <1>8. \A n \in 0..Len(units) : n \in S
    BY ONLY <1>1, <1>6, <1>7, AlongLemma
  <1>9. done(Len(units)) = ToSet(units)
    BY <1>1 DEF ToSet
  <1>10. Len(units) \in 0..Len(units)
    BY <1>1
  <1>. HIDE DEF done
  <1>. QED  BY <1>3, <1>5, <1>8, <1>9, <1>10

LEMMA GoingSettled ==
    ASSUME NEW units, Fielded(units), NEW places, NEW r, Going(r, units, places, ToSet(units))
    PROVE  Settled(r, ToSet(units))
  <1>. DEFINE us == ToSet(units)
  <1>1. DOMAIN r.cmd = us /\ \A u \in us : CanGo(u, r.cmd[u])
    BY DEF Going, CmdOk
  <1>2. r.units = units
    BY DEF Going, Drawn
  <1>3. ASSUME NEW u \in us, Attacks(r, u), NEW v \in us \ {u}, r.out[v] = None, Short[r.cmd[u].to] = Short[Goes(r, v)]
        PROVE  FALSE
    <2>1. PICK p : p = Short[r.cmd[u].to]
      OBVIOUS
    <2>2. CASE Attacks(r, v)
      <3>1. Short[r.cmd[v].to] = p
        BY <1>3, <2>1, <2>2 DEF Goes
      <3>2. PICK e : Strongest(r, p) = {e} /\ e.unit = u
        BY <1>3, <2>1 DEF Going, Calm
      <3>3. PICK g : Strongest(r, p) = {g} /\ g.unit = v
        BY <2>2, <3>1 DEF Going, Calm
      <3>. QED  BY <3>2, <3>3
    <2>3. CASE ~Attacks(r, v)
      <3>1. p = Short[v.loc]
        BY <1>3, <2>1, <2>3 DEF Goes
      <3>2. Occupant(units, p) = v
        BY <3>1, OccupantAtHome
      <3>3. v # NoUnit
        BY OccupantLemma
      <3>. QED  BY <1>2, <1>3, <2>1, <2>3, <3>2, <3>3 DEF Going, WayClear
    <2>. QED  BY <2>2, <2>3
  <1>4. ASSUME NEW u \in us, Attacks(r, u) PROVE r.out[u] = None
    BY <1>4 DEF Going, Notified, Attacks
  <1>5. ASSUME NEW u \in us, Attacks(r, u) PROVE r.cmd[u].to \in Locs /\ ValidUnit(u.type, r.cmd[u].to, FALSE) /\ Goes(r, u) = r.cmd[u].to
    BY <1>1, <1>5 DEF CanGo, Attacks, Goes
  <1>. QED  BY <1>1, <1>3, <1>4, <1>5 DEF Settled

\* The resolution starts with no result.
LEMMA StartPrimed ==
    ASSUME NEW units, Fielded(units), NEW places, NEW orders,
           \A u \in ToSet(units) \cap DOMAIN orders : CanGo(u, orders[u]), NEW y, y = Start(units, orders, places)
    PROVE  Primed(y, units, places)
  <1>. DEFINE us == ToSet(units)
  <1>1. /\ DOMAIN y = ResFields /\ y.units = units /\ y.places = places
        /\ y.cmd = [u \in us |-> IF u \in DOMAIN orders THEN orders[u] ELSE Hold]
        /\ y.res = [u \in us |-> {}] /\ y.sup = [u \in us |-> [n |-> 0, own |-> {}]] /\ y.out = [u \in us |-> None]
    BY DEF Start, ResFields
  <1>2. \A u \in us : CanGo(u, Hold)
    BY DEF CanGo, Hold, Order, OrderFields
  <1>3. CmdOk(us, y.cmd)
    BY <1>1, <1>2 DEF CmdOk
  <1>4. SupOk(us, y.sup, y.cmd) /\ Untold(us, y.res) /\ NoneOut(us, y.out)
    BY <1>1 DEF SupOk, Untold, NoneOut
  <1>. QED  BY <1>1, <1>3, <1>4 DEF Primed, Drawn

\* The resolution settles the moves, whatever the units of the board and their orders.
THEOREM ResolutionSettles ==
    ASSUME NEW units, Fielded(units), NEW places, Covers(places), NEW orders,
           \A u \in ToSet(units) \cap DOMAIN orders : CanGo(u, orders[u])
    PROVE  Settled(Resolve(units, orders, places), ToSet(units))
  <1>1. PICK r0, r1, r2, r3, r4, r5 :
           /\ r0 = Start(units, orders, places) /\ r1 = Convoys(r0) /\ r2 = Supports(r1) /\ r3 = Disruptions(r2)
           /\ r4 = Battles(r3) /\ r5 = Dislodgements(r4)
    OBVIOUS
  <1>2. Resolve(units, orders, places) = r5
    <2>1. {Convoys(x) : x \in {r0}} = {r1} /\ {Supports(x) : x \in {r1}} = {r2} /\ {Disruptions(x) : x \in {r2}} = {r3}
      BY <1>1
    <2>2. {Battles(x) : x \in {r3}} = {r4} /\ {Dislodgements(x) : x \in {r4}} = {r5}
      BY <1>1
    <2>3. \A a : (CHOOSE y \in {a} : TRUE) = a
      OBVIOUS
    <2>. QED  BY <1>1, <2>1, <2>2, <2>3 DEF Resolve, Then
  <1>3. Primed(r0, units, places)
    BY <1>1, StartPrimed
  <1>4. Primed(r1, units, places)
    BY <1>1, <1>3, ConvoysPrimed
  <1>5. Primed(r2, units, places)
    BY <1>1, <1>4, SupportsPrimed
  <1>6. Fight(r3, units, places)
    <2>1. PICK x : Primed(x, units, places) /\ r3 = Strengths(x)
      BY <1>1, <1>5, DisruptionsPrimed
    <2>. QED  BY <2>1, StrengthsFight
  <1>7. Fight(r4, units, places) /\ Calm(r4, units)
    BY <1>1, <1>6, BattlesCalm
  <1>8. Going(r4, units, places, {})
    BY <1>7, CalmGoing
  <1>9. Going(r5, units, places, ToSet(units))
    BY <1>1, <1>8, DislodgementsGoing
  <1>10. Settled(r5, ToSet(units))
    BY <1>9, GoingSettled
  <1>. QED  BY <1>2, <1>10
=============================================================================
