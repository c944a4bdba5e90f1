---------------------------- MODULE SlicesProofs ----------------------------
(***************************************************************************)
(* Facts about sequences and about Only.  Only is computed by recursion:   *)
(* what it yields is shown by induction on the turns of its loop, which    *)
(* rests on a set of numbers having a least element (WFMin).               *)
(***************************************************************************)
EXTENDS Slices, TLAPS, WellFoundedInduction, FiniteSetTheorems

-----------------------------------------------------------------------------
(***************************************************************************)
(* Induction and iteration                                                 *)
(***************************************************************************)

\* The least element of a set of numbers.
LEMMA Least == ASSUME NEW T, T \subseteq Nat, T # {} PROVE \E x \in T : \A y \in T : x <= y
<1>1. IsWellFoundedOn(OpToRel(<,Nat), Nat) BY NatLessThanWellFounded
<1>2. \E x \in T : \A y \in T : ~(<<y, x>> \in OpToRel(<,Nat)) BY <1>1, WFMin
<1>3. PICK x \in T : \A y \in T : ~(<<y, x>> \in OpToRel(<,Nat)) BY <1>2
<1>4. \A y \in T : ~(y < x) BY <1>3 DEF OpToRel
<1> QED BY <1>4

\* Induction: a set with zero and every successor holds every number.
LEMMA Induct == ASSUME NEW T, 0 \in T, \A n \in Nat : n \in T => n + 1 \in T PROVE \A n \in Nat : n \in T
<1> SUFFICES ASSUME NEW m \in Nat, m \notin T PROVE FALSE OBVIOUS
<1> DEFINE U == {n \in Nat : n \notin T}
<1>1. PICK x \in U : \A y \in U : x <= y BY Least
<1>2. x # 0 OBVIOUS
<1>3. x - 1 \in Nat /\ x - 1 \notin U BY <1>1, <1>2
<1>4. x - 1 \in T BY <1>3
<1>5. (x - 1) + 1 \in T BY <1>3, <1>4
<1> QED BY <1>5

\* A loop of n turns from base, as the function of its states.
Good(f, S, n, base, step) == f \in [0..n -> S] /\ f[0] = base /\ \A i \in 1..n : f[i] = step[<<i, f[i - 1]>>]
Stepping(S, n, base, step) == n \in Nat /\ base \in S /\ step \in [(1..n) \X S -> S]

\* A loop whose turns stay in S has such a function.
LEMMA Iterate == ASSUME NEW S, NEW n, NEW base, NEW step, Stepping(S, n, base, step)
   PROVE \E f : Good(f, S, n, base, step)
<1> USE DEF Good, Stepping
<1> DEFINE T == {m \in Nat : m <= n => \E f : Good(f, S, m, base, step)}
<1>1. 0 \in T
  <2>1. Good([i \in 0..0 |-> base], S, 0, base, step) OBVIOUS
  <2> QED BY <2>1
<1>2. ASSUME NEW m \in Nat, m \in T PROVE m + 1 \in T
  <2> SUFFICES ASSUME m + 1 <= n PROVE \E f : Good(f, S, m + 1, base, step) OBVIOUS
  <2>1. PICK f : Good(f, S, m, base, step) BY <1>2
  <2> DEFINE g == [i \in 0..(m + 1) |-> IF i = m + 1 THEN step[<<m + 1, f[m]>>] ELSE f[i]]
  <2>2. f[m] \in S BY <2>1
  <2>3. step[<<m + 1, f[m]>>] \in S BY <2>2
  <2>4. g \in [0..(m + 1) -> S] BY <2>1, <2>3
  <2>5. g[0] = base BY <2>1
  <2>6. ASSUME NEW i \in 1..(m + 1) PROVE g[i] = step[<<i, g[i - 1]>>]
    <3>1. CASE i = m + 1
      <4>1. i - 1 = m /\ m \in 0..(m + 1) /\ m # m + 1 BY <3>1
      <4>2. g[m] = f[m] BY <4>1
      <4>3. g[m + 1] = step[<<m + 1, f[m]>>] OBVIOUS
      <4> HIDE DEF g
      <4> QED BY <3>1, <4>1, <4>2, <4>3
    <3>2. CASE i # m + 1 BY <2>1, <3>2
    <3> QED BY <3>1, <3>2
  <2> HIDE DEF g
  <2> QED BY <2>4, <2>5, <2>6
<1> HIDE DEF T
<1>3. \A m \in Nat : m \in T BY <1>1, <1>2, Induct
<1> QED BY <1>3 DEF T


-----------------------------------------------------------------------------
(***************************************************************************)
(* Only                                                                    *)
(***************************************************************************)

\* One turn of Only.
Turn(q, kept, i, s) == IF q[i] \in kept THEN Append(s, q[i]) ELSE s
Turns(q, kept, f) == [n \in 0..Len(q) |-> IF n = 0 THEN <<>>
                        ELSE IF q[n] \in kept THEN Append(f[n - 1], q[n]) ELSE f[n - 1]]
Run(q, kept, f) == f[0] = <<>> /\ \A i \in 1..Len(q) : f[i] = Turn(q, kept, i, f[i - 1])

\* A turn yields a sequence.
LEMMA TurnType == ASSUME NEW S, NEW q \in Seq(S), NEW kept, NEW i \in 1..Len(q), NEW s \in Seq(S)
  PROVE Turn(q, kept, i, s) \in Seq(S)
  BY DEF Turn

\* The loop has a run ...
LEMMA SomeRun == ASSUME NEW S, NEW q \in Seq(S), NEW kept
  PROVE \E f : f \in [0..Len(q) -> Seq(S)] /\ Run(q, kept, f)
<1> DEFINE D == Seq(S)
           N == Len(q)
           step == [x \in (1..N) \X D |-> Turn(q, kept, x[1], x[2])]
<1>1. step \in [(1..N) \X D -> D] BY TurnType
<1>2. <<>> \in D /\ N \in Nat OBVIOUS
<1>3. Stepping(D, N, <<>>, step)
  <2> HIDE DEF D, N, step
  <2> QED BY <1>1, <1>2 DEF Stepping
<1>4. PICK f : Good(f, D, N, <<>>, step)
  <2> HIDE DEF D, N, step
  <2> QED BY <1>3, Iterate
<1>5. f \in [0..N -> D] /\ f[0] = <<>> BY <1>4 DEF Good
<1>6. ASSUME NEW i \in 1..N PROVE f[i] = Turn(q, kept, i, f[i - 1])
  <2>1. i - 1 \in 0..N BY <1>2
  <2>2. f[i - 1] \in D BY <1>5, <2>1
  <2>3. f[i] = step[<<i, f[i - 1]>>] BY <1>4 DEF Good
  <2>4. \A s \in D : step[<<i, s>>] = Turn(q, kept, i, s)
    <3> HIDE DEF D, N
    <3> QED OBVIOUS
  <2> HIDE DEF D, N, step
  <2> QED BY <2>2, <2>3, <2>4
<1> QED BY <1>5, <1>6 DEF Run

\* ... which solves the equation of the recursion ...
LEMMA RunTurns == ASSUME NEW S, NEW q \in Seq(S), NEW kept, NEW f, f \in [0..Len(q) -> Seq(S)], Run(q, kept, f)
  PROVE f = Turns(q, kept, f)
<1>1. Len(q) \in Nat OBVIOUS
<1>2. ASSUME NEW n \in 0..Len(q) PROVE f[n] = Turns(q, kept, f)[n]
  <2>1. CASE n = 0 BY <2>1 DEF Run, Turns
  <2>2. CASE n # 0
     <3>1. n \in 1..Len(q) BY <1>1, <2>2
     <3> QED BY <3>1, <2>2 DEF Run, Turns, Turn
  <2> QED BY <2>1, <2>2
<1>3. DOMAIN Turns(q, kept, f) = 0..Len(q) BY DEF Turns
<1>4. Turns(q, kept, f) = [n \in 0..Len(q) |-> Turns(q, kept, f)[n]] BY DEF Turns
<1> QED BY <1>2, <1>3, <1>4

\* ... and Only is where a run ends.
LEMMA OnlyRuns == ASSUME NEW S, NEW q \in Seq(S), NEW kept
  PROVE \E f : f \in [0..Len(q) -> Seq(S)] /\ Run(q, kept, f) /\ Only(q, kept) = f[Len(q)]
<1> DEFINE g == CHOOSE h : h = Turns(q, kept, h)
<1>1. Only(q, kept) = g[Len(q)] BY DEF Only, Turns
<1>2. \E f : f = Turns(q, kept, f)
  <2>1. PICK f : f \in [0..Len(q) -> Seq(S)] /\ Run(q, kept, f) BY SomeRun
  <2>2. f = Turns(q, kept, f) BY <2>1, RunTurns
  <2> QED BY <2>2
<1>3. g = Turns(q, kept, g) BY <1>2
<1> HIDE DEF g
<1>4. Len(q) \in Nat OBVIOUS
<1>5. g[0] = <<>> BY <1>3, <1>4 DEF Turns
<1>6. ASSUME NEW n \in 1..Len(q) PROVE g[n] = Turn(q, kept, n, g[n - 1])
  <2>1. n \in 0..Len(q) /\ n # 0 BY <1>4
  <2> QED BY <1>3, <2>1 DEF Turns, Turn
<1>7. \A n \in Nat : n \in {m \in Nat : m <= Len(q) => g[m] \in Seq(S)}
  <2> DEFINE T == {m \in Nat : m <= Len(q) => g[m] \in Seq(S)}
  <2>1. 0 \in T
    <3>1. g[0] \in Seq(S) BY <1>5
    <3> QED BY <3>1
  <2>2. ASSUME NEW n \in Nat, n \in T PROVE n + 1 \in T
    <3> SUFFICES ASSUME n + 1 <= Len(q) PROVE g[n + 1] \in Seq(S) OBVIOUS
    <3>1. n + 1 \in 1..Len(q) /\ n <= Len(q) /\ (n + 1) - 1 = n BY <1>4
    <3>2. g[n] \in Seq(S) BY <2>2, <3>1
    <3>3. g[n + 1] = Turn(q, kept, n + 1, g[n]) BY <1>6, <3>1
    <3> QED BY <3>1, <3>2, <3>3, TurnType
  <2> HIDE DEF T
  <2>3. \A n \in Nat : n \in T BY <2>1, <2>2, Induct
  <2> QED BY <2>3 DEF T
<1>8. g \in [0..Len(q) -> Seq(S)]
  <2>1. \A n \in 0..Len(q) : g[n] \in Seq(S) BY <1>4, <1>7
  <2>2. g = [n \in 0..Len(q) |-> g[n]] BY <1>3 DEF Turns
  <2> QED BY <2>1, <2>2
<1> QED BY <1>1, <1>5, <1>6, <1>8 DEF Run
-----------------------------------------------------------------------------
(***************************************************************************)
(* Sequences                                                               *)
(***************************************************************************)

\* A sequence appended to holds the old elements and the new one.
LEMMA AppendSet ==
  ASSUME NEW S, NEW s \in Seq(S), NEW e \in S
  PROVE  ToSet(Append(s, e)) = ToSet(s) \cup {e}
<1> DEFINE t == Append(s, e)
<1>1. Len(t) = Len(s) + 1 /\ Len(s) \in Nat /\ t[Len(s) + 1] = e OBVIOUS
<1>2. \A i \in 1..Len(s) : t[i] = s[i] OBVIOUS
<1>3. DOMAIN t = 1..Len(s) + 1 /\ DOMAIN s = 1..Len(s) OBVIOUS
<1>4. 1..Len(s) + 1 = 1..Len(s) \cup {Len(s) + 1} BY <1>1
<1> HIDE DEF t
<1>5. ToSet(t) = ToSet(s) \cup {e} BY <1>1, <1>2, <1>3, <1>4 DEF ToSet
<1> QED BY <1>5 DEF t

\* An element that is new leaves an injective sequence injective.
LEMMA NewInjective ==
  ASSUME NEW S, NEW s \in Seq(S), NEW e \in S, IsInjective(s), e \notin ToSet(s)
  PROVE  IsInjective(Append(s, e))
<1> DEFINE t == Append(s, e)
<1>1. Len(s) \in Nat /\ t[Len(s) + 1] = e OBVIOUS
<1>2. \A i \in 1..Len(s) : t[i] = s[i] OBVIOUS
<1>3. DOMAIN t = 1..Len(s) + 1 /\ DOMAIN s = 1..Len(s) OBVIOUS
<1>4. 1..Len(s) + 1 = 1..Len(s) \cup {Len(s) + 1} BY <1>1
<1> HIDE DEF t
<1>5. IsInjective(t)
  <2> SUFFICES ASSUME NEW i \in DOMAIN t, NEW j \in DOMAIN t, t[i] = t[j] PROVE i = j
      BY DEF IsInjective
  <2>1. CASE i \in 1..Len(s) /\ j \in 1..Len(s) BY <2>1, <1>2, <1>3 DEF IsInjective
  <2>2. \A k \in 1..Len(s) : t[k] # e BY <1>2, <1>3 DEF ToSet
  <2> QED BY <2>1, <2>2, <1>1, <1>3, <1>4
<1> QED BY <1>5 DEF t

\* Two sequences, one after the other, hold the elements of both.
LEMMA ConcatSet ==
  ASSUME NEW S, NEW s \in Seq(S), NEW t \in Seq(S)
  PROVE  s \o t \in Seq(S) /\ ToSet(s \o t) = ToSet(s) \cup ToSet(t)
<1> DEFINE u == s \o t
<1>1. u \in Seq(S) OBVIOUS
<1>2. Len(u) = Len(s) + Len(t) /\ Len(s) \in Nat /\ Len(t) \in Nat OBVIOUS
<1>3. \A i \in 1..Len(s) : u[i] = s[i] OBVIOUS
<1>4. \A i \in 1..Len(t) : u[Len(s) + i] = t[i] OBVIOUS
<1>5. DOMAIN u = 1..Len(s) + Len(t) /\ DOMAIN s = 1..Len(s) /\ DOMAIN t = 1..Len(t) BY <1>2
<1> HIDE DEF u
<1>6. ToSet(u) \subseteq ToSet(s) \cup ToSet(t)
  <2> SUFFICES ASSUME NEW i \in 1..Len(s) + Len(t) PROVE u[i] \in ToSet(s) \cup ToSet(t)
      BY <1>5 DEF ToSet
  <2>1. CASE i <= Len(s) BY <1>2, <1>3, <1>5, <2>1 DEF ToSet
  <2>2. CASE i > Len(s)
    <3>1. i - Len(s) \in 1..Len(t) /\ Len(s) + (i - Len(s)) = i BY <1>2, <2>2
    <3> QED BY <3>1, <1>4, <1>5 DEF ToSet
  <2> QED BY <2>1, <2>2, <1>2
<1>7. ToSet(s) \subseteq ToSet(u)
  <2> SUFFICES ASSUME NEW i \in 1..Len(s) PROVE s[i] \in ToSet(u) BY <1>5 DEF ToSet
  <2>1. i \in 1..Len(s) + Len(t) BY <1>2
  <2> QED BY <2>1, <1>3, <1>5 DEF ToSet
<1>8. ToSet(t) \subseteq ToSet(u)
  <2> SUFFICES ASSUME NEW i \in 1..Len(t) PROVE t[i] \in ToSet(u) BY <1>5 DEF ToSet
  <2>1. Len(s) + i \in 1..Len(s) + Len(t) BY <1>2
  <2> QED BY <2>1, <1>4, <1>5 DEF ToSet
<1> QED BY <1>1, <1>6, <1>7, <1>8 DEF u

\* They repeat nothing exactly if neither does and they share nothing.
LEMMA ConcatInjective ==
  ASSUME NEW S, NEW s \in Seq(S), NEW t \in Seq(S)
  PROVE  IsInjective(s \o t) <=> IsInjective(s) /\ IsInjective(t) /\ ToSet(s) \cap ToSet(t) = {}
<1> DEFINE u == s \o t
<1>2. Len(u) = Len(s) + Len(t) /\ Len(s) \in Nat /\ Len(t) \in Nat OBVIOUS
<1>3. \A i \in 1..Len(s) : u[i] = s[i] OBVIOUS
<1>4. \A i \in 1..Len(t) : u[Len(s) + i] = t[i] OBVIOUS
<1>5. DOMAIN u = 1..Len(s) + Len(t) /\ DOMAIN s = 1..Len(s) /\ DOMAIN t = 1..Len(t) BY <1>2
<1> HIDE DEF u
<1>a. \A i \in 1..Len(s) : i \in 1..Len(s) + Len(t) BY <1>2
<1>b. \A i \in 1..Len(t) : Len(s) + i \in 1..Len(s) + Len(t) BY <1>2
<1>c. \A i \in 1..Len(s) + Len(t) : i \in 1..Len(s) \/ \E j \in 1..Len(t) : i = Len(s) + j
  <2> TAKE i \in 1..Len(s) + Len(t)
  <2>1. CASE i <= Len(s) BY <1>2, <2>1
  <2>2. CASE i > Len(s)
    <3>1. i - Len(s) \in 1..Len(t) /\ Len(s) + (i - Len(s)) = i BY <1>2, <2>2
    <3> QED BY <3>1
  <2> QED BY <2>1, <2>2, <1>2
<1>6. ASSUME IsInjective(u) PROVE IsInjective(s) BY <1>6, <1>3, <1>5, <1>a DEF IsInjective
<1>7. ASSUME IsInjective(u) PROVE IsInjective(t)
  <2> SUFFICES ASSUME NEW i \in 1..Len(t), NEW j \in 1..Len(t), t[i] = t[j] PROVE i = j
      BY <1>5 DEF IsInjective
  <2>1. u[Len(s) + i] = u[Len(s) + j] BY <1>4
  <2>2. Len(s) + i = Len(s) + j BY <2>1, <1>7, <1>5, <1>b DEF IsInjective
  <2> QED BY <2>2, <1>2
<1>8. ASSUME IsInjective(u) PROVE ToSet(s) \cap ToSet(t) = {}
  <2> SUFFICES ASSUME NEW i \in 1..Len(s), NEW j \in 1..Len(t), s[i] = t[j] PROVE FALSE
      BY <1>5 DEF ToSet
  <2>1. u[i] = u[Len(s) + j] BY <1>3, <1>4
  <2>2. i = Len(s) + j BY <2>1, <1>8, <1>5, <1>a, <1>b DEF IsInjective
  <2> QED BY <2>2, <1>2
<1>9. ASSUME IsInjective(s), IsInjective(t), ToSet(s) \cap ToSet(t) = {} PROVE IsInjective(u)
  <2> SUFFICES ASSUME NEW i \in 1..Len(s) + Len(t), NEW j \in 1..Len(s) + Len(t), u[i] = u[j] PROVE i = j
      BY <1>5 DEF IsInjective
  <2>1. CASE i \in 1..Len(s) /\ j \in 1..Len(s) BY <2>1, <1>3, <1>5, <1>9 DEF IsInjective
  <2>2. ASSUME NEW k \in 1..Len(t), i = Len(s) + k, NEW l \in 1..Len(t), j = Len(s) + l PROVE i = j
    <3>1. t[k] = t[l] BY <2>2, <1>4
    <3> QED BY <3>1, <2>2, <1>5, <1>9 DEF IsInjective
  <2>3. ASSUME NEW x \in 1..Len(s), NEW y \in 1..Len(t), u[x] = u[Len(s) + y] PROVE FALSE
    <3>1. s[x] = t[y] BY <2>3, <1>3, <1>4
    <3> QED BY <3>1, <1>9, <1>5 DEF ToSet
  <2> QED BY <2>1, <2>2, <2>3, <1>c
<1> QED BY <1>6, <1>7, <1>8, <1>9 DEF u
-----------------------------------------------------------------------------
(***************************************************************************)
(* What Only yields                                                        *)
(***************************************************************************)

\* What a run has put together after n turns: the elements so far that are
\* kept, none twice where q has none twice.
Piece(q, kept, n, s) ==
    /\ ToSet(s) = {q[i] : i \in 1..n} \cap kept
    /\ IsInjective(q) => IsInjective(s)

\* Every state of a run is such a piece.
LEMMA Pieces ==
  ASSUME NEW S, NEW q \in Seq(S), NEW kept, NEW f, f \in [0..Len(q) -> Seq(S)], Run(q, kept, f)
  PROVE  \A n \in 0..Len(q) : Piece(q, kept, n, f[n])
<1> DEFINE T == {m \in Nat : m <= Len(q) => Piece(q, kept, m, f[m])}
<1>0. Len(q) \in Nat /\ DOMAIN q = 1..Len(q) OBVIOUS
<1>1. 0 \in T
  <2>1. f[0] = <<>> BY DEF Run
  <2>2. {q[i] : i \in 1..0} = {} OBVIOUS
  <2>3. ToSet(<<>>) = {} /\ IsInjective(<<>>) BY DEF ToSet, IsInjective
  <2>4. Piece(q, kept, 0, f[0]) BY <2>1, <2>2, <2>3 DEF Piece
  <2> QED BY <2>4
<1>2. ASSUME NEW n \in Nat, n \in T PROVE n + 1 \in T
  <2> SUFFICES ASSUME n + 1 <= Len(q) PROVE Piece(q, kept, n + 1, f[n + 1]) OBVIOUS
  <2>1. n + 1 \in 1..Len(q) /\ n \in 0..Len(q) /\ n <= Len(q) /\ (n + 1) - 1 = n BY <1>0
  <2>2. Piece(q, kept, n, f[n]) BY <1>2, <2>1
  <2>3. f[n + 1] = Turn(q, kept, n + 1, f[n]) BY <2>1 DEF Run
  <2>4. f[n] \in Seq(S) /\ q[n + 1] \in S BY <2>1
  <2>5. {q[i] : i \in 1..n + 1} = {q[i] : i \in 1..n} \cup {q[n + 1]}
    <3>1. 1..n + 1 = 1..n \cup {n + 1} OBVIOUS
    <3> QED BY <3>1
  <2>6. CASE q[n + 1] \notin kept
    <3>1. f[n + 1] = f[n] BY <2>3, <2>6 DEF Turn
    <3> QED BY <3>1, <2>2, <2>5, <2>6 DEF Piece
  <2>7. CASE q[n + 1] \in kept
    <3>1. f[n + 1] = Append(f[n], q[n + 1]) BY <2>3, <2>7 DEF Turn
    <3>2. ToSet(f[n + 1]) = ToSet(f[n]) \cup {q[n + 1]} BY <3>1, <2>4, AppendSet
    <3>3. ASSUME IsInjective(q) PROVE IsInjective(f[n + 1])
      <4>1. \A i \in 1..n : q[i] # q[n + 1] BY <3>3, <1>0, <2>1 DEF IsInjective
      <4>2. q[n + 1] \notin ToSet(f[n]) BY <4>1, <2>2 DEF Piece
      <4>3. IsInjective(f[n]) BY <3>3, <2>2 DEF Piece
      <4> QED BY <3>1, <4>2, <4>3, <2>4, NewInjective
    <3> QED BY <3>2, <3>3, <2>2, <2>5, <2>7 DEF Piece
  <2> QED BY <2>6, <2>7
<1> HIDE DEF T
<1>3. \A n \in Nat : n \in T BY <1>1, <1>2, Induct
<1> QED BY <1>3, <1>0 DEF T

\* Only yields a sequence of the elements of q that are in kept ...
LEMMA OnlySet ==
  ASSUME NEW S, NEW q \in Seq(S), NEW kept
  PROVE  Only(q, kept) \in Seq(S) /\ ToSet(Only(q, kept)) = ToSet(q) \cap kept
<1>1. PICK f : f \in [0..Len(q) -> Seq(S)] /\ Run(q, kept, f) /\ Only(q, kept) = f[Len(q)] BY OnlyRuns
<1>2. Len(q) \in 0..Len(q) /\ DOMAIN q = 1..Len(q) OBVIOUS
<1>3. Piece(q, kept, Len(q), f[Len(q)]) BY <1>1, <1>2, Pieces
<1>4. ToSet(f[Len(q)]) = ToSet(q) \cap kept BY <1>2, <1>3 DEF Piece, ToSet
<1> QED BY <1>1, <1>2, <1>4

\* ... and none of them twice, where q has none twice.
LEMMA OnlyInjective ==
  ASSUME NEW S, NEW q \in Seq(S), NEW kept, IsInjective(q)
  PROVE  IsInjective(Only(q, kept))
<1>1. PICK f : f \in [0..Len(q) -> Seq(S)] /\ Run(q, kept, f) /\ Only(q, kept) = f[Len(q)] BY OnlyRuns
<1>2. Len(q) \in 0..Len(q) OBVIOUS
<1>3. Piece(q, kept, Len(q), f[Len(q)]) BY <1>1, <1>2, Pieces
<1> QED BY <1>1, <1>3 DEF Piece

\* Without yields the others, under the same condition none twice.
LEMMA WithoutSet ==
  ASSUME NEW S, NEW q \in Seq(S), NEW gone
  PROVE  /\ Without(q, gone) \in Seq(S)
         /\ ToSet(Without(q, gone)) = ToSet(q) \ gone
         /\ IsInjective(q) => IsInjective(Without(q, gone))
<1>1. /\ Only(q, ToSet(q) \ gone) \in Seq(S)
      /\ ToSet(Only(q, ToSet(q) \ gone)) = ToSet(q) \cap (ToSet(q) \ gone) BY OnlySet
<1>2. IsInjective(q) => IsInjective(Only(q, ToSet(q) \ gone)) BY OnlyInjective
<1> QED BY <1>1, <1>2 DEF Without
-----------------------------------------------------------------------------
(***************************************************************************)
(* Parts and orders of a sequence                                          *)
(***************************************************************************)

\* Contains looks for an element.
LEMMA ContainsSet ==
  ASSUME NEW S, NEW q \in Seq(S), NEW x
  PROVE  Contains(q, x) <=> x \in ToSet(q)
BY DEF Contains, ToSet

\* One element.
LEMMA SingleSet ==
  ASSUME NEW S, NEW x \in S
  PROVE  <<x>> \in Seq(S) /\ ToSet(<<x>>) = {x} /\ IsInjective(<<x>>)
<1>1. <<x>> \in Seq(S) /\ Len(<<x>>) = 1 /\ <<x>>[1] = x OBVIOUS
<1>2. DOMAIN <<x>> = {1} OBVIOUS
<1> QED BY <1>1, <1>2 DEF ToSet, IsInjective

\* No element.
LEMMA EmptySet ==
  ASSUME NEW S
  PROVE  <<>> \in Seq(S) /\ ToSet(<<>>) = {} /\ IsInjective(<<>>)
BY DEF ToSet, IsInjective

\* A sequence read backwards has the same elements.
LEMMA ReverseSet ==
  ASSUME NEW S, NEW s \in Seq(S)
  PROVE  /\ Reverse(s) \in Seq(S)
         /\ ToSet(Reverse(s)) = ToSet(s)
         /\ IsInjective(s) => IsInjective(Reverse(s))
<1> DEFINE n == Len(s)
           t == Reverse(s)
<1>1. n \in Nat /\ DOMAIN s = 1..n OBVIOUS
<1>2. \A i \in 1..n : (n - i) + 1 \in 1..n /\ (n - ((n - i) + 1)) + 1 = i BY <1>1
<1>3. DOMAIN t = 1..n /\ \A i \in 1..n : t[i] = s[(n - i) + 1] BY DEF Reverse
<1>4. t \in [1..n -> S]
  <2>1. \A i \in 1..n : t[i] \in S BY <1>2, <1>3
  <2>2. t = [i \in 1..n |-> t[i]] BY DEF Reverse
  <2> HIDE DEF t, n
  <2> QED BY <2>1, <2>2
<1> HIDE DEF t, n
<1>5. t \in Seq(S) BY <1>1, <1>4
<1>6. ToSet(t) \subseteq ToSet(s) BY <1>1, <1>2, <1>3 DEF ToSet
<1>7. ToSet(s) \subseteq ToSet(t)
  <2> SUFFICES ASSUME NEW i \in 1..n PROVE s[i] \in ToSet(t) BY <1>1 DEF ToSet
  <2>1. t[(n - i) + 1] = s[i] BY <1>2, <1>3
  <2> QED BY <2>1, <1>2, <1>3 DEF ToSet
<1>8. ASSUME IsInjective(s) PROVE IsInjective(t)
  <2> SUFFICES ASSUME NEW i \in 1..n, NEW j \in 1..n, t[i] = t[j] PROVE i = j BY <1>3 DEF IsInjective
  <2>1. (n - i) + 1 = (n - j) + 1 BY <1>1, <1>2, <1>3, <1>8 DEF IsInjective
  <2> QED BY <2>1, <1>1
<1> QED BY <1>5, <1>6, <1>7, <1>8 DEF t

\* A part of a sequence.
LEMMA SubSeqSet ==
  ASSUME NEW S, NEW s \in Seq(S), NEW m \in Nat, NEW n \in Nat, m >= 1, n <= Len(s)
  PROVE  /\ SubSeq(s, m, n) \in Seq(S)
         /\ ToSet(SubSeq(s, m, n)) = {s[i] : i \in m..n}
         /\ ToSet(SubSeq(s, m, n)) \subseteq ToSet(s)
         /\ IsInjective(s) => IsInjective(SubSeq(s, m, n))
<1> DEFINE t == SubSeq(s, m, n)
           l == IF m <= n THEN (n - m) + 1 ELSE 0
<1>1. Len(s) \in Nat /\ DOMAIN s = 1..Len(s) OBVIOUS
<1>2. l \in Nat /\ m..n \subseteq 1..Len(s) BY <1>1
<1>3. t \in Seq(S) /\ Len(t) = l /\ DOMAIN t = 1..l /\ \A i \in 1..l : t[i] = s[(m - 1) + i] BY <1>1
<1>4. \A i \in 1..l : (m - 1) + i \in m..n BY <1>1
<1>5. \A i \in m..n : (i - m) + 1 \in 1..l /\ (m - 1) + ((i - m) + 1) = i BY <1>1
<1> HIDE DEF t, l
<1>6. ToSet(t) \subseteq {s[i] : i \in m..n} BY <1>3, <1>4 DEF ToSet
<1>7. {s[i] : i \in m..n} \subseteq ToSet(t)
  <2> SUFFICES ASSUME NEW i \in m..n PROVE s[i] \in ToSet(t) OBVIOUS
  <2>1. t[(i - m) + 1] = s[i] BY <1>3, <1>5
  <2> QED BY <2>1, <1>3, <1>5 DEF ToSet
<1>8. {s[i] : i \in m..n} \subseteq ToSet(s) BY <1>1, <1>2 DEF ToSet
<1>9. ASSUME IsInjective(s) PROVE IsInjective(t)
  <2> SUFFICES ASSUME NEW i \in 1..l, NEW j \in 1..l, t[i] = t[j] PROVE i = j BY <1>3 DEF IsInjective
  <2>1. (m - 1) + i = (m - 1) + j BY <1>1, <1>2, <1>3, <1>4, <1>9 DEF IsInjective
  <2> QED BY <2>1, <1>2
<1> QED BY <1>3, <1>6, <1>7, <1>8, <1>9 DEF t

\* The place of the first x in q, zero where there is none.
Place(q, x, n) ==
    /\ n \in 0..Len(q)
    /\ n = 0 => x \notin ToSet(q)
    /\ n # 0 => q[n] = x

\* SelectInSeq finds it.
LEMMA SelectPlace ==
  ASSUME NEW S, NEW q \in Seq(S), NEW x, NEW n, n = SelectInSeq(q, LAMBDA i : i = x)
  PROVE  Place(q, x, n)
<1> DEFINE I == {i \in 1..Len(q) : q[i] = x}
<1>1. n = (IF I # {} THEN Min(I) ELSE 0) BY DEF SelectInSeq
<1>2. Len(q) \in Nat /\ DOMAIN q = 1..Len(q) OBVIOUS
<1>3. CASE I = {}
  <2>1. n = 0 BY <1>1, <1>3
  <2>2. x \notin ToSet(q) BY <1>2, <1>3 DEF ToSet
  <2> QED BY <1>2, <2>1, <2>2 DEF Place
<1>4. CASE I # {}
  <2>1. I \subseteq Nat BY <1>2
  <2>2. \E i \in I : \A j \in I : i <= j BY <1>4, <2>1, Least
  <2> DEFINE min == CHOOSE i \in I : \A j \in I : i <= j
  <2>3. min \in I BY <2>2
  <2>4. n = min BY <1>1, <1>4 DEF Min
  <2> HIDE DEF min
  <2> QED BY <1>2, <2>3, <2>4 DEF Place
<1> QED BY <1>3, <1>4

\* The elements of a sequence are finitely many.
LEMMA FiniteElements ==
  ASSUME NEW S, NEW q \in Seq(S)
  PROVE  IsFiniteSet(ToSet(q)) /\ Cardinality(ToSet(q)) \in Nat
<1>1. Len(q) \in Nat /\ DOMAIN q = 1..Len(q) OBVIOUS
<1>2. q \in [1..Len(q) -> ToSet(q)] BY <1>1 DEF ToSet
<1>3. \A x \in ToSet(q) : \E i \in 1..Len(q) : q[i] = x BY <1>1 DEF ToSet
<1>4. q \in Surjection(1..Len(q), ToSet(q)) BY <1>2, <1>3 DEF Surjection
<1>5. IsFiniteSet(1..Len(q)) BY <1>1, FS_Interval
<1>6. IsFiniteSet(ToSet(q)) BY <1>4, <1>5, FS_Surjection
<1> QED BY <1>6, FS_CardinalityType

\* Every order of the elements of q has them all, each once.
LEMMA OrderSet ==
  ASSUME NEW S, NEW q \in Seq(S), NEW t \in SetToSeqs(ToSet(q))
  PROVE  t \in Seq(S) /\ ToSet(t) = ToSet(q) /\ IsInjective(t)
<1> DEFINE T == ToSet(q)
           n == Cardinality(T)
<1>1. IsFiniteSet(T) /\ n \in Nat BY FiniteElements
<1>2. t \in [1..n -> T] /\ \A i, j \in 1..n : i # j => t[i] # t[j] BY DEF SetToSeqs
<1>3. T \subseteq S BY DEF ToSet
<1> HIDE DEF T, n
<1>4. IsInjective(t) BY <1>2 DEF IsInjective
<1>5. t \in Injection(1..n, T) BY <1>2, <1>4 DEF Injection
<1>6. Cardinality(1..n) = n
  <2>1. Cardinality(1..n) = (IF 1 > n THEN 0 ELSE n - 1 + 1) BY <1>1, FS_Interval
  <2> QED BY <1>1, <2>1
<1>7. t \in Surjection(1..n, T)
  <2>1. Cardinality(1..n) = Cardinality(T) BY <1>6 DEF n
  <2> QED BY <2>1, <1>1, <1>5, FS_Injection
<1>8. ToSet(t) = T BY <1>2, <1>7 DEF Surjection, ToSet
<1>9. t \in [1..n -> S] BY <1>2, <1>3
<1>10. t \in Seq(S) BY <1>1, <1>9
<1> QED BY <1>4, <1>8, <1>10 DEF T

-----------------------------------------------------------------------------
(***************************************************************************)
(* When two of these slices are the same                                   *)
(***************************************************************************)

\* Only depends on which elements of q are kept.
LEMMA OnlySame ==
  ASSUME NEW S, NEW q \in Seq(S), NEW kept, NEW others, ToSet(q) \cap kept = ToSet(q) \cap others
  PROVE  Only(q, kept) = Only(q, others)
<1>0. Len(q) \in Nat /\ DOMAIN q = 1..Len(q) OBVIOUS
<1>1. PICK f : f \in [0..Len(q) -> Seq(S)] /\ Run(q, kept, f) /\ Only(q, kept) = f[Len(q)] BY OnlyRuns
<1>2. PICK g : g \in [0..Len(q) -> Seq(S)] /\ Run(q, others, g) /\ Only(q, others) = g[Len(q)] BY OnlyRuns
<1> DEFINE T == {m \in Nat : m <= Len(q) => f[m] = g[m]}
<1>3. 0 \in T BY <1>1, <1>2 DEF Run
<1>4. ASSUME NEW n \in Nat, n \in T PROVE n + 1 \in T
  <2> SUFFICES ASSUME n + 1 <= Len(q) PROVE f[n + 1] = g[n + 1] OBVIOUS
  <2>1. n + 1 \in 1..Len(q) /\ n <= Len(q) /\ (n + 1) - 1 = n BY <1>0
  <2>2. f[n + 1] = Turn(q, kept, n + 1, f[n]) /\ g[n + 1] = Turn(q, others, n + 1, g[n])
    BY <1>1, <1>2, <2>1 DEF Run
  <2>3. f[n] = g[n] BY <1>4, <2>1
  <2>4. q[n + 1] \in ToSet(q) BY <1>0, <2>1 DEF ToSet
  <2>5. q[n + 1] \in kept <=> q[n + 1] \in others BY <2>4
  <2> QED BY <2>2, <2>3, <2>5 DEF Turn
<1> HIDE DEF T
<1>5. \A n \in Nat : n \in T BY <1>3, <1>4, Induct
<1> QED BY <1>0, <1>1, <1>2, <1>5 DEF T

\* A sequence grows by its next element.
LEMMA NextPart ==
  ASSUME NEW S, NEW q \in Seq(S), NEW n \in Nat, n + 1 <= Len(q)
  PROVE  Append(SubSeq(q, 1, n), q[n + 1]) = SubSeq(q, 1, n + 1)
<1>1. Len(q) \in Nat /\ q[n + 1] \in S OBVIOUS
<1> DEFINE a == SubSeq(q, 1, n)
           b == SubSeq(q, 1, n + 1)
           c == Append(a, q[n + 1])
<1>2. a \in Seq(S) /\ Len(a) = n /\ \A i \in 1..n : a[i] = q[i] BY <1>1
<1>3. b \in Seq(S) /\ Len(b) = n + 1 /\ \A i \in 1..n + 1 : b[i] = q[i] BY <1>1
<1> HIDE DEF a, b
<1>4. c \in Seq(S) /\ Len(c) = n + 1 /\ \A i \in 1..n : c[i] = a[i] BY <1>1, <1>2
<1>5. c[n + 1] = q[n + 1] BY <1>1, <1>2
<1> HIDE DEF c
<1>6. \A i \in 1..n + 1 : c[i] = b[i]
  <2> SUFFICES ASSUME NEW i \in 1..n + 1 PROVE c[i] = b[i] OBVIOUS
  <2>1. CASE i = n + 1 BY <2>1, <1>3, <1>5
  <2>2. CASE i # n + 1
    <3>1. i \in 1..n BY <2>2
    <3> QED BY <3>1, <1>2, <1>3, <1>4
  <2> QED BY <2>1, <2>2
<1>7. c = b BY <1>3, <1>4, <1>6
<1> QED BY <1>7 DEF a, b, c

\* All of q is q.
LEMMA OnlyAll ==
  ASSUME NEW S, NEW q \in Seq(S), NEW kept, ToSet(q) \subseteq kept
  PROVE  Only(q, kept) = q
<1>0. Len(q) \in Nat /\ DOMAIN q = 1..Len(q) OBVIOUS
<1>1. PICK f : f \in [0..Len(q) -> Seq(S)] /\ Run(q, kept, f) /\ Only(q, kept) = f[Len(q)] BY OnlyRuns
<1> DEFINE T == {m \in Nat : m <= Len(q) => f[m] = SubSeq(q, 1, m)}
<1>3. 0 \in T
  <2>1. SubSeq(q, 1, 0) = <<>> OBVIOUS
  <2> QED BY <2>1, <1>1 DEF Run
<1>4. ASSUME NEW n \in Nat, n \in T PROVE n + 1 \in T
  <2> SUFFICES ASSUME n + 1 <= Len(q) PROVE f[n + 1] = SubSeq(q, 1, n + 1) OBVIOUS
  <2>1. n + 1 \in 1..Len(q) /\ n <= Len(q) /\ (n + 1) - 1 = n BY <1>0
  <2>2. f[n + 1] = Turn(q, kept, n + 1, f[n]) BY <1>1, <2>1 DEF Run
  <2>3. f[n] = SubSeq(q, 1, n) BY <1>4, <2>1
  <2>4. q[n + 1] \in kept BY <1>0, <2>1 DEF ToSet
  <2>5. f[n + 1] = Append(SubSeq(q, 1, n), q[n + 1]) BY <2>2, <2>3, <2>4 DEF Turn
  <2> QED BY <2>5, NextPart
<1> HIDE DEF T
<1>5. \A n \in Nat : n \in T BY <1>3, <1>4, Induct
<1>6. f[Len(q)] = SubSeq(q, 1, Len(q)) BY <1>0, <1>5 DEF T
<1>7. SubSeq(q, 1, Len(q)) = q OBVIOUS
<1> QED BY <1>1, <1>6, <1>7

\* An element at the end of the second of two sequences.
LEMMA ConcatAppend ==
  ASSUME NEW S, NEW s \in Seq(S), NEW t \in Seq(S), NEW e \in S
  PROVE  \A r : r = Append(t, e) => Append(s \o t, e) = s \o r
<1> DEFINE a == Append(s \o t, e)
           u == Append(t, e)
           b == s \o u
<1>1. Len(s) \in Nat /\ Len(t) \in Nat OBVIOUS
<1>2. u \in Seq(S) /\ Len(u) = Len(t) + 1 /\ u[Len(t) + 1] = e /\ \A i \in 1..Len(t) : u[i] = t[i] OBVIOUS
<1>3. /\ a \in Seq(S) /\ Len(a) = (Len(s) + Len(t)) + 1 /\ a[(Len(s) + Len(t)) + 1] = e
      /\ \A i \in 1..Len(s) : a[i] = s[i]
      /\ \A i \in 1..Len(t) : a[Len(s) + i] = t[i]
  <2> DEFINE c == s \o t
  <2>1. /\ c \in Seq(S) /\ Len(c) = Len(s) + Len(t) /\ \A i \in 1..Len(s) : c[i] = s[i]
        /\ \A i \in 1..Len(t) : c[Len(s) + i] = t[i]
    OBVIOUS
  <2> HIDE DEF c
  <2>2. \A i \in 1..Len(s) + Len(t) : Append(c, e)[i] = c[i] BY <2>1
  <2>3. (\A i \in 1..Len(s) : i \in 1..Len(s) + Len(t)) /\ \A i \in 1..Len(t) : Len(s) + i \in 1..Len(s) + Len(t)
    BY <1>1
  <2>4. Append(c, e) \in Seq(S) /\ Len(Append(c, e)) = Len(c) + 1 /\ Append(c, e)[Len(c) + 1] = e BY <2>1
  <2>5. a = Append(c, e) BY DEF c
  <2> HIDE DEF a
  <2> QED BY <2>1, <2>2, <2>3, <2>4, <2>5
<1> HIDE DEF a, u
<1>4. /\ b \in Seq(S) /\ Len(b) = Len(s) + (Len(t) + 1)
      /\ \A i \in 1..Len(s) : b[i] = s[i]
      /\ \A i \in 1..Len(t) + 1 : b[Len(s) + i] = u[i]
  BY <1>2
<1> HIDE DEF b
<1>5. ASSUME NEW i \in 1..Len(a) PROVE a[i] = b[i]
  <2>1. CASE i \in 1..Len(s) BY <2>1, <1>3, <1>4
  <2>2. CASE i \notin 1..Len(s)
    <3>1. i - Len(s) \in 1..Len(t) + 1 /\ Len(s) + (i - Len(s)) = i BY <1>1, <1>3, <2>2
    <3>2. b[i] = u[i - Len(s)] BY <1>4, <3>1
    <3>3. CASE i - Len(s) = Len(t) + 1
      <4>1. i = (Len(s) + Len(t)) + 1 BY <1>1, <3>1, <3>3
      <4> QED BY <1>2, <1>3, <3>2, <3>3, <4>1
    <3>4. CASE i - Len(s) # Len(t) + 1
      <4>1. i - Len(s) \in 1..Len(t) BY <1>1, <3>1, <3>4
      <4>2. a[i] = t[i - Len(s)] BY <1>3, <3>1, <4>1
      <4> QED BY <1>2, <3>2, <4>1, <4>2
    <3> QED BY <3>3, <3>4
  <2> QED BY <2>1, <2>2
<1>6. Len(a) = Len(b) BY <1>1, <1>3, <1>4
<1>7. a = b BY <1>3, <1>4, <1>5, <1>6
<1> QED BY <1>7 DEF a, b, u

\* A sequence without elements.
LEMMA NoElements == ASSUME NEW S, NEW s \in Seq(S), ToSet(s) = {} PROVE s = <<>>
<1> SUFFICES ASSUME s # <<>> PROVE FALSE OBVIOUS
<1>1. 1 \in DOMAIN s OBVIOUS
<1>2. s[1] \in ToSet(s) BY <1>1 DEF ToSet
<1> QED BY <1>2

\* Nothing of q is the empty sequence.
LEMMA OnlyNothing ==
  ASSUME NEW S, NEW q \in Seq(S), NEW kept, ToSet(q) \cap kept = {}
  PROVE  Only(q, kept) = <<>>
<1>1. Only(q, kept) \in Seq(S) /\ ToSet(Only(q, kept)) = {} BY OnlySet
<1> QED BY <1>1, NoElements

\* The same of Without.
LEMMA WithoutCases ==
  ASSUME NEW S, NEW q \in Seq(S), NEW gone
  PROVE  /\ ToSet(q) \subseteq gone => Without(q, gone) = <<>>
         /\ ToSet(q) \cap gone = {} => Without(q, gone) = q
<1>1. ASSUME ToSet(q) \subseteq gone PROVE Without(q, gone) = <<>>
  <2>1. ToSet(q) \cap (ToSet(q) \ gone) = {} BY <1>1
  <2> QED BY <2>1, OnlyNothing DEF Without
<1>2. ASSUME ToSet(q) \cap gone = {} PROVE Without(q, gone) = q
  <2>1. ToSet(q) \subseteq ToSet(q) \ gone BY <1>2
  <2> QED BY <2>1, OnlyAll DEF Without
<1> QED BY <1>1, <1>2

\* The first of a sequence read backwards is its last.
LEMMA ReverseHead ==
  ASSUME NEW S, NEW s \in Seq(S), s # <<>>
  PROVE  Reverse(s) # <<>> /\ Head(Reverse(s)) = Last(s)
<1>1. Len(s) \in Nat \ {0} /\ 1 \in 1..Len(s) OBVIOUS
<1>2. Reverse(s) \in Seq(S) BY ReverseSet
<1>3. DOMAIN Reverse(s) = 1..Len(s) BY DEF Reverse
<1>4. Reverse(s)[1] = s[(Len(s) - 1) + 1] BY <1>1 DEF Reverse
<1>5. Reverse(s)[1] = s[Len(s)] BY <1>1, <1>4
<1>6. Reverse(s) # <<>> BY <1>1, <1>3
<1> QED BY <1>2, <1>5, <1>6 DEF Last
-----------------------------------------------------------------------------
(***************************************************************************)
(* Sequences in an order                                                   *)
(***************************************************************************)

\* Every element comes before those that follow it, as R, a set of pairs,
\* says.
Ordered(s, R) == \A i, j \in DOMAIN s : i < j => <<s[i], s[j]>> \in R

\* An element after all the others.
LEMMA OrderedAppend ==
  ASSUME NEW S, NEW s \in Seq(S), NEW e \in S, NEW R, Ordered(s, R), \A x \in ToSet(s) : <<x, e>> \in R
  PROVE  Ordered(Append(s, e), R)
<1> DEFINE t == Append(s, e)
<1>1. Len(s) \in Nat /\ DOMAIN s = 1..Len(s) OBVIOUS
<1>2. DOMAIN t = 1..Len(s) + 1 /\ t[Len(s) + 1] = e /\ \A i \in 1..Len(s) : t[i] = s[i] BY <1>1
<1>3. \A i \in 1..Len(s) : s[i] \in ToSet(s) BY <1>1 DEF ToSet
<1> HIDE DEF t
<1> SUFFICES ASSUME NEW i \in 1..Len(s) + 1, NEW j \in 1..Len(s) + 1, i < j PROVE <<t[i], t[j]>> \in R
    BY <1>2 DEF Ordered, t
<1>4. i \in 1..Len(s) BY <1>1
<1>5. CASE j = Len(s) + 1 BY <1>2, <1>3, <1>4, <1>5
<1>6. CASE j # Len(s) + 1
  <2>1. j \in 1..Len(s) BY <1>1, <1>6
  <2> QED BY <2>1, <1>1, <1>2, <1>4 DEF Ordered
<1> QED BY <1>5, <1>6

\* Only keeps the order of q.
LEMMA OnlyOrdered ==
  ASSUME NEW S, NEW q \in Seq(S), NEW kept, NEW R, Ordered(q, R)
  PROVE  Ordered(Only(q, kept), R)
<1>0. Len(q) \in Nat /\ DOMAIN q = 1..Len(q) OBVIOUS
<1>1. PICK f : f \in [0..Len(q) -> Seq(S)] /\ Run(q, kept, f) /\ Only(q, kept) = f[Len(q)] BY OnlyRuns
<1>2. \A n \in 0..Len(q) : Piece(q, kept, n, f[n]) BY <1>1, Pieces
<1> DEFINE T == {m \in Nat : m <= Len(q) => Ordered(f[m], R)}
<1>3. 0 \in T
  <2>1. f[0] = <<>> BY <1>1 DEF Run
  <2>2. Ordered(f[0], R) BY <2>1 DEF Ordered
  <2> QED BY <2>2
<1>4. ASSUME NEW n \in Nat, n \in T PROVE n + 1 \in T
  <2> SUFFICES ASSUME n + 1 <= Len(q) PROVE Ordered(f[n + 1], R) OBVIOUS
  <2>1. n + 1 \in 1..Len(q) /\ n \in 0..Len(q) /\ n <= Len(q) /\ (n + 1) - 1 = n BY <1>0
  <2>2. Ordered(f[n], R) BY <1>4, <2>1
  <2>3. f[n + 1] = Turn(q, kept, n + 1, f[n]) BY <1>1, <2>1 DEF Run
  <2>4. f[n] \in Seq(S) /\ q[n + 1] \in S BY <1>1, <2>1
  <2>5. \A i \in 1..n : <<q[i], q[n + 1]>> \in R
    <3>1. \A i \in 1..n : i \in DOMAIN q /\ i < n + 1 BY <1>0, <2>1
    <3> QED BY <3>1, <1>0, <2>1 DEF Ordered
  <2>6. \A x \in ToSet(f[n]) : <<x, q[n + 1]>> \in R BY <1>2, <2>1, <2>5 DEF Piece
  <2>7. Ordered(Append(f[n], q[n + 1]), R) BY <2>2, <2>4, <2>6, OrderedAppend
  <2> QED BY <2>2, <2>3, <2>7 DEF Turn
<1> HIDE DEF T
<1>5. \A n \in Nat : n \in T BY <1>3, <1>4, Induct
<1> QED BY <1>0, <1>1, <1>5 DEF T

\* A part of a sequence keeps its order.
LEMMA SubSeqOrdered ==
  ASSUME NEW S, NEW s \in Seq(S), NEW m \in Nat, NEW n \in Nat, m >= 1, n <= Len(s), NEW R, Ordered(s, R)
  PROVE  Ordered(SubSeq(s, m, n), R)
<1> DEFINE t == SubSeq(s, m, n)
           l == IF m <= n THEN (n - m) + 1 ELSE 0
<1>1. Len(s) \in Nat /\ DOMAIN s = 1..Len(s) OBVIOUS
<1>2. DOMAIN t = 1..l /\ \A i \in 1..l : t[i] = s[(m - 1) + i] BY <1>1
<1>3. l \in Nat /\ \A i \in 1..l : (m - 1) + i \in 1..Len(s) BY <1>1
<1> HIDE DEF t, l
<1> SUFFICES ASSUME NEW i \in 1..l, NEW j \in 1..l, i < j PROVE <<t[i], t[j]>> \in R
    BY <1>2 DEF Ordered, t
<1>4. (m - 1) + i < (m - 1) + j BY <1>3
<1> QED BY <1>1, <1>2, <1>3, <1>4 DEF Ordered

\* What two sequences in the same order, with the same elements, have in
\* common up to n.
Begins(s, t, n) == n <= Len(t) /\ \A i \in 1..n : s[i] = t[i]

\* The first is a beginning of the second ...
LEMMA OrderedBegins ==
  ASSUME NEW S, NEW s \in Seq(S), NEW t \in Seq(S), NEW R, Ordered(s, R), Ordered(t, R), ToSet(s) = ToSet(t),
         \A x, y \in S : <<x, y>> \in R => <<y, x>> \notin R
  PROVE  Begins(s, t, Len(s))
<1>0. /\ Len(s) \in Nat /\ DOMAIN s = 1..Len(s) /\ \A i \in 1..Len(s) : s[i] \in S
      /\ Len(t) \in Nat /\ DOMAIN t = 1..Len(t) /\ \A i \in 1..Len(t) : t[i] \in S
  OBVIOUS
<1>1. /\ \A i \in 1..Len(s) : \E m \in 1..Len(t) : s[i] = t[m]
      /\ \A m \in 1..Len(t) : \E i \in 1..Len(s) : t[m] = s[i]
  BY <1>0 DEF ToSet
<1>2. /\ \A i, j \in 1..Len(s) : i < j => <<s[i], s[j]>> \in R
      /\ \A i, j \in 1..Len(t) : i < j => <<t[i], t[j]>> \in R
  BY <1>0 DEF Ordered
<1>3. \A x \in S : <<x, x>> \notin R OBVIOUS
<1> DEFINE T == {m \in Nat : m <= Len(s) => Begins(s, t, m)}
<1>4. 0 \in T BY <1>0 DEF Begins
<1>5. ASSUME NEW n \in Nat, n \in T PROVE n + 1 \in T
  <2> SUFFICES ASSUME n + 1 <= Len(s) PROVE Begins(s, t, n + 1) OBVIOUS
  <2>1. n + 1 \in 1..Len(s) /\ n <= Len(s) BY <1>0
  <2>2. Begins(s, t, n) BY <1>5, <2>1
  <2>3. PICK m \in 1..Len(t) : s[n + 1] = t[m] BY <1>1, <2>1
  <2>4. m > n
    <3> SUFFICES ASSUME m <= n PROVE FALSE BY <1>0
    <3>1. m \in 1..n /\ m \in 1..Len(s) /\ m < n + 1 BY <1>0, <2>1
    <3>2. s[m] = t[m] BY <2>2, <3>1 DEF Begins
    <3>3. <<s[m], s[n + 1]>> \in R BY <1>2, <2>1, <3>1
    <3> QED BY <1>0, <1>3, <2>1, <2>3, <3>2, <3>3
  <2>5. n + 1 \in 1..Len(t) BY <1>0, <2>4
  <2>6. m = n + 1
    <3> SUFFICES ASSUME m # n + 1 PROVE FALSE OBVIOUS
    <3>1. n + 1 < m BY <2>4
    <3>2. <<t[n + 1], t[m]>> \in R BY <1>2, <2>5, <3>1
    <3>3. PICK p \in 1..Len(s) : t[n + 1] = s[p] BY <1>1, <2>5
    <3>4. CASE p > n + 1
      <4>1. <<s[n + 1], s[p]>> \in R BY <1>2, <2>1, <3>4
      <4> QED BY <4>1, <1>0, <2>3, <2>5, <3>2, <3>3
    <3>5. CASE p = n + 1 BY <1>0, <1>3, <2>3, <2>5, <3>2, <3>3, <3>5
    <3>6. CASE p <= n
      <4>1. p \in 1..n /\ p \in 1..Len(t) /\ p < n + 1 BY <1>0, <2>5, <3>6
      <4>2. s[p] = t[p] BY <2>2, <4>1 DEF Begins
      <4>3. <<t[p], t[n + 1]>> \in R BY <1>2, <2>5, <4>1
      <4> QED BY <1>0, <1>3, <2>5, <3>3, <4>2, <4>3
    <3> QED BY <3>4, <3>5, <3>6
  <2>7. \A i \in 1..n + 1 : s[i] = t[i]
    <3> TAKE i \in 1..n + 1
    <3>1. i \in 1..n \/ i = n + 1 OBVIOUS
    <3> QED BY <3>1, <2>2, <2>3, <2>6 DEF Begins
  <2> QED BY <2>5, <2>7 DEF Begins
<1> HIDE DEF T
<1>6. \A n \in Nat : n \in T BY <1>4, <1>5, Induct
<1> QED BY <1>0, <1>6 DEF T

\* ... so they are equal.
LEMMA OrderedSame ==
  ASSUME NEW S, NEW s \in Seq(S), NEW t \in Seq(S), NEW R, Ordered(s, R), Ordered(t, R), ToSet(s) = ToSet(t),
         \A x, y \in S : <<x, y>> \in R => <<y, x>> \notin R
  PROVE  s = t
<1>1. Begins(s, t, Len(s)) BY OrderedBegins
<1>2. Begins(t, s, Len(t)) BY OrderedBegins
<1>3. Len(s) \in Nat /\ Len(t) \in Nat OBVIOUS
<1>4. Len(s) = Len(t) /\ \A i \in 1..Len(s) : s[i] = t[i] BY <1>1, <1>2, <1>3 DEF Begins
<1> QED BY <1>4
=============================================================================
