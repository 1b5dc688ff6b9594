--------------------------- MODULE ContractProofs ---------------------------
(***************************************************************************)
(* The proof that the generated mocks implement MockContract, for any      *)
(* functions, values, arena and number of calls.                           *)
(*                                                                         *)
(* The contract has two sequences, what the test promised and the calls    *)
(* that were accepted; the mocks have a chain of instances per function,   *)
(* a flag or two, and a stack of callbacks.  The invariant relates them:   *)
(* the n-th instance in the chain of a function stands for the n-th of its *)
(* promises that no call has met yet (Waiting), and every accepted call    *)
(* that is not answered yet has a callback of its own in progress, which   *)
(* runs with what its promise says (Framed).                               *)
(***************************************************************************)
EXTENDS MockProofs, FiniteSetTheorems

-----------------------------------------------------------------------------
(* Places of a function in a sequence of promises or of calls.             *)

\* How many records of f come before place i of s.
Rank(f, s, i) == Cardinality({j \in Contract!Of(f, s) : j < i})

\* The contract counts as this module does.
LEMMA SameCardinality == \A T : Contract!Cardinality(T) = Cardinality(T)
  BY DEF Contract!Cardinality, Cardinality

LEMMA CountIsCardinality ==
    \A f, s : Contract!Count(f, s) = Cardinality(Contract!Of(f, s))
  BY SameCardinality DEF Contract!Count

LEMMA OfIsFinite ==
    ASSUME NEW S, NEW s \in Seq(S), NEW f
    PROVE  /\ IsFiniteSet(Contract!Of(f, s)) /\ Contract!Count(f, s) \in Nat
           /\ Contract!Of(f, s) \subseteq 1 .. Len(s)
           /\ \A i : /\ IsFiniteSet({j \in Contract!Of(f, s) : j < i})
                     /\ Rank(f, s, i) \in Nat
<1>1. Contract!Of(f, s) \subseteq 1 .. Len(s)
  BY DEF Contract!Of
<1>2. IsFiniteSet(Contract!Of(f, s))
  <2>1. IsFiniteSet(1 .. Len(s))
    BY FS_Interval
  <2> QED BY <1>1, <2>1, FS_Subset
<1>3. ASSUME NEW i
      PROVE  IsFiniteSet({j \in Contract!Of(f, s) : j < i}) /\ Rank(f, s, i) \in Nat
  <2>1. {j \in Contract!Of(f, s) : j < i} \in SUBSET Contract!Of(f, s)
    OBVIOUS
  <2>2. IsFiniteSet({j \in Contract!Of(f, s) : j < i})
    BY <1>2, <2>1, FS_Subset
  <2> QED BY <2>2, FS_CardinalityType DEF Rank
<1> QED BY <1>1, <1>2, <1>3, FS_CardinalityType, CountIsCardinality

\* The rank grows from place to place and stays below the count; the place with
\* the highest rank is the last.
LEMMA RanksGrow ==
    ASSUME NEW S, NEW s \in Seq(S), NEW f
    PROVE  /\ \A i, j \in Contract!Of(f, s) : i < j => Rank(f, s, i) < Rank(f, s, j)
           /\ \A i, j \in Contract!Of(f, s) : Rank(f, s, i) = Rank(f, s, j) => i = j
           /\ \A i \in Contract!Of(f, s) : Rank(f, s, i) < Contract!Count(f, s)
           /\ \A i, j \in Contract!Of(f, s) : Rank(f, s, i) + 1 = Contract!Count(f, s) => j <= i
<1> DEFINE P == Contract!Of(f, s)
           Before(i) == {j \in P : j < i}
<1>1. /\ IsFiniteSet(P) /\ P \subseteq 1 .. Len(s) /\ Contract!Count(f, s) \in Nat
      /\ \A i : IsFiniteSet(Before(i)) /\ Rank(f, s, i) \in Nat
  BY OfIsFinite
<1>2. \A i : Rank(f, s, i) = Cardinality(Before(i))
  BY DEF Rank
<1>3. Contract!Count(f, s) = Cardinality(P)
  BY CountIsCardinality
<1> HIDE DEF P
<1>4. P \subseteq Nat
  BY <1>1
<1>5. ASSUME NEW i \in P PROVE Cardinality(Before(i) \cup {i}) = Rank(f, s, i) + 1
  <2>1. i \notin Before(i)
    BY <1>1
  <2> HIDE DEF Before
  <2> QED BY <1>1, <1>2, <2>1, FS_AddElement
<1>6. ASSUME NEW i \in P, NEW j \in P, i < j PROVE Rank(f, s, i) < Rank(f, s, j)
  <2>0. \A k \in P : k < i => k < j
    <3>1. i \in Nat /\ j \in Nat /\ \A k \in P : k \in Nat
      BY <1>4
    <3> QED BY <1>6, <3>1
  <2>1. Before(i) \cup {i} \in SUBSET Before(j)
    BY <1>6, <2>0
  <2> HIDE DEF Before
  <2>2. Cardinality(Before(i) \cup {i}) <= Cardinality(Before(j))
    BY <1>1, <2>1, FS_Subset
  <2> QED BY <1>1, <1>2, <1>5, <2>2
<1>7. ASSUME NEW i \in P PROVE Rank(f, s, i) < Contract!Count(f, s)
  <2>1. Before(i) \cup {i} \in SUBSET P
    OBVIOUS
  <2> HIDE DEF Before
  <2>2. Cardinality(Before(i) \cup {i}) <= Cardinality(P)
    BY <1>1, <2>1, FS_Subset
  <2> QED BY <1>1, <1>3, <1>5, <2>2
<1>8. ASSUME NEW i \in P, NEW j \in P, Rank(f, s, i) = Rank(f, s, j) PROVE i = j
  <2>1. i \in Nat /\ j \in Nat /\ Rank(f, s, i) \in Nat /\ Rank(f, s, j) \in Nat
    BY <1>1, <1>4
  <2>2. ~ (i < j) /\ ~ (j < i)
    BY <1>6, <1>8, <2>1
  <2> QED BY <2>1, <2>2
<1>9. ASSUME NEW i \in P, NEW j \in P, Rank(f, s, i) + 1 = Contract!Count(f, s) PROVE j <= i
  <2>1. i \in Nat /\ j \in Nat /\ Rank(f, s, i) \in Nat /\ Rank(f, s, j) \in Nat
    BY <1>1, <1>4
  <2>2. Rank(f, s, j) < Rank(f, s, i) + 1
    BY <1>7, <1>9
  <2>3. ~ (i < j)
    BY <1>6, <2>1, <2>2
  <2> QED BY <2>1, <2>3
<1> QED BY <1>6, <1>7, <1>8, <1>9 DEF P

Extended(t, s, e) == t = Append(s, e)
Changed(t, s, i, e) == t = [s EXCEPT ![i] = e]

\* A record that is added comes last and leaves the ranks of the others.
LEMMA OfAppend ==
    ASSUME NEW S, NEW s \in Seq(S), NEW e \in S, NEW t, Extended(t, s, e), NEW f
    PROVE  Contract!Of(f, t) =
              Contract!Of(f, s) \cup (IF e.fn = f THEN {Len(s) + 1} ELSE {})
<1>1. DOMAIN t = 1 .. Len(s) + 1 /\ DOMAIN s = 1 .. Len(s) /\ t[Len(s) + 1] = e
  BY DEF Extended
<1>2. \A i \in 1 .. Len(s) : t[i] = s[i]
  BY DEF Extended
<1>3. 1 .. Len(s) + 1 = (1 .. Len(s)) \cup {Len(s) + 1}
  OBVIOUS
<1> QED BY <1>1, <1>2, <1>3 DEF Contract!Of

LEMMA RankKept ==
    ASSUME NEW S, NEW s \in Seq(S), NEW e \in S, NEW t, Extended(t, s, e), NEW f,
           NEW i \in 1 .. Len(s) + 1
    PROVE  Rank(f, t, i) = Rank(f, s, i)
<1> DEFINE P == Contract!Of(f, s)
           Q == Contract!Of(f, t)
<1>1. Q = P \cup (IF e.fn = f THEN {Len(s) + 1} ELSE {})
  BY OfAppend
<1>2. {j \in Q : j < i} = {j \in P : j < i}
  <2> HIDE DEF P, Q
  <2> QED BY <1>1
<1> QED BY <1>2 DEF Rank

LEMMA RankAppend ==
    ASSUME NEW S, NEW s \in Seq(S), NEW e \in S, NEW t, Extended(t, s, e), NEW f
    PROVE  /\ Contract!Of(f, s) \subseteq Contract!Of(f, t)
           /\ e.fn # f => /\ Contract!Of(f, t) = Contract!Of(f, s)
                          /\ Contract!Count(f, t) = Contract!Count(f, s)
           /\ e.fn = f => /\ Len(s) + 1 \in Contract!Of(f, t)
                          /\ Rank(f, t, Len(s) + 1) = Contract!Count(f, s)
                          /\ Contract!Count(f, t) = Contract!Count(f, s) + 1
<1> DEFINE n == Len(s) + 1
           P == Contract!Of(f, s)
           Q == Contract!Of(f, t)
<1>1. IsFiniteSet(P) /\ P \subseteq 1 .. Len(s)
  BY OfIsFinite
<1>2. Q = P \cup (IF e.fn = f THEN {n} ELSE {})
  BY OfAppend
<1>3. n \notin P /\ n \in 1 .. Len(s) + 1
  BY <1>1
<1>4. e.fn = f => Cardinality(Q) = Cardinality(P) + 1 /\ n \in Q
  <2> HIDE DEF P, Q, n
  <2> QED BY <1>1, <1>2, <1>3, FS_AddElement
<1>5. {j \in P : j < n} = P
  BY <1>1
<1>6. Rank(f, s, n) = Cardinality(P)
  BY <1>5, Zenon DEF Rank
<1>7. Rank(f, t, n) = Rank(f, s, n)
  BY <1>3, RankKept
<1>8. Contract!Count(f, s) = Cardinality(P) /\ Contract!Count(f, t) = Cardinality(Q)
  BY CountIsCardinality
<1> HIDE DEF P, Q
<1>9. P \subseteq Q
  BY <1>2
<1>10. e.fn # f => Q = P
  BY <1>2
<1> QED BY <1>4, <1>6, <1>7, <1>8, <1>9, <1>10 DEF P, Q

\* Ranks only depend on the functions.
SameFuncs(t, s) == DOMAIN t = DOMAIN s /\ \A i \in DOMAIN s : t[i].fn = s[i].fn

LEMMA SameCounts ==
    ASSUME NEW s, NEW t, SameFuncs(t, s), NEW f
    PROVE  Contract!Of(f, t) = Contract!Of(f, s) /\ Contract!Count(f, t) = Contract!Count(f, s)
<1>1. Contract!Of(f, t) = Contract!Of(f, s)
  BY DEF Contract!Of, SameFuncs
<1> QED BY <1>1, CountIsCardinality

LEMMA SameRanks ==
    ASSUME NEW s, NEW t, SameFuncs(t, s), NEW f, NEW i
    PROVE  Rank(f, t, i) = Rank(f, s, i)
  BY SameCounts DEF Rank

-----------------------------------------------------------------------------
(* Expectations that wait in a chain.                                      *)

Asks == Contract!Promises

\* What instance inst holds is what promise p says.
Stands(inst, p) ==
    /\ p.arg = inst.arg /\ p.unchecked = inst.unchecked /\ p.ret = inst.ret
    /\ p.out = inst.out /\ p.throws = inst.throws

\* Instance j of chain q stands for promise i of f, when l is logged.
StandsFor(f, q, j, s, l, i) ==
    /\ i \in Contract!Of(f, s)
    /\ Rank(f, s, i) + 1 = Contract!Count(f, l) + j
    /\ Stands(q[j], s[i])
    /\ Ordered => q[j].order = i

\* The chain of f stands for the promises that are not met yet, in their order.
Waiting(f, q, s, l) ==
    /\ Contract!Count(f, s) = Contract!Count(f, l) + Len(q)
    /\ \A j \in 1 .. Len(q) : \E i : StandsFor(f, q, j, s, l, i)

LEMMA WaitPromise ==
    ASSUME NEW f, NEW q \in Seq(Instances), NEW s \in Seq(Asks), NEW l \in Seq(Entries),
           Waiting(f, q, s, l), NEW p \in Asks, NEW t, Extended(t, s, p)
    PROVE  /\ p.fn # f => Waiting(f, q, t, l)
           /\ \A inst \in Instances :
                p.fn = f /\ Stands(inst, p) /\ (Ordered => inst.order = Len(s) + 1) =>
                    Waiting(f, Append(q, inst), t, l)
<1>0. /\ Contract!Count(f, s) \in Nat /\ Contract!Count(f, l) \in Nat /\ Len(q) \in Nat
      /\ Contract!Of(f, s) \subseteq 1 .. Len(s)
  BY OfIsFinite
<1>1. /\ Contract!Of(f, s) \subseteq Contract!Of(f, t)
      /\ \A i \in Contract!Of(f, s) : Rank(f, t, i) = Rank(f, s, i) /\ t[i] = s[i]
  <2>1. Contract!Of(f, s) \subseteq Contract!Of(f, t)
    BY RankAppend
  <2>2. \A i \in 1 .. Len(s) + 1 : Rank(f, t, i) = Rank(f, s, i)
    BY RankKept
  <2>3. \A i \in Contract!Of(f, s) : i \in 1 .. Len(s) + 1 /\ t[i] = s[i]
    BY <1>0 DEF Extended
  <2> QED BY <2>1, <2>2, <2>3
<1>2. /\ p.fn # f => Contract!Count(f, t) = Contract!Count(f, s)
      /\ p.fn = f => /\ Len(s) + 1 \in Contract!Of(f, t)
                     /\ Rank(f, t, Len(s) + 1) = Contract!Count(f, s)
                     /\ Contract!Count(f, t) = Contract!Count(f, s) + 1
                     /\ t[Len(s) + 1] = p
  <2>1. t[Len(s) + 1] = p
    BY DEF Extended
  <2>2. /\ p.fn # f => Contract!Count(f, t) = Contract!Count(f, s)
        /\ p.fn = f => /\ Len(s) + 1 \in Contract!Of(f, t)
                       /\ Rank(f, t, Len(s) + 1) = Contract!Count(f, s)
                       /\ Contract!Count(f, t) = Contract!Count(f, s) + 1
    BY RankAppend
  <2> QED BY <2>1, <2>2
<1>3. ASSUME NEW j, NEW i, StandsFor(f, q, j, s, l, i)
      PROVE  StandsFor(f, q, j, t, l, i)
  BY <1>1, <1>3 DEF StandsFor
<1>4. ASSUME p.fn # f PROVE Waiting(f, q, t, l)
  BY <1>2, <1>3, <1>4 DEF Waiting
<1>5. ASSUME NEW inst \in Instances, p.fn = f, Stands(inst, p),
             Ordered => inst.order = Len(s) + 1
      PROVE  Waiting(f, Append(q, inst), t, l)
  <2> DEFINE r == Append(q, inst)
  <2>1. Len(r) = Len(q) + 1 /\ r[Len(q) + 1] = inst /\ \A j \in 1 .. Len(q) : r[j] = q[j]
    OBVIOUS
  <2> HIDE DEF r
  <2>2. StandsFor(f, r, Len(q) + 1, t, l, Len(s) + 1)
    BY <1>0, <1>2, <1>5, <2>1 DEF StandsFor, Waiting
  <2>3. ASSUME NEW j \in 1 .. Len(q) PROVE \E i : StandsFor(f, r, j, t, l, i)
    <3>1. PICK i : StandsFor(f, q, j, s, l, i)
      BY DEF Waiting
    <3> QED BY <1>3, <2>1, <3>1 DEF StandsFor
  <2>4. Contract!Count(f, t) = Contract!Count(f, l) + Len(r)
    BY <1>0, <1>2, <1>5, <2>1 DEF Waiting
  <2>5. \A j \in 1 .. Len(r) : j \in 1 .. Len(q) \/ j = Len(q) + 1
    BY <1>0, <2>1
  <2> QED BY <2>2, <2>3, <2>4, <2>5 DEF Waiting, r
<1> QED BY <1>4, <1>5

LEMMA WaitLog ==
    ASSUME NEW f, NEW q \in Seq(Instances), NEW s \in Seq(Asks), NEW l \in Seq(Entries),
           Waiting(f, q, s, l), NEW e \in Entries, NEW m, Extended(m, l, e)
    PROVE  /\ e.fn # f => Waiting(f, q, s, m)
           /\ e.fn = f /\ q # <<>> => Waiting(f, Tail(q), s, m)
<1>0. Contract!Count(f, s) \in Nat /\ Contract!Count(f, l) \in Nat /\ Len(q) \in Nat
  BY OfIsFinite
<1>1. /\ e.fn # f => Contract!Count(f, m) = Contract!Count(f, l)
      /\ e.fn = f => Contract!Count(f, m) = Contract!Count(f, l) + 1
  BY RankAppend
<1>2. ASSUME e.fn # f PROVE Waiting(f, q, s, m)
  BY <1>1, <1>2 DEF Waiting, StandsFor
<1>3. ASSUME e.fn = f, q # <<>> PROVE Waiting(f, Tail(q), s, m)
  <2> DEFINE r == Tail(q)
  <2>1. /\ Len(q) = Len(r) + 1 /\ Len(r) \in Nat
        /\ \A j \in 1 .. Len(r) : r[j] = q[j + 1]
    BY <1>3
  <2> HIDE DEF r
  <2>2. ASSUME NEW j \in 1 .. Len(r) PROVE \E i : StandsFor(f, r, j, s, m, i)
    <3>1. j + 1 \in 1 .. Len(q) /\ j \in Nat
      BY <2>1
    <3>2. PICK i : StandsFor(f, q, j + 1, s, l, i)
      BY <3>1 DEF Waiting
    <3>3. StandsFor(f, r, j, s, m, i)
      BY <1>0, <1>1, <1>3, <2>1, <3>1, <3>2 DEF StandsFor
    <3> QED BY <3>3
  <2>3. Contract!Count(f, s) = Contract!Count(f, m) + Len(r)
    BY <1>0, <1>1, <1>3, <2>1 DEF Waiting
  <2> QED BY <2>2, <2>3 DEF Waiting, r
<1> QED BY <1>2, <1>3

\* The promise that the oldest instance stands for is next, the one that the
\* newest stands for is last.
LEMMA WaitEnds ==
    ASSUME NEW f, NEW q \in Seq(Instances), NEW s \in Seq(Asks), NEW l \in Seq(Entries),
           Waiting(f, q, s, l), q # <<>>
    PROVE  /\ Contract!Count(f, s) > Contract!Count(f, l)
           /\ \E i : /\ i \in Contract!Of(f, s) /\ Rank(f, s, i) = Contract!Count(f, l)
                     /\ Stands(q[1], s[i]) /\ (Ordered => q[1].order = i)
                     /\ \A k \in Contract!Of(f, s) : Rank(f, s, k) = Contract!Count(f, l) => k = i
           /\ \E i : /\ i \in Contract!Of(f, s) /\ Rank(f, s, i) + 1 = Contract!Count(f, s)
                     /\ Stands(q[Len(q)], s[i]) /\ (Ordered => q[Len(q)].order = i)
                     /\ \A k \in Contract!Of(f, s) : k <= i
<1>0. /\ Contract!Count(f, s) \in Nat /\ Contract!Count(f, l) \in Nat
      /\ Len(q) \in Nat /\ Len(q) > 0
      /\ \A i : Rank(f, s, i) \in Nat
  <2>1. Contract!Count(f, s) \in Nat /\ \A i : Rank(f, s, i) \in Nat
    BY OfIsFinite, Zenon
  <2>2. Contract!Count(f, l) \in Nat
    BY OfIsFinite
  <2> QED BY <2>1, <2>2
<1>1. Contract!Count(f, s) > Contract!Count(f, l)
  BY <1>0 DEF Waiting
<1>2. PICK i : StandsFor(f, q, 1, s, l, i)
  BY <1>0 DEF Waiting
<1>3. i \in Contract!Of(f, s) /\ Rank(f, s, i) = Contract!Count(f, l)
  BY <1>0, <1>2 DEF StandsFor
<1>4. \A k \in Contract!Of(f, s) : Rank(f, s, k) = Contract!Count(f, l) => k = i
  BY <1>3, RanksGrow
<1>5. PICK n : StandsFor(f, q, Len(q), s, l, n)
  BY <1>0 DEF Waiting
<1>6. n \in Contract!Of(f, s) /\ Rank(f, s, n) + 1 = Contract!Count(f, s)
  BY <1>0, <1>5 DEF StandsFor, Waiting
<1>7. \A k \in Contract!Of(f, s) : k <= n
  BY <1>6, RanksGrow
<1> QED BY <1>1, <1>2, <1>3, <1>4, <1>5, <1>6, <1>7 DEF StandsFor

\* The last promise is changed as the newest instance is.
LEMMA AmendedRanks ==
    ASSUME NEW s \in Seq(Asks), NEW i \in DOMAIN s, NEW p \in Asks, p.fn = s[i].fn,
           NEW t, Changed(t, s, i, p)
    PROVE  /\ t \in Seq(Asks) /\ Len(t) = Len(s) /\ DOMAIN t = DOMAIN s
           /\ \A k \in DOMAIN s : t[k] = IF k = i THEN p ELSE s[k]
           /\ SameFuncs(t, s)
<1>1. t \in Seq(Asks) /\ Len(t) = Len(s) /\ DOMAIN t = DOMAIN s
  BY DEF Changed
<1>2. \A k \in DOMAIN s : t[k] = IF k = i THEN p ELSE s[k]
  BY DEF Changed
<1>3. SameFuncs(t, s)
  BY <1>1, <1>2 DEF SameFuncs
<1> QED BY <1>1, <1>2, <1>3

LEMMA WaitAmend ==
    ASSUME NEW f, NEW q \in Seq(Instances), NEW s \in Seq(Asks), NEW l \in Seq(Entries),
           Waiting(f, q, s, l), NEW i \in DOMAIN s, NEW p \in Asks, p.fn = s[i].fn,
           NEW t, Changed(t, s, i, p)
    PROVE  /\ p.fn # f => Waiting(f, q, t, l)
           /\ \A inst \in Instances :
                (/\ p.fn = f /\ q # <<>> /\ Stands(inst, p) /\ inst.order = q[Len(q)].order
                 /\ Rank(f, s, i) + 1 = Contract!Count(f, s)) =>
                    Waiting(f, [q EXCEPT ![Len(q)] = inst], t, l)
<1>0. /\ Contract!Count(f, s) \in Nat /\ Contract!Count(f, l) \in Nat /\ Len(q) \in Nat
      /\ \A k : Rank(f, s, k) \in Nat
  <2>1. Contract!Count(f, s) \in Nat /\ \A k : Rank(f, s, k) \in Nat
    BY OfIsFinite, Zenon
  <2>2. Contract!Count(f, l) \in Nat
    BY OfIsFinite
  <2> QED BY <2>1, <2>2
<1>1. /\ Contract!Of(f, t) = Contract!Of(f, s)
      /\ Contract!Count(f, t) = Contract!Count(f, s)
      /\ \A k : Rank(f, t, k) = Rank(f, s, k)
      /\ \A k \in DOMAIN s : t[k] = IF k = i THEN p ELSE s[k]
  <2>1. SameFuncs(t, s) /\ \A k \in DOMAIN s : t[k] = IF k = i THEN p ELSE s[k]
    BY AmendedRanks
  <2> QED BY <2>1, SameCounts, SameRanks
<1>2. Contract!Of(f, s) = {k \in DOMAIN s : s[k].fn = f}
  BY DEF Contract!Of
<1>3. ASSUME p.fn # f PROVE Waiting(f, q, t, l)
  <2>1. \A k \in Contract!Of(f, s) : t[k] = s[k]
    BY <1>1, <1>2, <1>3
  <2> QED BY <1>1, <2>1 DEF Waiting, StandsFor
<1>4. ASSUME NEW inst \in Instances, p.fn = f, q # <<>>, Stands(inst, p),
             inst.order = q[Len(q)].order, Rank(f, s, i) + 1 = Contract!Count(f, s)
      PROVE  Waiting(f, [q EXCEPT ![Len(q)] = inst], t, l)
  <2> DEFINE r == [q EXCEPT ![Len(q)] = inst]
  <2>1. Len(r) = Len(q) /\ \A j \in 1 .. Len(q) : r[j] = IF j = Len(q) THEN inst ELSE q[j]
    OBVIOUS
  <2> HIDE DEF r
  <2>2. i \in Contract!Of(f, s)
    BY <1>2, <1>4
  <2>3. ASSUME NEW j \in 1 .. Len(q) PROVE \E k : StandsFor(f, r, j, t, l, k)
    <3>1. PICK k : StandsFor(f, q, j, s, l, k)
      BY DEF Waiting
    <3>2. CASE j = Len(q)
      <4>1. Rank(f, s, k) = Rank(f, s, i)
        BY <1>0, <1>4, <3>1, <3>2 DEF StandsFor, Waiting
      <4>2. k = i
        BY <2>2, <3>1, <4>1, RanksGrow DEF StandsFor
      <4>3. t[k] = p /\ r[j] = inst /\ inst.order = q[j].order
        BY <1>1, <1>4, <2>1, <3>2, <4>2
      <4> QED BY <1>1, <1>4, <3>1, <4>3 DEF StandsFor
    <3>3. CASE j # Len(q)
      <4>1. k # i
        BY <1>0, <1>4, <3>1, <3>3 DEF StandsFor, Waiting
      <4>2. t[k] = s[k] /\ r[j] = q[j]
        BY <1>1, <1>2, <2>1, <3>1, <3>3, <4>1 DEF StandsFor
      <4> QED BY <1>1, <3>1, <4>2 DEF StandsFor
    <3> QED BY <3>2, <3>3
  <2> QED BY <1>1, <2>1, <2>3 DEF Waiting, r
<1> QED BY <1>3, <1>4

LEMMA WaitSame ==
    ASSUME NEW f, NEW q, NEW s, NEW l, Waiting(f, q, s, l), NEW m, SameFuncs(m, l)
    PROVE  Waiting(f, q, s, m)
<1>1. Contract!Count(f, m) = Contract!Count(f, l)
  BY SameCounts
<1> QED BY <1>1 DEF Waiting, StandsFor

-----------------------------------------------------------------------------
(* Callbacks in progress.                                                  *)

\* Frame fr runs the callback of the call that promise i was made for.
RunsFor(fr, s, l, i) ==
    /\ i \in Contract!Of(fr.fn, s)
    /\ Rank(fr.fn, s, i) = Rank(fr.fn, l, fr.at)
    /\ s[i].throws = fr.inst.throws /\ s[i].out = fr.inst.out

\* The call a frame answers is logged and not answered yet.
Pending(fr, s, l) ==
    fr.at # 0 =>
        /\ fr.at \in DOMAIN l /\ ~fr.stub
        /\ l[fr.at].fn = fr.fn /\ l[fr.at].state = "open" /\ l[fr.at].arg = fr.inst.arg
        /\ \E i : RunsFor(fr, s, l, i)

LEMMA PendPromise ==
    ASSUME NEW fr, NEW s \in Seq(Asks), NEW l, Pending(fr, s, l),
           NEW p \in Asks, NEW t, Extended(t, s, p)
    PROVE  Pending(fr, t, l)
<1> SUFFICES ASSUME fr.at # 0, NEW i, RunsFor(fr, s, l, i)
             PROVE  RunsFor(fr, t, l, i)
  BY DEF Pending
<1>1. i \in Contract!Of(fr.fn, s) /\ Contract!Of(fr.fn, s) \subseteq 1 .. Len(s)
  BY OfIsFinite DEF RunsFor
<1>2. i \in 1 .. Len(s) + 1 /\ i \in 1 .. Len(s)
  BY <1>1
<1>3. Rank(fr.fn, t, i) = Rank(fr.fn, s, i)
  BY <1>2, RankKept
<1>4. t[i] = s[i]
  BY <1>2 DEF Extended
<1>5. i \in Contract!Of(fr.fn, t)
  BY <1>1, RankAppend
<1> QED BY <1>3, <1>4, <1>5 DEF RunsFor

LEMMA PendLog ==
    ASSUME NEW fr, NEW s, NEW l \in Seq(Entries), Pending(fr, s, l),
           NEW e \in Entries, NEW m, Extended(m, l, e)
    PROVE  Pending(fr, s, m)
<1>1. DOMAIN m = 1 .. Len(l) + 1 /\ DOMAIN l = 1 .. Len(l) /\ \A i \in DOMAIN l : m[i] = l[i]
  BY DEF Extended
<1> SUFFICES ASSUME fr.at # 0 PROVE Pending(fr, s, m)
  BY DEF Pending
<1>2. fr.at \in DOMAIN l /\ fr.at \in DOMAIN m /\ m[fr.at] = l[fr.at]
  BY <1>1 DEF Pending
<1>3. Rank(fr.fn, m, fr.at) = Rank(fr.fn, l, fr.at)
  <2>1. fr.at \in 1 .. Len(l) + 1
    BY <1>1, <1>2
  <2> QED BY <2>1, RankKept
<1> QED BY <1>2, <1>3 DEF Pending, RunsFor

LEMMA PendSame ==
    ASSUME NEW fr, NEW s, NEW l, Pending(fr, s, l), NEW m, SameFuncs(m, l),
           fr.at # 0 => m[fr.at] = l[fr.at]
    PROVE  Pending(fr, s, m)
<1>1. Rank(fr.fn, m, fr.at) = Rank(fr.fn, l, fr.at)
  BY SameRanks
<1> QED BY <1>1 DEF Pending, RunsFor, SameFuncs

\* What waits is not what is answered.
LEMMA PendAmend ==
    ASSUME NEW fr, NEW s \in Seq(Asks), NEW l \in Seq(Entries), Pending(fr, s, l),
           NEW i \in DOMAIN s, NEW p \in Asks, p.fn = s[i].fn, NEW t, Changed(t, s, i, p),
           Rank(p.fn, s, i) + 1 = Contract!Count(p.fn, s),
           Contract!Count(p.fn, s) > Contract!Count(p.fn, l)
    PROVE  Pending(fr, t, l)
<1> SUFFICES ASSUME fr.at # 0, NEW k, RunsFor(fr, s, l, k)
             PROVE  RunsFor(fr, t, l, k)
  BY DEF Pending
<1>1. fr.at \in Contract!Of(fr.fn, l)
  BY DEF Pending, Contract!Of
<1>2. Rank(fr.fn, l, fr.at) < Contract!Count(fr.fn, l)
  BY <1>1, RanksGrow
<1>3. k # i
  <2> SUFFICES ASSUME k = i PROVE FALSE
    OBVIOUS
  <2>1. fr.fn = p.fn
    BY DEF RunsFor, Contract!Of
  <2>2. Rank(p.fn, s, i) < Contract!Count(p.fn, l)
    BY <1>2, <2>1 DEF RunsFor
  <2>3. /\ Contract!Count(p.fn, s) \in Nat /\ Rank(p.fn, s, i) \in Nat
    BY OfIsFinite
  <2>4. Contract!Count(p.fn, l) \in Nat
    BY OfIsFinite
  <2> QED BY <2>2, <2>3, <2>4
<1>4. SameFuncs(t, s) /\ (k \in DOMAIN s => t[k] = s[k])
  BY <1>3, AmendedRanks
<1>5. Contract!Of(fr.fn, t) = Contract!Of(fr.fn, s) /\ Rank(fr.fn, t, k) = Rank(fr.fn, s, k)
  BY <1>4, SameCounts, SameRanks
<1>6. k \in DOMAIN s
  BY DEF RunsFor, Contract!Of
<1> QED BY <1>4, <1>5, <1>6 DEF RunsFor

LEMMA PendNew ==
    ASSUME NEW fr, NEW s, NEW l \in Seq(Entries), NEW e \in Entries, NEW m, Extended(m, l, e),
           fr.at = Len(l) + 1, ~fr.stub, e.fn = fr.fn, e.state = "open", e.arg = fr.inst.arg,
           NEW i \in Contract!Of(fr.fn, s), Rank(fr.fn, s, i) = Contract!Count(fr.fn, l),
           s[i].throws = fr.inst.throws, s[i].out = fr.inst.out
    PROVE  Pending(fr, s, m)
<1>1. Len(l) + 1 \in DOMAIN m /\ m[Len(l) + 1] = e
  BY DEF Extended
<1>2. Rank(fr.fn, m, Len(l) + 1) = Contract!Count(fr.fn, l)
  BY RankAppend
<1> QED BY <1>1, <1>2 DEF Pending, RunsFor

\* Every callback in progress answers a call of its own, and every call that
\* is not answered has a callback in progress.
Framed(st, s, l) ==
    /\ \A k \in DOMAIN st : Pending(st[k], s, l) /\ (st[k].fn \in Strict => st[k].at # 0)
    /\ \A k, j \in DOMAIN st : k # j /\ st[k].at # 0 => st[k].at # st[j].at
    /\ \A i \in DOMAIN l : l[i].state = "open" => \E k \in DOMAIN st : st[k].at = i

LEMMA FramedPromise ==
    ASSUME NEW st, NEW s \in Seq(Asks), NEW l, Framed(st, s, l),
           NEW p \in Asks, NEW t, Extended(t, s, p)
    PROVE  Framed(st, t, l)
<1>1. \A k \in DOMAIN st : Pending(st[k], t, l)
  BY PendPromise DEF Framed
<1> QED BY <1>1 DEF Framed

LEMMA FramedAmend ==
    ASSUME NEW st, NEW s \in Seq(Asks), NEW l \in Seq(Entries), Framed(st, s, l),
           NEW i \in DOMAIN s, NEW p \in Asks, p.fn = s[i].fn, NEW t, Changed(t, s, i, p),
           Rank(p.fn, s, i) + 1 = Contract!Count(p.fn, s),
           Contract!Count(p.fn, s) > Contract!Count(p.fn, l)
    PROVE  Framed(st, t, l)
<1>1. \A k \in DOMAIN st : Pending(st[k], t, l)
  BY PendAmend DEF Framed
<1> QED BY <1>1 DEF Framed

\* A call is answered at once.
LEMMA FramedLog ==
    ASSUME NEW st, NEW s, NEW l \in Seq(Entries), Framed(st, s, l),
           NEW e \in Entries, e.state # "open", NEW m, Extended(m, l, e)
    PROVE  Framed(st, s, m)
<1>1. \A k \in DOMAIN st : Pending(st[k], s, m)
  BY PendLog DEF Framed
<1>2. \A i \in DOMAIN m : (i \in DOMAIN l /\ m[i] = l[i]) \/ m[i] = e
  BY DEF Extended
<1>3. \A i \in DOMAIN m : m[i].state = "open" => \E k \in DOMAIN st : st[k].at = i
  BY <1>2 DEF Framed
<1> QED BY <1>1, <1>3 DEF Framed

\* A stub starts, or the callback of a function the promise is not about.
LEMMA FramedStub ==
    ASSUME NEW st \in Seq(Frames), NEW s, NEW l, Framed(st, s, l),
           NEW fr \in Frames, fr.at = 0, fr.fn \notin Strict
    PROVE  Framed(Append(st, fr), s, l)
<1> DEFINE u == Append(st, fr)
<1>1. /\ \A k \in DOMAIN u : (k \in DOMAIN st /\ u[k] = st[k]) \/ u[k] = fr
      /\ \A k \in DOMAIN st : k \in DOMAIN u /\ u[k] = st[k]
      /\ \A k, j \in DOMAIN u : k # j => (k \in DOMAIN st \/ j \in DOMAIN st)
  OBVIOUS
<1> HIDE DEF u
<1>2. Pending(fr, s, l)
  BY DEF Pending
<1>3. \A k \in DOMAIN u : Pending(u[k], s, l) /\ (u[k].fn \in Strict => u[k].at # 0)
  BY <1>1, <1>2 DEF Framed
<1>4. \A k, j \in DOMAIN u : k # j /\ u[k].at # 0 => u[k].at # u[j].at
  BY <1>1 DEF Framed
<1>5. \A i \in DOMAIN l : l[i].state = "open" => \E k \in DOMAIN u : u[k].at = i
  BY <1>1 DEF Framed
<1> QED BY <1>3, <1>4, <1>5 DEF Framed, u

\* A callback starts.
LEMMA FramedOpen ==
    ASSUME NEW st \in Seq(Frames), NEW s, NEW l \in Seq(Entries), Framed(st, s, l),
           NEW e \in Entries, NEW m, Extended(m, l, e),
           NEW fr \in Frames, fr.at = Len(l) + 1, Pending(fr, s, m)
    PROVE  Framed(Append(st, fr), s, m)
<1> DEFINE u == Append(st, fr)
           n == Len(st) + 1
<1>1. /\ DOMAIN u = DOMAIN st \cup {n} /\ n \notin DOMAIN st /\ u[n] = fr
      /\ \A k \in DOMAIN st : u[k] = st[k]
  OBVIOUS
<1> HIDE DEF u, n
<1>2. DOMAIN m = DOMAIN l \cup {Len(l) + 1} /\ \A i \in DOMAIN l : m[i] = l[i]
  BY DEF Extended
<1>3. Len(l) + 1 \notin DOMAIN l /\ Len(l) + 1 # 0
  OBVIOUS
<1>4. \A k \in DOMAIN st : st[k].at # Len(l) + 1
  BY <1>3 DEF Framed, Pending
<1>5. \A k \in DOMAIN u : Pending(u[k], s, m) /\ (u[k].fn \in Strict => u[k].at # 0)
  <2>1. \A k \in DOMAIN st : Pending(st[k], s, m)
    BY PendLog DEF Framed
  <2> QED BY <1>1, <1>3, <2>1 DEF Framed
<1>6. \A k, j \in DOMAIN u : k # j /\ u[k].at # 0 => u[k].at # u[j].at
  BY <1>1, <1>4 DEF Framed
<1>7. \A i \in DOMAIN m : m[i].state = "open" => \E k \in DOMAIN u : u[k].at = i
  BY <1>1, <1>2 DEF Framed
<1> QED BY <1>5, <1>6, <1>7 DEF Framed, u

\* The callbacks above a place of the stack end, and so do the calls they answer.
Ends(m, l, st, k) ==
    /\ SameFuncs(m, l)
    /\ \A i \in DOMAIN l :
         \/ \E j \in k + 1 .. Len(st) : st[j].at = i /\ m[i].state # "open"
         \/ m[i] = l[i] /\ \A j \in k + 1 .. Len(st) : st[j].at = i => l[i].state # "open"

LEMMA FramedEnds ==
    ASSUME NEW st \in Seq(Frames), NEW s, NEW l, Framed(st, s, l),
           NEW k \in 0 .. Len(st), NEW m, Ends(m, l, st, k)
    PROVE  Framed(SubSeq(st, 1, k), s, m)
<1> DEFINE u == SubSeq(st, 1, k)
<1>1. DOMAIN u = 1 .. k /\ DOMAIN st = 1 .. Len(st) /\ \A j \in 1 .. k : u[j] = st[j]
  OBVIOUS
<1>2. /\ \A j \in 1 .. k : j \in 1 .. Len(st) /\ j \notin k + 1 .. Len(st)
      /\ \A j \in 1 .. Len(st) : j \in 1 .. k \/ j \in k + 1 .. Len(st)
      /\ k + 1 .. Len(st) \subseteq 1 .. Len(st)
  OBVIOUS
<1> HIDE DEF u
<1>3. DOMAIN m = DOMAIN l
  BY DEF Ends, SameFuncs
<1>4. ASSUME NEW j \in 1 .. k, st[j].at # 0 PROVE m[st[j].at] = l[st[j].at]
  <2>1. st[j].at \in DOMAIN l
    BY <1>1, <1>2, <1>4 DEF Framed, Pending
  <2>2. \A i \in k + 1 .. Len(st) : st[i].at # st[j].at
    BY <1>1, <1>2, <1>4 DEF Framed
  <2> QED BY <2>1, <2>2 DEF Ends
<1>5. \A j \in DOMAIN u : Pending(u[j], s, m) /\ (u[j].fn \in Strict => u[j].at # 0)
  <2>1. ASSUME NEW j \in 1 .. k PROVE Pending(st[j], s, m)
    <3>1. Pending(st[j], s, l) /\ SameFuncs(m, l)
      BY <1>1, <1>2 DEF Framed, Ends
    <3> QED BY <1>4, <3>1, PendSame
  <2> QED BY <1>1, <1>2, <2>1 DEF Framed
<1>6. \A j, i \in DOMAIN u : j # i /\ u[j].at # 0 => u[j].at # u[i].at
  BY <1>1, <1>2 DEF Framed
<1>7. \A i \in DOMAIN m : m[i].state = "open" => \E j \in DOMAIN u : u[j].at = i
  <2> SUFFICES ASSUME NEW i \in DOMAIN l, m[i].state = "open"
               PROVE  \E j \in 1 .. k : st[j].at = i
    BY <1>1, <1>3
  <2>1. l[i].state = "open" /\ \A j \in k + 1 .. Len(st) : st[j].at # i
    BY DEF Ends
  <2>2. PICK j \in 1 .. Len(st) : st[j].at = i
    BY <1>1, <2>1 DEF Framed
  <2> QED BY <1>2, <2>1, <2>2
<1> QED BY <1>5, <1>6, <1>7 DEF Framed, u

-----------------------------------------------------------------------------
(* Functions that are never ignored or stubbed stay checked.               *)

LEMMA InterfaceStrict ==
    ASSUME Typed, StrictIsChecked, NEW f \in Funcs,
           \/ Expect(f) \/ IgnoreArg(f) \/ ReturnThruPtr(f) \/ Ignore(f)
           \/ IgnoreAndReturn(f) \/ IgnoreStateless(f) \/ StopIgnore(f) \/ Install(f)
    PROVE  StrictIsChecked'
<1>0. /\ mock \in [Funcs -> Mocks] /\ mock[f] \in Mocks
      /\ f \in Strict => ~mock[f].ignore /\ (mock[f].callback => mock[f].fixed)
  BY DEF Typed, MockType, StrictIsChecked
<1>1. ASSUME \A g \in Funcs \ {f} : mock'[g] = mock[g],
             f \in Strict => ~mock'[f].ignore /\ (mock'[f].callback => mock'[f].fixed)
      PROVE  StrictIsChecked'
  BY <1>1 DEF StrictIsChecked, Strict
<1>2. ASSUME UNCHANGED mock PROVE StrictIsChecked'
  BY <1>0, <1>1, <1>2
<1>3. ASSUME NEW inst, NEW ignore, Chain(f, inst, ignore), f \in Strict => ~ignore
      PROVE  StrictIsChecked'
  <2>1. mock'[f].callback = mock[f].callback /\ mock'[f].fixed = mock[f].fixed
    BY <1>0, <1>3 DEF Chain, Mocks
  <2>2. /\ \A g \in Funcs \ {f} : mock'[g] = mock[g]
        /\ mock'[f].ignore = ignore
    BY <1>3, ChainEffect
  <2> QED BY <1>0, <1>1, <1>3, <2>1, <2>2
<1>4. ASSUME NEW inst, SetNewest(f, inst)
      PROVE  StrictIsChecked'
  <2> DEFINE q == [mock[f].queue EXCEPT ![Len(mock[f].queue)] = inst]
  <2>1. mock' = [mock EXCEPT ![f] = [mock[f] EXCEPT !.queue = q]]
    BY <1>4 DEF SetNewest
  <2> HIDE DEF q
  <2>2. /\ \A g \in Funcs \ {f} : mock'[g] = mock[g]
        /\ mock'[f].ignore = mock[f].ignore
        /\ mock'[f].callback = mock[f].callback /\ mock'[f].fixed = mock[f].fixed
    BY <1>0, <2>1 DEF Mocks
  <2> QED BY <1>0, <1>1, <2>2
<1>5. CASE OutOfMemory(f)
  BY <1>2, <1>5 DEF OutOfMemory
<1>6. CASE Expect(f)
  BY <1>3, <1>5, <1>6 DEF Expect, AddExpectation
<1>7. CASE IgnoreArg(f)
  BY <1>2, <1>4, <1>7 DEF IgnoreArg
<1>8. CASE ReturnThruPtr(f)
  <2>1. Queues(f) => f \notin Strict
    BY <1>0 DEF Queues
  <2> QED BY <1>2, <1>3, <1>4, <1>5, <1>8, <2>1 DEF ReturnThruPtr
<1>9. CASE Ignore(f) \/ IgnoreAndReturn(f) \/ IgnoreStateless(f)
  <2>1. f \notin Strict
    BY <1>9 DEF Ignore, IgnoreAndReturn, IgnoreStateless, Strict
  <2>2. CASE Ignore(f)
    BY <1>0, <1>1, <2>1, <2>2 DEF Ignore
  <2>3. CASE IgnoreAndReturn(f)
    BY <1>3, <1>5, <2>1, <2>3 DEF IgnoreAndReturn
  <2>4. CASE IgnoreStateless(f)
    BY <1>0, <1>1, <2>1, <2>4 DEF IgnoreStateless, Kept
  <2> QED BY <1>9, <2>2, <2>3, <2>4
<1>10. CASE StopIgnore(f)
  <2> DEFINE q == IF StopDrops(f) THEN Rest(mock[f].queue) ELSE mock[f].queue
  <2>1. mock' = [mock EXCEPT ![f] = [mock[f] EXCEPT !.queue = q, !.ignore = FALSE]]
    BY <1>10 DEF StopIgnore
  <2> HIDE DEF q
  <2>2. /\ \A g \in Funcs \ {f} : mock'[g] = mock[g]
        /\ ~mock'[f].ignore
        /\ mock'[f].callback = mock[f].callback /\ mock'[f].fixed = mock[f].fixed
    BY <1>0, <2>1 DEF Mocks
  <2> QED BY <1>0, <1>1, <2>2
<1>11. CASE Install(f)
  <2>1. PICK fixed \in BOOLEAN, there \in BOOLEAN :
          /\ (IF fixed THEN "AddCallback" ELSE "Stub") \in Offers[f]
          /\ mock' = [mock EXCEPT ![f] = Installed(f, fixed, there)]
    BY <1>11 DEF Install
  <2>2. /\ \A g \in Funcs \ {f} : mock'[g] = mock[g]
        /\ mock'[f].ignore = (mock[f].ignore /\ Ignoring # "ignore")
        /\ mock'[f].fixed = fixed
    BY <1>0, <2>1 DEF Installed, Mocks
  <2>3. f \in Strict => fixed
    BY <2>1 DEF Strict
  <2> QED BY <1>0, <1>1, <2>2, <2>3
<1> QED BY <1>6, <1>7, <1>8, <1>9, <1>10, <1>11

LEMMA CallsStrict ==
    ASSUME Typed, StrictIsChecked, NEW f \in Funcs, NEW a \in Args,
           \/ CallIgnored(f, a) \/ CallStubbed(f, a) \/ CallsBack(f, a)
           \/ CallFails(f, a) \/ CallReturns(f, a) \/ CallThrows(f, a)
    PROVE  StrictIsChecked'
<1>0. mock \in [Funcs -> Mocks] /\ Popped(f) \in [Funcs -> Mocks]
  BY PoppedType DEF Typed, MockType
<1>1. \A g \in Funcs : /\ Popped(f)[g].ignore = mock[g].ignore
                       /\ Popped(f)[g].callback = mock[g].callback
                       /\ Popped(f)[g].fixed = mock[g].fixed
  <2>1. Popped(f) = [mock EXCEPT ![f] = [mock[f] EXCEPT !.queue = Rest(mock[f].queue)]]
    BY PoppedType
  <2> QED BY <1>0, <2>1 DEF Mocks
<1>2. \/ mock' = Popped(f)
      \/ \E x : mock' = [Popped(f) EXCEPT ![f].final = x] \/ mock' = [Popped(f) EXCEPT ![f].calls = x]
  <2>1. CASE CallIgnored(f, a)
    BY <2>1 DEF CallIgnored
  <2>2. CASE CallStubbed(f, a) \/ CallsBack(f, a)
    BY <2>2 DEF CallStubbed, CallsBack, Enter
  <2>3. CASE CallFails(f, a) \/ CallReturns(f, a) \/ CallThrows(f, a)
    BY <2>3 DEF CallFails, CallReturns, CallThrows
  <2> QED BY <2>1, <2>2, <2>3
<1>3. \A g \in Funcs : /\ mock'[g].ignore = mock[g].ignore
                       /\ mock'[g].callback = mock[g].callback
                       /\ mock'[g].fixed = mock[g].fixed
  BY <1>0, <1>1, <1>2 DEF Mocks
<1> QED BY <1>3 DEF StrictIsChecked, Strict

LEMMA NextStrict == ASSUME Typed, StrictIsChecked, [Next]_vars PROVE StrictIsChecked'
<1>1. CASE UNCHANGED mock
  BY <1>1 DEF StrictIsChecked, Strict
<1>2. CASE NextTest
  <2>1. \A f \in Funcs : mock'[f] = Cleared
    BY <1>2 DEF NextTest, AllCleared
  <2>2. Strict \subseteq Funcs
    BY DEF Strict
  <2> QED BY <2>1, <2>2, ClearedIsChecked DEF StrictIsChecked
<1>3. CASE EndBody \/ Verify \/ StubReturns \/ CallbackReturns \/ CallbackThrows \/ UNCHANGED vars
  BY <1>1, <1>3 DEF EndBody, Verify, StubReturns, CallbackReturns, CallbackThrows, vars
<1> QED BY <1>2, <1>3, InterfaceStrict, CallsStrict DEF Next

-----------------------------------------------------------------------------
(* The invariant, and what it says of the next step of the contract.       *)

RunnerInv ==
    /\ verdict = "passed" => phase = "over"
    /\ phase = "over" => stack = <<>> /\ verdict # "running"
    /\ verdict = "running" => offender = Nothing
    /\ verdict # "running" => \A k \in DOMAIN stack : stack[k].at = 0

\* While the test runs, calls and expectations agree.
RunningInv ==
    verdict = "running" =>
        /\ Framed(stack, promised, log)
        /\ \A f \in Strict : Waiting(f, mock[f].queue, promised, log)
        /\ Ordered => verifyOrder = Len(log) /\ expectCount = Len(promised)

Tracked == promised \in Seq(Asks) /\ RunnerInv /\ RunningInv
ContractInv == Typed /\ StrictIsChecked /\ (Ordered => OrderInv) /\ Tracked

\* A step of the contract, or none.
Simulated == Contract!MCNext \/ UNCHANGED <<promised, log, verdict, offender>>

LEMMA NextIs ==
    ASSUME promised \in Seq(Asks), log \in Seq(Entries), NEW f, NEW q \in Seq(Instances),
           Waiting(f, q, promised, log)
    PROVE  /\ q = <<>> => Contract!NextOf(f) = {}
           /\ q # <<>> => \E i : /\ Contract!NextOf(f) = {i}
                                 /\ i \in Contract!Of(f, promised)
                                 /\ Rank(f, promised, i) = Contract!Count(f, log)
                                 /\ Stands(q[1], promised[i])
                                 /\ Ordered => q[1].order = i
<1>1. Contract!NextOf(f) =
        {i \in Contract!Of(f, promised) : Rank(f, promised, i) = Contract!Count(f, log)}
  BY SameCardinality DEF Contract!NextOf, Rank
<1>2. ASSUME q = <<>> PROVE Contract!NextOf(f) = {}
  <2>1. Contract!Count(f, promised) = Contract!Count(f, log)
    <3>1. Len(q) = 0 /\ Contract!Count(f, log) \in Nat
      BY <1>2, OfIsFinite
    <3> QED BY <3>1 DEF Waiting
  <2>2. \A i \in Contract!Of(f, promised) : Rank(f, promised, i) < Contract!Count(f, promised)
    BY RanksGrow
  <2>3. Contract!Count(f, promised) \in Nat
    BY OfIsFinite
  <2> QED BY <1>1, <2>1, <2>2, <2>3
<1>3. ASSUME q # <<>>
      PROVE  \E i : /\ Contract!NextOf(f) = {i}
                    /\ i \in Contract!Of(f, promised)
                    /\ Rank(f, promised, i) = Contract!Count(f, log)
                    /\ Stands(q[1], promised[i])
                    /\ Ordered => q[1].order = i
  <2>1. PICK i : /\ i \in Contract!Of(f, promised)
                 /\ Rank(f, promised, i) = Contract!Count(f, log)
                 /\ Stands(q[1], promised[i]) /\ (Ordered => q[1].order = i)
                 /\ \A k \in Contract!Of(f, promised) :
                        Rank(f, promised, k) = Contract!Count(f, log) => k = i
    BY <1>3, WaitEnds
  <2>2. Contract!NextOf(f) = {i}
    BY <1>1, <2>1
  <2> QED BY <2>1, <2>2
<1> QED BY <1>2, <1>3

LEMMA NewestIs ==
    ASSUME promised \in Seq(Asks), log \in Seq(Entries), NEW f, NEW q \in Seq(Instances),
           Waiting(f, q, promised, log), q # <<>>
    PROVE  \E i : /\ i \in Contract!NewestOf(f) /\ i \in Contract!Of(f, promised)
                  /\ Rank(f, promised, i) + 1 = Contract!Count(f, promised)
                  /\ Contract!Count(f, promised) > Contract!Count(f, log)
                  /\ Stands(q[Len(q)], promised[i])
                  /\ \A k \in Contract!Of(f, promised) : k <= i
<1>1. Contract!Count(f, promised) > Contract!Count(f, log)
  BY WaitEnds
<1>2. PICK i : /\ i \in Contract!Of(f, promised)
               /\ Rank(f, promised, i) + 1 = Contract!Count(f, promised)
               /\ Stands(q[Len(q)], promised[i]) /\ (Ordered => q[Len(q)].order = i)
               /\ \A k \in Contract!Of(f, promised) : k <= i
  BY WaitEnds
<1>3. i \in Contract!NewestOf(f)
  BY <1>1, <1>2 DEF Contract!NewestOf
<1> QED BY <1>1, <1>2, <1>3

\* The contract finds the promise that a callback in progress runs for.
LEMMA PromiseIs ==
    ASSUME promised \in Seq(Asks), NEW fr, Pending(fr, promised, log), fr.at # 0
    PROVE  LET i == Contract!PromiseOf(fr.at)
           IN  /\ i \in DOMAIN promised /\ promised[i].fn = fr.fn
               /\ promised[i].throws = fr.inst.throws /\ promised[i].out = fr.inst.out
<1>1. PICK i : RunsFor(fr, promised, log, i)
  BY DEF Pending
<1>2. log[fr.at].fn = fr.fn
  BY DEF Pending
<1>3. \A j \in Contract!Of(fr.fn, promised) :
        Rank(fr.fn, promised, j) = Rank(fr.fn, log, fr.at) => j = i
  BY <1>1, RanksGrow DEF RunsFor
<1>4. Contract!PromiseOf(fr.at) =
        CHOOSE j \in Contract!Of(fr.fn, promised) :
            Rank(fr.fn, promised, j) = Rank(fr.fn, log, fr.at)
  BY <1>2, SameCardinality DEF Contract!PromiseOf, Rank
<1>5. Contract!PromiseOf(fr.at) = i
  BY <1>1, <1>3, <1>4 DEF RunsFor
<1> QED BY <1>1, <1>5 DEF RunsFor, Contract!Of

-----------------------------------------------------------------------------
(* Steps that fail the test or leave the contract alone.                   *)

LEMMA FailStep ==
    ASSUME ContractInv, NEW f, NEW a, NEW why, Fail(f, a, why), phase # "over",
           verdict = "running" =>
             \/ /\ why \in {"more", "early", "late", "mismatch", "null"}
                /\ f \in Strict =>
                     \/ ~Contract!Servable(f, a)
                     \/ \E i \in Contract!Open :
                          /\ log[i].fn = f
                          /\ Contract!NeedsPointer(promised[Contract!PromiseOf(i)], log[i].arg)
             \/ why = "less" /\ (f \in Strict => Contract!NewestOf(f) # {})
             \/ why \in {"memory", "misuse"}
    PROVE  Tracked' /\ Simulated
<1>1. /\ verdict' = "failed" /\ stack' = <<>> /\ promised' = promised /\ log' = log
      /\ offender' = IF verdict = "failed" THEN offender ELSE Failed(f, a, why)
  BY DEF Fail
<1>2. Tracked'
  BY <1>1 DEF ContractInv, Tracked, RunnerInv, RunningInv
<1>3. verdict \in {"running", "failed"}
  BY DEF ContractInv, Typed, RunnerType, Tracked, RunnerInv
<1>4. CASE verdict = "running"
  <2>1. offender'.why = why /\ offender'.fn = f /\ offender'.arg = a
    BY <1>1, <1>4 DEF Failed
  <2>2. Contract!Refuse
    BY <1>1, <1>4, <2>1 DEF Contract!Refuse
  <2> QED BY <1>2, <2>2 DEF Simulated, Contract!MCNext
<1>5. CASE verdict = "failed"
  BY <1>1, <1>2, <1>5 DEF Simulated
<1> QED BY <1>3, <1>4, <1>5

LEMMA StillStep ==
    ASSUME ContractInv, UNCHANGED <<promised, log, verdict, offender>>,
           phase # "over", phase' # "over",
           verdict = "running" => Framed(stack', promised, log),
           verdict # "running" => \A k \in DOMAIN stack' : stack'[k].at = 0,
           verdict = "running" => \A f \in Strict : mock'[f].queue = mock[f].queue,
           verdict = "running" /\ Ordered => UNCHANGED order
    PROVE  Tracked' /\ Simulated
<1>1. RunnerInv'
  BY DEF ContractInv, Tracked, RunnerInv, Nothing
<1>2. RunningInv'
  BY DEF ContractInv, Tracked, RunningInv, Strict, order
<1> QED BY <1>1, <1>2 DEF ContractInv, Tracked, Simulated

\* What the invariant says while the test runs.
LEMMA WhileRunning ==
    ASSUME ContractInv, verdict = "running"
    PROVE  /\ promised \in Seq(Asks) /\ log \in Seq(Entries) /\ stack \in Seq(Frames)
           /\ Framed(stack, promised, log)
           /\ \A f \in Strict : /\ f \in Funcs /\ mock[f].queue \in Seq(Instances)
                                /\ Waiting(f, mock[f].queue, promised, log)
                                /\ ~mock[f].ignore /\ (mock[f].callback => mock[f].fixed)
           /\ Ordered => verifyOrder = Len(log) /\ expectCount = Len(promised)
           /\ offender = Nothing
<1>1. Typed /\ StrictIsChecked /\ Tracked
  BY DEF ContractInv
<1>2. \A f \in Strict : /\ f \in Funcs /\ mock[f].queue \in Seq(Instances)
                        /\ ~mock[f].ignore /\ (mock[f].callback => mock[f].fixed)
  BY <1>1, QueueFacts DEF Strict, StrictIsChecked
<1>3. log \in Seq(Entries) /\ stack \in Seq(Frames)
  BY <1>1 DEF Typed, LogType, StackType
<1> QED BY <1>1, <1>2, <1>3 DEF Tracked, RunnerInv, RunningInv

LEMMA StackSteps ==
    ASSUME ContractInv, stack # <<>>
    PROVE  /\ phase # "over" /\ verdict \in {"running", "failed"}
           /\ Len(stack) - 1 \in 0 .. Len(stack) /\ Len(stack) \in DOMAIN stack
           /\ stack \in Seq(Frames) /\ Frame = stack[Len(stack)]
<1>1. phase # "over" /\ verdict \in {"running", "failed"}
  BY DEF ContractInv, Tracked, RunnerInv, Typed, RunnerType
<1>2. stack \in Seq(Frames)
  BY DEF ContractInv, Typed, StackType
<1> QED BY <1>1, <1>2 DEF Frame

LEMMA EndBodySteps == ASSUME ContractInv, EndBody PROVE Tracked' /\ Simulated
<1>1. /\ UNCHANGED <<promised, log, verdict, offender, stack, mock, order>>
      /\ phase = "body" /\ phase' = "teardown"
  BY DEF EndBody
<1>2. verdict = "running" => Framed(stack', promised, log)
  BY <1>1, WhileRunning
<1>3. verdict # "running" => \A k \in DOMAIN stack' : stack'[k].at = 0
  BY <1>1 DEF ContractInv, Tracked, RunnerInv
<1> QED BY <1>1, <1>2, <1>3, StillStep

LEMMA StubReturnsSteps == ASSUME ContractInv, StubReturns PROVE Tracked' /\ Simulated
<1>1. /\ UNCHANGED <<promised, log, verdict, offender, mock, order, phase>>
      /\ stack # <<>> /\ Frame.stub /\ stack' = SubSeq(stack, 1, Len(stack) - 1)
  BY DEF StubReturns, Below, runner
<1>2. /\ phase # "over" /\ Len(stack) - 1 \in 0 .. Len(stack)
      /\ Len(stack) \in DOMAIN stack /\ stack \in Seq(Frames) /\ Frame = stack[Len(stack)]
  BY <1>1, StackSteps
<1>3. ASSUME verdict = "running" PROVE Framed(stack', promised, log)
  <2>1. Framed(stack, promised, log) /\ log \in Seq(Entries)
    BY <1>3, WhileRunning
  <2>2. stack[Len(stack)].at = 0
    BY <1>1, <1>2, <2>1 DEF Framed, Pending
  <2>3. \A j \in Len(stack) - 1 + 1 .. Len(stack) : stack[j].at = 0
    <3>1. \A j \in Len(stack) - 1 + 1 .. Len(stack) : j = Len(stack)
      BY <1>2
    <3> QED BY <2>2, <3>1
  <2>4. Ends(log, log, stack, Len(stack) - 1)
    BY <2>1, <2>3 DEF Ends, SameFuncs
  <2> QED BY <1>1, <1>2, <2>1, <2>4, FramedEnds
<1>4. ASSUME verdict # "running", NEW k \in DOMAIN stack' PROVE stack'[k].at = 0
  <2>1. k \in DOMAIN stack /\ stack'[k] = stack[k]
    BY <1>1, <1>2
  <2> QED BY <1>4, <2>1 DEF ContractInv, Tracked, RunnerInv
<1> QED BY <1>1, <1>2, <1>3, <1>4, StillStep

\* A function that may be ignored or stubbed is no concern of the contract.
LEMMA SettingSteps ==
    ASSUME ContractInv, NEW f \in Funcs,
           Ignore(f) \/ IgnoreAndReturn(f) \/ IgnoreStateless(f) \/ StopIgnore(f) \/ Install(f)
    PROVE  Tracked' /\ Simulated
<1>0. /\ Typed /\ mock \in [Funcs -> Mocks] /\ mock[f] \in Mocks /\ Active
      /\ f \in Strict => ~mock[f].ignore
  BY DEF ContractInv, Typed, MockType, StrictIsChecked, Ignore, IgnoreAndReturn,
         IgnoreStateless, StopIgnore, Install
<1>1. phase # "over"
  BY <1>0 DEF Active
<1>2. CASE OutOfMemory(f)
  <2>1. Fail(f, NULL, "memory")
    BY <1>2 DEF OutOfMemory
  <2> QED BY <1>1, <2>1, FailStep
<1>3. ASSUME UNCHANGED <<order, stack, runner, promised, log>>,
             \A g \in Funcs \ {f} : mock'[g] = mock[g],
             f \in Strict => mock'[f].queue = mock[f].queue
      PROVE  Tracked' /\ Simulated
  <2>1. UNCHANGED <<promised, log, verdict, offender, stack, order, phase>>
    BY <1>3 DEF runner
  <2>2. verdict = "running" => Framed(stack', promised, log)
    BY <2>1, WhileRunning
  <2>3. verdict # "running" => \A k \in DOMAIN stack' : stack'[k].at = 0
    BY <2>1 DEF ContractInv, Tracked, RunnerInv
  <2>4. \A g \in Strict : mock'[g].queue = mock[g].queue
    BY <1>3 DEF Strict
  <2> QED BY <1>1, <2>1, <2>2, <2>3, <2>4, StillStep
<1>4. CASE Ignore(f) \/ IgnoreAndReturn(f) \/ IgnoreStateless(f)
  <2>1. f \notin Strict
    BY <1>4 DEF Ignore, IgnoreAndReturn, IgnoreStateless, Strict
  <2>2. CASE Ignore(f)
    BY <1>0, <1>3, <2>1, <2>2 DEF Ignore
  <2>3. CASE IgnoreAndReturn(f)
    <3>1. ASSUME NEW r \in Rets, Chain(f, [Blank EXCEPT !.ret = r], TRUE),
                 UNCHANGED <<stack, runner, promised, log, order>>
          PROVE  Tracked' /\ Simulated
      <4>1. \A g \in Funcs \ {f} : mock'[g] = mock[g]
        BY <1>0, <3>1, ChainEffect
      <4> QED BY <1>3, <2>1, <3>1, <4>1
    <3> QED BY <1>2, <2>3, <3>1 DEF IgnoreAndReturn
  <2>4. CASE IgnoreStateless(f)
    BY <1>0, <1>3, <2>1, <2>4 DEF IgnoreStateless, Kept
  <2> QED BY <1>4, <2>2, <2>3, <2>4
<1>5. CASE StopIgnore(f)
  <2> DEFINE q == IF StopDrops(f) THEN Rest(mock[f].queue) ELSE mock[f].queue
  <2>1. mock' = [mock EXCEPT ![f] = [mock[f] EXCEPT !.queue = q, !.ignore = FALSE]]
    BY <1>5 DEF StopIgnore
  <2>2. f \in Strict => q = mock[f].queue
    BY <1>0 DEF StopDrops
  <2> HIDE DEF q
  <2>3. mock'[f].queue = q /\ \A g \in Funcs \ {f} : mock'[g] = mock[g]
    BY <1>0, <2>1 DEF Mocks
  <2> QED BY <1>3, <1>5, <2>2, <2>3 DEF StopIgnore
<1>6. CASE Install(f)
  <2>1. PICK fixed \in BOOLEAN, there \in BOOLEAN : mock' = [mock EXCEPT ![f] = Installed(f, fixed, there)]
    BY <1>6 DEF Install
  <2>2. mock'[f].queue = mock[f].queue /\ \A g \in Funcs \ {f} : mock'[g] = mock[g]
    BY <1>0, <2>1 DEF Installed, Mocks
  <2> QED BY <1>3, <1>6, <2>2 DEF Install
<1> QED BY <1>4, <1>5, <1>6

\* Before the first call nothing waits.
LEMMA NothingWaits ==
    /\ \A f : Waiting(f, <<>>, <<>>, <<>>)
    /\ Framed(<<>>, <<>>, <<>>) /\ <<>> \in Seq(Asks) /\ <<>> \in Seq(Entries)
<1>1. <<>> \in Seq(Asks) /\ <<>> \in Seq(Entries) /\ Len(<<>>) = 0 /\ DOMAIN <<>> = {}
  OBVIOUS
<1>2. ASSUME NEW f PROVE Waiting(f, <<>>, <<>>, <<>>)
  <2>1. Contract!Count(f, <<>>) \in Nat
    BY <1>1, OfIsFinite
  <2> QED BY <1>1, <2>1 DEF Waiting
<1>3. Framed(<<>>, <<>>, <<>>)
  BY <1>1 DEF Framed
<1> QED BY <1>1, <1>2, <1>3

LEMMA NextTestSteps == ASSUME ContractInv, NextTest PROVE Tracked' /\ Simulated
<1>1. /\ promised' = <<>> /\ log' = <<>> /\ verdict' = "running" /\ offender' = Nothing
      /\ phase' = "body" /\ \A f \in Strict : mock'[f] = Cleared
      /\ expectCount' = 0 /\ verifyOrder' = 0 /\ stack' = <<>>
  BY DEF NextTest, AllCleared, Strict, ContractInv, Tracked, RunnerInv
<1>2. Contract!NewTest
  BY <1>1 DEF Contract!NewTest, Nothing
<1>3. RunningInv'
  <2>1. \A f \in Strict : mock'[f].queue = <<>>
    BY <1>1 DEF Cleared
  <2>2. Len(<<>>) = 0
    OBVIOUS
  <2>3. \A f \in Strict : Waiting(f, mock'[f].queue, promised', log')
    BY <1>1, <2>1, NothingWaits
  <2>4. Framed(stack', promised', log')
    BY <1>1, NothingWaits
  <2> QED BY <1>1, <2>2, <2>3, <2>4 DEF RunningInv, Strict
<1>4. promised' \in Seq(Asks) /\ RunnerInv'
  BY <1>1, NothingWaits DEF RunnerInv, Nothing
<1> QED BY <1>2, <1>3, <1>4 DEF Simulated, Contract!MCNext, Tracked, Asks

LEMMA UncheckedCallSteps ==
    ASSUME ContractInv, NEW f \in Funcs, NEW a \in Args, CallIgnored(f, a) \/ CallStubbed(f, a)
    PROVE  Tracked' /\ Simulated
<1>0. Typed /\ f \notin Strict /\ phase # "over" /\ UNCHANGED phase
  BY DEF ContractInv, StrictIsChecked, CallIgnored, CallStubbed, Stubbed, Active, runner, Enter
<1>1. UNCHANGED <<promised, log, verdict, offender, order>>
  BY DEF CallIgnored, CallStubbed, Enter, runner
<1>2. \A g \in Strict : mock'[g].queue = mock[g].queue
  BY <1>0, PopEffect DEF Strict
<1>3. CASE UNCHANGED stack
  <2>1. verdict = "running" => Framed(stack', promised, log)
    BY <1>3, WhileRunning
  <2>2. verdict # "running" => \A k \in DOMAIN stack' : stack'[k].at = 0
    BY <1>3 DEF ContractInv, Tracked, RunnerInv
  <2> QED BY <1>0, <1>1, <1>2, <2>1, <2>2, StillStep
<1>4. CASE CallStubbed(f, a)
  <2> DEFINE fr == [fn |-> f, inst |-> [Blank EXCEPT !.arg = a], at |-> 0, room |-> room,
                    stub |-> Stubbed(f), wanted |-> Wanted(f)]
  <2>1. stack' = Append(stack, fr) /\ stack \in Seq(Frames)
    BY <1>0, <1>4 DEF CallStubbed, Enter, Typed, StackType
  <2>2. fr.at = 0 /\ fr.fn = f
    OBVIOUS
  <2>3. fr \in Frames
    <3>1. [Blank EXCEPT !.arg = a] \in Instances /\ room \in Nat /\ Wanted(f) \in Rets
      BY <1>0, StartTypes, TookType DEF Typed, MemoryType, Instances
    <3>2. Stubbed(f) \in BOOLEAN
      BY <1>0 DEF Stubbed, Typed, MockType, Mocks
    <3> QED BY <3>1, <3>2 DEF Frames
  <2> HIDE DEF fr
  <2>4. verdict = "running" => Framed(stack', promised, log)
    BY <1>0, <2>1, <2>2, <2>3, WhileRunning, FramedStub
  <2>5. verdict # "running" => \A k \in DOMAIN stack' : stack'[k].at = 0
    <3>1. \A k \in DOMAIN stack' : (k \in DOMAIN stack /\ stack'[k] = stack[k]) \/ stack'[k] = fr
      BY <2>1, <2>3
    <3> QED BY <2>2, <3>1 DEF ContractInv, Tracked, RunnerInv
  <2> QED BY <1>0, <1>1, <1>2, <2>4, <2>5, StillStep
<1> QED BY <1>3, <1>4 DEF CallIgnored

LEMMA VerifySteps == ASSUME ContractInv, Verify PROVE Tracked' /\ Simulated
<1>0. /\ Typed /\ phase = "teardown" /\ stack = <<>> /\ verdict \in {"running", "failed"}
      /\ promised \in Seq(Asks)
  BY DEF ContractInv, Typed, RunnerType, Tracked, RunnerInv, Verify
<1>1. ASSUME Missing # {} PROVE Tracked' /\ Simulated
  <2>1. PICK f \in Missing : Fail(f, NULL, "less")
    BY <1>1 DEF Verify
  <2>2. ASSUME verdict = "running", f \in Strict PROVE Contract!NewestOf(f) # {}
    <3>1. mock[f].queue # <<>>
      BY DEF Missing, HasOne
    <3> QED BY <2>2, <3>1, WhileRunning, NewestIs
  <2> QED BY <1>0, <2>1, <2>2, FailStep
<1>2. ASSUME Missing = {} PROVE Tracked' /\ Simulated
  <2>1. /\ phase' = "over" /\ stack' = <<>> /\ UNCHANGED <<offender, promised, log>>
        /\ verdict' = IF verdict = "failed" THEN "failed" ELSE "passed"
    BY <1>0, <1>2 DEF Verify
  <2>2. Tracked'
    BY <1>0, <2>1 DEF Tracked, RunnerInv, RunningInv
  <2>3. ASSUME verdict = "running" PROVE Contract!Pass
    <3>1. \A f \in Strict : mock[f].queue = <<>>
      BY <1>2, <2>3, WhileRunning DEF Missing, HasOne
    <3>2. ASSUME NEW f \in Strict PROVE Contract!Count(f, promised) = Contract!Count(f, log)
      <4>1. Waiting(f, <<>>, promised, log) /\ log \in Seq(Entries)
        BY <2>3, <3>1, WhileRunning
      <4>2. Contract!Count(f, log) \in Nat /\ Len(<<>>) = 0
        BY <4>1, OfIsFinite
      <4> QED BY <4>1, <4>2 DEF Waiting
    <3>3. Contract!Open = {}
      <4>1. Framed(<<>>, promised, log)
        BY <1>0, <2>3, WhileRunning
      <4> QED BY <4>1 DEF Framed, Contract!Open
    <3> QED BY <2>1, <2>3, <3>2, <3>3 DEF Contract!Pass
  <2>4. verdict = "failed" => UNCHANGED <<promised, log, verdict, offender>>
    BY <2>1
  <2> QED BY <1>0, <2>2, <2>3, <2>4 DEF Simulated, Contract!MCNext
<1> QED BY <1>1, <1>2

\* An expectation is a promise.
LEMMA ExpectSteps ==
    ASSUME ContractInv, Ordered => OnlyStrictExpected, NEW f \in Funcs, Expect(f)
    PROVE  Tracked' /\ Simulated
<1>0. Typed /\ phase # "over" /\ Active
  BY DEF ContractInv, Expect, Active
<1>1. ASSUME OutOfMemory(f) PROVE Tracked' /\ Simulated
  <2>1. Fail(f, NULL, "memory")
    BY <1>1 DEF OutOfMemory
  <2> QED BY <1>0, <2>1, FailStep
<1>2. ASSUME NEW i \in Requests(f),
             AddExpectation(f, [Blank EXCEPT !.arg = i.arg, !.ret = i.ret,
                                  !.unchecked = i.unchecked, !.throws = i.throws])
      PROVE  Tracked' /\ Simulated
  <2> DEFINE base == [Blank EXCEPT !.arg = i.arg, !.ret = i.ret,
                          !.unchecked = i.unchecked, !.throws = i.throws]
             n == IF Ordered THEN expectCount + 1 ELSE 0
             inst == [base EXCEPT !.order = n, !.asked = TRUE]
             p == [fn |-> f, arg |-> base.arg, unchecked |-> base.unchecked,
                   ret |-> base.ret, out |-> NoOut, throws |-> base.throws]
  <2>1. base \in Instances /\ base.out = NoOut
    BY RequestType DEF Blank
  <2>2. /\ Chain(f, inst, FALSE) /\ Promised(p)
        /\ expectCount' = (IF Ordered THEN expectCount + 1 ELSE expectCount)
        /\ UNCHANGED <<stack, runner, log, verifyOrder>>
    BY <1>2 DEF AddExpectation
  <2>3. n \in Nat
    BY <1>0 DEF Typed, OrderType
  <2> HIDE DEF base, n
  <2>4. /\ inst \in Instances /\ inst.order = n
        /\ Stands(inst, p) /\ p.fn = f
        /\ f \in Strict => p \in Asks
    <3>1. inst \in Instances /\ inst.order = n
      BY <2>1, <2>3 DEF Instances
    <3>2. Stands(inst, p)
      BY <2>1 DEF Stands, Instances
    <3>3. f \in Strict => p \in Asks
      BY <2>1 DEF Asks, Contract!Promises, Instances
    <3> QED BY <3>1, <3>2, <3>3
  <2> HIDE DEF inst, p
  <2>5. /\ \A g \in Funcs \ {f} : mock'[g] = mock[g]
        /\ mock'[f].queue = Append(mock[f].queue, inst)
    BY <1>0, <2>2, ChainEffect
  <2>6. UNCHANGED <<stack, phase, verdict, offender, log>>
    BY <2>2 DEF runner
  <2>7. verdict # "running" => \A k \in DOMAIN stack' : stack'[k].at = 0
    BY <2>6 DEF ContractInv, Tracked, RunnerInv
  <2>8. CASE verdict = "running" /\ f \in Strict
    <3>1. /\ promised \in Seq(Asks) /\ log \in Seq(Entries) /\ Framed(stack, promised, log)
          /\ \A g \in Strict : /\ g \in Funcs /\ mock[g].queue \in Seq(Instances)
                               /\ Waiting(g, mock[g].queue, promised, log)
          /\ Ordered => verifyOrder = Len(log) /\ expectCount = Len(promised)
      BY <2>8, WhileRunning
    <3>2. promised' = Append(promised, p) /\ p \in Asks
      BY <2>2, <2>4, <2>8 DEF Promised
    <3>3. Extended(promised', promised, p)
      BY <3>2 DEF Extended
    <3>4. promised' \in Seq(Asks) /\ Len(promised') = Len(promised) + 1
      BY <3>1, <3>2
    <3>5. Framed(stack, promised', log)
      BY <3>1, <3>2, <3>3, FramedPromise
    <3>6. ASSUME NEW g \in Strict PROVE Waiting(g, mock'[g].queue, promised', log)
      <4>1. CASE g = f
        <5>1. Ordered => inst.order = Len(promised) + 1
          BY <2>4, <3>1 DEF n
        <5>2. f \in Strict /\ mock[f].queue \in Seq(Instances)
              /\ Waiting(f, mock[f].queue, promised, log)
          BY <2>8, <3>1
        <5>3. \A x \in Instances :
                p.fn = f /\ Stands(x, p) /\ (Ordered => x.order = Len(promised) + 1) =>
                    Waiting(f, Append(mock[f].queue, x), promised', log)
          BY <3>1, <3>2, <3>3, <5>2, WaitPromise
        <5> QED BY <2>4, <2>5, <2>6, <4>1, <5>1, <5>3
      <4>2. CASE g # f
        <5>1. mock'[g] = mock[g] /\ p.fn # g
          BY <2>4, <2>5, <3>1, <4>2
        <5> QED BY <3>1, <3>2, <3>3, <5>1, WaitPromise
      <4> QED BY <4>1, <4>2
    <3>7. Ordered => verifyOrder' = Len(log') /\ expectCount' = Len(promised')
      BY <2>2, <2>6, <3>1, <3>4
    <3>8. RunningInv'
      BY <2>6, <3>5, <3>6, <3>7 DEF RunningInv, Strict
    <3>9. RunnerInv'
      BY <1>0, <2>6, <2>8 DEF ContractInv, Tracked, RunnerInv, Nothing
    <3>10. Contract!Promise
      BY <2>6, <2>8, <3>2 DEF Contract!Promise, Contract!Running, Asks
    <3> QED BY <3>4, <3>8, <3>9, <3>10 DEF Tracked, Simulated, Contract!MCNext, Asks
  <2>9. CASE ~ (verdict = "running" /\ f \in Strict)
    <3>1. promised' = promised
      BY <2>2, <2>4, <2>9 DEF Promised
    <3>2. verdict = "running" => Framed(stack', promised, log)
      BY <2>6, WhileRunning
    <3>3. verdict = "running" => \A g \in Strict : mock'[g].queue = mock[g].queue
      BY <2>5, <2>9 DEF Strict
    <3>4. verdict = "running" => ~Ordered
      BY <2>9 DEF OnlyStrictExpected, Requests
    <3> QED BY <1>0, <2>6, <2>7, <3>1, <3>2, <3>3, <3>4, StillStep
  <2> QED BY <2>8, <2>9
<1> QED BY <1>1, <1>2 DEF Expect

\* The newest instance and the newest promise change alike.
LEMMA AmendSteps ==
    ASSUME ContractInv, NEW f \in Funcs, HasOne(f), phase # "over",
           NEW inst \in Instances, SetNewest(f, inst),
           inst.arg = Newest(f).arg, inst.ret = Newest(f).ret,
           inst.throws = Newest(f).throws, inst.order = Newest(f).order,
           \/ inst.unchecked = TRUE /\ inst.out = Newest(f).out
           \/ inst.unchecked = Newest(f).unchecked /\ inst.out \in Outs
    PROVE  Tracked' /\ Simulated
<1>0. Typed
  BY DEF ContractInv
<1>1. /\ UNCHANGED <<order, stack, phase, verdict, offender, log>>
      /\ Amended(f, inst)
  BY DEF SetNewest, runner
<1>2. /\ \A g \in Funcs \ {f} : mock'[g] = mock[g]
      /\ mock'[f].queue = [mock[f].queue EXCEPT ![Len(mock[f].queue)] = inst]
  BY <1>0, SetNewestEffect
<1>3. verdict # "running" => \A k \in DOMAIN stack' : stack'[k].at = 0
  BY <1>1 DEF ContractInv, Tracked, RunnerInv
<1>4. CASE ~ (verdict = "running" /\ f \in Strict)
  <2>1. promised' = promised
    BY <1>1, <1>4 DEF Amended
  <2>2. verdict = "running" => Framed(stack', promised, log)
    BY <1>1, WhileRunning
  <2>3. verdict = "running" => \A g \in Strict : mock'[g].queue = mock[g].queue
    BY <1>2, <1>4 DEF Strict
  <2> QED BY <1>1, <1>3, <2>1, <2>2, <2>3, StillStep
<1>5. CASE verdict = "running" /\ f \in Strict
  <2>1. /\ promised \in Seq(Asks) /\ log \in Seq(Entries) /\ Framed(stack, promised, log)
        /\ \A g \in Strict : /\ g \in Funcs /\ mock[g].queue \in Seq(Instances)
                             /\ Waiting(g, mock[g].queue, promised, log)
        /\ Ordered => verifyOrder = Len(log) /\ expectCount = Len(promised)
    BY <1>5, WhileRunning
  <2>2. mock[f].queue # <<>> /\ Newest(f) = mock[f].queue[Len(mock[f].queue)]
    BY DEF HasOne, Newest
  <2>3. PICK i : /\ i \in Contract!NewestOf(f) /\ i \in Contract!Of(f, promised)
                 /\ Rank(f, promised, i) + 1 = Contract!Count(f, promised)
                 /\ Contract!Count(f, promised) > Contract!Count(f, log)
                 /\ Stands(Newest(f), promised[i])
                 /\ \A k \in Contract!Of(f, promised) : k <= i
    BY <1>5, <2>1, <2>2, NewestIs
  <2>4. i \in DOMAIN promised /\ promised[i].fn = f /\ promised[i] \in Asks
    BY <2>1, <2>3 DEF Contract!Of
  <2> DEFINE p == [promised[i] EXCEPT !.unchecked = @ \/ inst.unchecked, !.out = inst.out]
  <2>5. promised' = [promised EXCEPT ![i] = p]
    <3> DEFINE Last(k) == /\ promised[k].fn = f
                          /\ \A j \in DOMAIN promised : promised[j].fn = f => j <= k
    <3>1. Last(i)
      BY <2>3, <2>4 DEF Contract!Of
    <3>2. ASSUME NEW k \in DOMAIN promised, Last(k) PROVE k = i
      <4>1. k <= i /\ i <= k
        BY <2>4, <3>1, <3>2
      <4>2. DOMAIN promised \subseteq Nat
        BY <2>1
      <4> QED BY <2>4, <4>1, <4>2
    <3> DEFINE c == CHOOSE k \in DOMAIN promised : Last(k)
    <3>3. c = i
      BY <2>4, <3>1, <3>2
    <3>4. promised' = [promised EXCEPT ![c] =
                         [promised[c] EXCEPT !.unchecked = @ \/ inst.unchecked, !.out = inst.out]]
      BY <1>1, <1>5, Zenon DEF Amended
    <3> HIDE DEF c, Last
    <3> QED BY <3>3, <3>4
  <2>6. /\ p.fn = f /\ p.arg = promised[i].arg /\ p.ret = promised[i].ret
        /\ p.throws = promised[i].throws /\ p.out = inst.out
        /\ p.unchecked = (promised[i].unchecked \/ inst.unchecked)
    BY <2>4 DEF Asks, Contract!Promises
  <2>7. promised[i].unchecked \in BOOLEAN /\ inst.unchecked \in BOOLEAN
    BY <2>4 DEF Asks, Contract!Promises, Instances
  <2>8. p \in Asks /\ Stands(inst, p)
    <3>1. p \in Asks
      BY <2>4, <2>7 DEF Asks, Contract!Promises, Instances
    <3>2. Stands(inst, p)
      BY <2>3, <2>6, <2>7 DEF Stands
    <3> QED BY <3>1, <3>2
  <2>9. Contract!Amend(f)
    <3>1. CASE inst.unchecked = TRUE /\ inst.out = Newest(f).out
      <4>1. p = [promised[i] EXCEPT !.unchecked = TRUE]
        BY <2>3, <2>4, <2>7, <3>1 DEF Stands, Asks, Contract!Promises
      <4>2. promised' = [promised EXCEPT ![i].unchecked = TRUE]
        BY <2>5, <4>1
      <4> QED BY <1>1, <1>5, <2>3, <4>2 DEF Contract!Amend, Contract!Running
    <3>2. CASE inst.unchecked = Newest(f).unchecked /\ inst.out \in Outs
      <4>1. p = [promised[i] EXCEPT !.out = inst.out]
        BY <2>3, <2>4, <2>7, <3>2 DEF Stands, Asks, Contract!Promises
      <4>2. promised' = [promised EXCEPT ![i].out = inst.out]
        BY <2>5, <4>1
      <4> QED BY <1>1, <1>5, <2>3, <3>2, <4>2 DEF Contract!Amend, Contract!Running
    <3> QED BY <3>1, <3>2
  <2> HIDE DEF p
  <2>10. Changed(promised', promised, i, p)
    BY <2>5 DEF Changed
  <2>11. /\ promised' \in Seq(Asks) /\ Len(promised') = Len(promised)
    BY <2>1, <2>4, <2>6, <2>8, <2>10, AmendedRanks
  <2>12. Framed(stack, promised', log)
    BY <2>1, <2>3, <2>4, <2>6, <2>8, <2>10, FramedAmend
  <2>13. ASSUME NEW g \in Strict PROVE Waiting(g, mock'[g].queue, promised', log)
    <3>1. CASE g # f
      <4>1. mock'[g] = mock[g] /\ p.fn # g
        BY <1>2, <2>1, <2>6, <3>1
      <4> QED BY <2>1, <2>4, <2>6, <2>8, <2>10, <4>1, WaitAmend
    <3>2. CASE g = f
      <4>1. \A x \in Instances :
              (/\ p.fn = f /\ mock[f].queue # <<>> /\ Stands(x, p)
               /\ x.order = mock[f].queue[Len(mock[f].queue)].order
               /\ Rank(f, promised, i) + 1 = Contract!Count(f, promised)) =>
                 Waiting(f, [mock[f].queue EXCEPT ![Len(mock[f].queue)] = x], promised', log)
        <5>1. mock[f].queue \in Seq(Instances) /\ Waiting(f, mock[f].queue, promised, log)
          BY <1>5, <2>1
        <5> QED BY <2>1, <2>4, <2>6, <2>8, <2>10, <5>1, WaitAmend
      <4> QED BY <1>2, <2>2, <2>3, <2>6, <2>8, <3>2, <4>1
    <3> QED BY <3>1, <3>2
  <2>14. Ordered => verifyOrder' = Len(log') /\ expectCount' = Len(promised')
    BY <1>1, <2>1, <2>11 DEF order
  <2>15. RunningInv'
    BY <1>1, <2>12, <2>13, <2>14 DEF RunningInv, Strict
  <2>16. RunnerInv'
    BY <1>1, <1>5 DEF ContractInv, Tracked, RunnerInv, Nothing
  <2> QED BY <1>5, <2>9, <2>11, <2>15, <2>16 DEF Tracked, Simulated, Contract!MCNext, Asks
<1> QED BY <1>4, <1>5

LEMMA IgnoreArgSteps ==
    ASSUME ContractInv, NEW f \in Funcs, IgnoreArg(f)
    PROVE  Tracked' /\ Simulated
<1>0. Typed /\ phase # "over"
  BY DEF ContractInv, IgnoreArg, Active
<1>1. CASE HasOne(f)
  <2> DEFINE inst == [Newest(f) EXCEPT !.unchecked = TRUE]
  <2>1. Newest(f) \in Instances
    BY <1>0, <1>1, QueueFacts
  <2>2. /\ inst \in Instances /\ inst.arg = Newest(f).arg /\ inst.ret = Newest(f).ret
        /\ inst.throws = Newest(f).throws /\ inst.order = Newest(f).order
        /\ inst.unchecked = TRUE /\ inst.out = Newest(f).out
    BY <2>1 DEF Instances
  <2>3. SetNewest(f, inst)
    BY <1>1 DEF IgnoreArg
  <2> HIDE DEF inst
  <2> QED BY <1>0, <1>1, <2>2, <2>3, AmendSteps
<1>2. CASE ~HasOne(f)
  <2>1. Fail(f, NULL, "misuse")
    BY <1>2 DEF IgnoreArg
  <2> QED BY <1>0, <2>1, FailStep
<1> QED BY <1>1, <1>2

LEMMA ReturnThruPtrSteps ==
    ASSUME ContractInv, NEW f \in Funcs, ReturnThruPtr(f)
    PROVE  Tracked' /\ Simulated
<1>0. Typed /\ phase # "over" /\ (Queues(f) => f \notin Strict)
  BY DEF ContractInv, ReturnThruPtr, Active, Queues, StrictIsChecked
<1>1. ASSUME Queues(f), NEW inst, Chain(f, inst, TRUE),
             UNCHANGED <<stack, runner, promised, log, order>>
      PROVE  Tracked' /\ Simulated
  <2>1. \A g \in Strict : mock'[g].queue = mock[g].queue
    BY <1>0, <1>1, ChainEffect DEF Strict
  <2>2. UNCHANGED <<promised, log, verdict, offender, stack, phase, order>>
    BY <1>1 DEF runner
  <2>3. verdict = "running" => Framed(stack', promised, log)
    BY <2>2, WhileRunning
  <2>4. verdict # "running" => \A k \in DOMAIN stack' : stack'[k].at = 0
    BY <2>2 DEF ContractInv, Tracked, RunnerInv
  <2> QED BY <1>0, <2>1, <2>2, <2>3, <2>4, StillStep
<1>2. ASSUME Fail(f, NULL, "memory") \/ Fail(f, NULL, "misuse")
      PROVE  Tracked' /\ Simulated
  BY <1>0, <1>2, FailStep
<1>3. ASSUME HasOne(f), NEW v \in Outs, SetNewest(f, [Newest(f) EXCEPT !.out = v])
      PROVE  Tracked' /\ Simulated
  <2> DEFINE inst == [Newest(f) EXCEPT !.out = v]
  <2>1. Newest(f) \in Instances
    BY <1>0, <1>3, QueueFacts
  <2>2. /\ inst \in Instances /\ inst.arg = Newest(f).arg /\ inst.ret = Newest(f).ret
        /\ inst.throws = Newest(f).throws /\ inst.order = Newest(f).order
        /\ inst.unchecked = Newest(f).unchecked /\ inst.out \in Outs
    BY <2>1 DEF Instances
  <2>3. SetNewest(f, inst)
    BY <1>3
  <2> HIDE DEF inst
  <2> QED BY <1>0, <1>3, <2>2, <2>3, AmendSteps
<1> QED BY <1>1, <1>2, <1>3 DEF ReturnThruPtr, OutOfMemory

-----------------------------------------------------------------------------
(* Calls that meet their expectations.                                     *)

LEMMA PassFacts ==
    ASSUME ContractInv, verdict = "running", NEW f \in Funcs, NEW a \in Args, Passes(f, a)
    PROVE  /\ f \notin Strict => ~Ordered
           /\ f \in Strict =>
                \E i : /\ Contract!NextOf(f) = {i} /\ i \in Contract!Of(f, promised)
                       /\ Rank(f, promised, i) = Contract!Count(f, log)
                       /\ Stands(Oldest(f), promised[i])
                       /\ Contract!Due(i) /\ Contract!Fits(promised[i], a)
<1>1. Typed /\ (Ordered => OrderInv) /\ verifyOrder \in Nat
  BY DEF ContractInv, Typed, OrderType
<1>2. /\ mock[f].queue # <<>> /\ Oldest(f) = mock[f].queue[1] /\ Oldest(f).order \in Nat
      /\ 1 \in DOMAIN mock[f].queue
  BY <1>1, QueueFacts DEF Passes, HasOne, Instances
<1>3. Ordered => Oldest(f).order = verifyOrder + 1
  BY <1>1, <1>2 DEF Passes, Early, Late
<1>4. ASSUME f \notin Strict PROVE ~Ordered
  <2>1. Ordered => Oldest(f).order \in Orders(f)
    BY <1>2 DEF Orders, OrdersIn
  <2>2. Ordered => Oldest(f).order = 0
    BY <1>1, <1>4, <2>1 DEF OrderInv, OthersHaveNoOrder
  <2> QED BY <1>1, <1>3, <2>2
<1>5. ASSUME f \in Strict
      PROVE  \E i : /\ Contract!NextOf(f) = {i} /\ i \in Contract!Of(f, promised)
                    /\ Rank(f, promised, i) = Contract!Count(f, log)
                    /\ Stands(Oldest(f), promised[i])
                    /\ Contract!Due(i) /\ Contract!Fits(promised[i], a)
  <2>1. PICK i : /\ Contract!NextOf(f) = {i} /\ i \in Contract!Of(f, promised)
                 /\ Rank(f, promised, i) = Contract!Count(f, log)
                 /\ Stands(Oldest(f), promised[i]) /\ (Ordered => Oldest(f).order = i)
    BY <1>2, <1>5, WhileRunning, NextIs
  <2>2. Contract!Due(i)
    BY <1>3, <1>5, <2>1, WhileRunning DEF Contract!Due
  <2>3. Contract!Fits(promised[i], a)
    BY <2>1 DEF Contract!Fits, Stands, Passes, Mismatch
  <2> QED BY <2>1, <2>2, <2>3
<1> QED BY <1>4, <1>5

\* The oldest instance and the next promise are gone together.
LEMMA ServedKeeps ==
    ASSUME ContractInv, verdict = "running", NEW f \in Funcs, NEW a \in Args,
           CallsBack(f, a) \/ CallReturns(f, a) \/ CallThrows(f, a),
           NEW l \in Seq(Entries), SameFuncs(l, log), NEW e \in Entries, e.fn = f,
           IF f \in Strict THEN Extended(log', l, e) ELSE log' = l,
           Framed(stack', promised, log')
    PROVE  Tracked'
<1>1. /\ Typed /\ promised \in Seq(Asks) /\ log \in Seq(Entries)
      /\ \A g \in Strict : /\ g \in Funcs /\ mock[g].queue \in Seq(Instances)
                           /\ Waiting(g, mock[g].queue, promised, log)
      /\ Ordered => verifyOrder = Len(log) /\ expectCount = Len(promised)
      /\ offender = Nothing /\ phase # "over"
  BY WhileRunning DEF ContractInv, Tracked, RunnerInv
<1>2. Passes(f, a) /\ Verified(f) /\ UNCHANGED <<promised, verdict, offender, phase>>
  BY DEF CallsBack, CallReturns, CallThrows, Enter, runner
<1>3. \A g \in Strict : Waiting(g, mock[g].queue, promised, l)
  BY <1>1, WaitSame
<1>4. mock'[f].queue = Rest(mock[f].queue) /\ \A g \in Funcs \ {f} : mock'[g] = mock[g]
  BY <1>1, PopEffect
<1>5. ASSUME NEW g \in Strict PROVE Waiting(g, mock'[g].queue, promised, log')
  <2>1. CASE f \notin Strict
    <3>1. mock'[g] = mock[g]
      BY <1>1, <1>4, <2>1
    <3> QED BY <1>3, <2>1, <3>1
  <2>2. CASE f \in Strict /\ g # f
    <3>1. mock'[g] = mock[g] /\ Extended(log', l, e)
      BY <1>1, <1>4, <2>2
    <3> QED BY <1>1, <1>3, <2>2, <3>1, WaitLog
  <2>3. CASE f \in Strict /\ g = f
    <3>1. mock[f].queue # <<>> /\ mock'[f].queue = Tail(mock[f].queue)
      BY <1>2, <1>4 DEF Passes, HasOne, Rest
    <3>2. Extended(log', l, e) /\ mock[f].queue \in Seq(Instances)
          /\ Waiting(f, mock[f].queue, promised, l)
      BY <1>1, <1>3, <2>3
    <3>3. Waiting(f, Tail(mock[f].queue), promised, log')
      BY <1>1, <3>1, <3>2, WaitLog
    <3> QED BY <2>3, <3>1, <3>3
  <2> QED BY <2>1, <2>2, <2>3
<1>6. Ordered => verifyOrder' = Len(log') /\ expectCount' = Len(promised')
  <2>1. Ordered => f \in Strict /\ HasOne(f)
    BY <1>2, PassFacts DEF Passes
  <2>2. Ordered => Len(log') = Len(l) + 1
    BY <2>1 DEF Extended
  <2>3. Len(l) = Len(log)
    BY <1>1 DEF SameFuncs
  <2> QED BY <1>1, <1>2, <2>1, <2>2, <2>3 DEF Verified
<1>7. RunningInv'
  BY <1>2, <1>5, <1>6 DEF RunningInv, Strict
<1>8. RunnerInv'
  BY <1>1, <1>2 DEF RunnerInv, Nothing
<1> QED BY <1>1, <1>2, <1>7, <1>8 DEF Tracked, Asks

\* After the test has failed the contract has nothing to say.
LEMMA AfterFailure ==
    ASSUME ContractInv, verdict # "running", UNCHANGED <<promised, log, verdict, offender, phase>>,
           phase # "over", \A k \in DOMAIN stack' : stack'[k].at = 0
    PROVE  Tracked' /\ Simulated
<1>1. verdict \notin {"running", "passed"}
  BY DEF ContractInv, Tracked, RunnerInv
<1>2. RunnerInv' /\ RunningInv'
  BY <1>1 DEF RunnerInv, RunningInv
<1> QED BY <1>2 DEF ContractInv, Tracked, Simulated, Asks

LEMMA CallReturnsSteps ==
    ASSUME ContractInv, NEW f \in Funcs, NEW a \in Args, CallReturns(f, a)
    PROVE  Tracked' /\ Simulated
<1> DEFINE inst == Oldest(f)
           e == Entry(f, a, "returned", inst.ret, inst.out)
<1>1. /\ UNCHANGED <<promised, verdict, offender, phase, stack>> /\ phase # "over"
      /\ Passes(f, a) /\ ~inst.throws /\ ~NullPointer(f, a) /\ Logged(f, e)
  BY DEF CallReturns, runner, Active
<1>2. Typed /\ HasOne(f)
  BY <1>1 DEF ContractInv, Passes
<1>3. e \in Entries /\ e.fn = f /\ e.state = "returned"
  BY <1>2, QueueFacts, EntryType DEF Instances, Entry
<1>4. CASE verdict # "running"
  <2>1. log' = log /\ \A k \in DOMAIN stack' : stack'[k].at = 0
    BY <1>1, <1>4 DEF Logged, ContractInv, Tracked, RunnerInv
  <2> QED BY <1>1, <1>4, <2>1, AfterFailure
<1>5. CASE verdict = "running"
  <2>0. log \in Seq(Entries) /\ SameFuncs(log, log) /\ Framed(stack, promised, log)
    BY <1>5, WhileRunning DEF SameFuncs
  <2>1. IF f \in Strict THEN Extended(log', log, e) ELSE log' = log
    BY <1>1, <1>5 DEF Logged, Extended
  <2>2. Framed(stack', promised, log')
    <3>1. CASE f \in Strict
      <4> HIDE DEF e
      <4>1. Framed(stack, promised, log')
        BY <1>3, <2>0, <2>1, <3>1, FramedLog
      <4> QED BY <1>1, <4>1
    <3>2. CASE f \notin Strict
      BY <1>1, <2>0, <2>1, <3>2
    <3> QED BY <3>1, <3>2
  <2>3. Tracked'
    <3> HIDE DEF e
    <3> QED BY <1>3, <1>5, <2>0, <2>1, <2>2, ServedKeeps
  <2>4. ASSUME f \in Strict PROVE Contract!Serve(f, a)
    <3>1. PICK i : /\ Contract!NextOf(f) = {i} /\ i \in Contract!Of(f, promised)
                   /\ Stands(inst, promised[i])
                   /\ Contract!Due(i) /\ Contract!Fits(promised[i], a)
      BY <1>1, <1>5, <2>4, PassFacts
    <3>2. ~Contract!NeedsPointer(promised[i], a)
      BY <1>1, <1>2, <3>1 DEF NullPointer, Contract!NeedsPointer, Stands
    <3>3. Contract!Servable(f, a)
      BY <3>1, <3>2 DEF Contract!Servable
    <3>4. Contract!Answer(promised[i], a, promised[i].ret) = e
      BY <1>1, <3>1 DEF Contract!Answer, Contract!Entry, Entry, Stands, Contract!Of
    <3>5. log' = Append(log, e) /\ ~promised[i].throws
      BY <1>1, <2>1, <2>4, <3>1 DEF Extended, Stands
    <3> HIDE DEF e, inst
    <3>6. \E j \in Contract!NextOf(f) :
            /\ Contract!Due(j) /\ Contract!Fits(promised[j], a)
            /\ Contract!Servable(f, a) /\ ~promised[j].throws
            /\ log' = Append(log, Contract!Answer(promised[j], a, promised[j].ret))
      BY <3>1, <3>3, <3>4, <3>5
    <3> QED BY <1>1, <1>5, <3>6 DEF Contract!Serve, Contract!Running
  <2>5. f \notin Strict => UNCHANGED <<promised, log, verdict, offender>>
    BY <1>1, <2>1
  <2> QED BY <2>3, <2>4, <2>5 DEF Simulated, Contract!MCNext
<1> QED BY <1>4, <1>5

LEMMA CallsBackSteps ==
    ASSUME ContractInv, NEW f \in Funcs, NEW a \in Args, CallsBack(f, a)
    PROVE  Tracked' /\ Simulated
<1> DEFINE e == Entry(f, a, "open", 0, NoOut)
           inst == [Oldest(f) EXCEPT !.arg = a]
           at == IF verdict = "running" /\ f \in Strict THEN Len(log) + 1 ELSE 0
           fr == [fn |-> f, inst |-> inst, at |-> at, room |-> room,
                  stub |-> Stubbed(f), wanted |-> Wanted(f)]
<1>1. /\ UNCHANGED <<promised, verdict, offender, phase>> /\ phase # "over"
      /\ stack' = Append(stack, fr)
      /\ Passes(f, a) /\ ~Stubbed(f) /\ Logged(f, e)
  BY DEF CallsBack, Enter, runner, Active, Checked
<1>2. /\ Typed /\ HasOne(f) /\ Oldest(f) \in Instances /\ stack \in Seq(Frames)
      /\ log \in Seq(Entries)
  BY <1>1, QueueFacts DEF ContractInv, Passes, Typed, StackType, LogType
<1>3. e \in Entries /\ e.fn = f /\ e.state = "open" /\ e.arg = a
  <2>1. 0 \in Rets /\ NoOut \in Outs \cup {NoOut}
    BY MockAssumption
  <2> QED BY <2>1, EntryType DEF Entry
<1>4. /\ inst \in Instances /\ inst.arg = a /\ inst.out = Oldest(f).out
      /\ inst.throws = Oldest(f).throws
  BY <1>2 DEF Instances
<1>5. fr \in Frames /\ fr.fn = f /\ fr.at = at /\ fr.inst = inst /\ ~fr.stub
  <2>1. room \in Nat /\ Wanted(f) \in Rets /\ Stubbed(f) = FALSE
    BY <1>1, <1>2, TookType DEF Typed, MemoryType
  <2>2. at \in Nat
    BY <1>2
  <2> HIDE DEF inst, at
  <2> QED BY <1>4, <2>1, <2>2 DEF Frames
<1> HIDE DEF fr, inst
<1>6. CASE verdict # "running"
  <2>1. log' = log
    BY <1>1, <1>6 DEF Logged
  <2>2. \A k \in DOMAIN stack' : (k \in DOMAIN stack /\ stack'[k] = stack[k]) \/ stack'[k] = fr
    BY <1>1, <1>2, <1>5
  <2>3. \A k \in DOMAIN stack' : stack'[k].at = 0
    BY <1>5, <1>6, <2>2 DEF ContractInv, Tracked, RunnerInv
  <2> QED BY <1>1, <1>6, <2>1, <2>3, AfterFailure
<1>7. CASE verdict = "running"
  <2>0. SameFuncs(log, log) /\ Framed(stack, promised, log)
    BY <1>7, WhileRunning DEF SameFuncs
  <2>1. IF f \in Strict THEN Extended(log', log, e) ELSE log' = log
    BY <1>1, <1>7 DEF Logged, Extended
  <2>2. ASSUME f \in Strict
        PROVE  Framed(stack', promised, log') /\ Contract!Serve(f, a)
    <3>1. PICK i : /\ Contract!NextOf(f) = {i} /\ i \in Contract!Of(f, promised)
                   /\ Rank(f, promised, i) = Contract!Count(f, log)
                   /\ Stands(Oldest(f), promised[i])
                   /\ Contract!Due(i) /\ Contract!Fits(promised[i], a)
      BY <1>1, <1>7, <2>2, PassFacts
    <3>2. /\ fr.at = Len(log) + 1 /\ Extended(log', log, e)
          /\ promised[i].throws = fr.inst.throws /\ promised[i].out = fr.inst.out
          /\ fr.inst.arg = e.arg
      BY <1>3, <1>4, <1>5, <1>7, <2>1, <2>2, <3>1 DEF Stands
    <3>3. Pending(fr, promised, log')
      <4> HIDE DEF e
      <4> QED BY <1>2, <1>3, <1>5, <3>1, <3>2, PendNew
    <3>4. Framed(Append(stack, fr), promised, log')
      <4> HIDE DEF e
      <4> QED BY <1>2, <1>3, <1>5, <2>0, <3>2, <3>3, FramedOpen
    <3>5. log' = Append(log, Contract!Entry(f, a, "open", 0, NoOut))
      BY <3>2 DEF Extended, Entry, Contract!Entry
    <3>6. Contract!Serve(f, a)
      BY <1>1, <1>7, <3>1, <3>5 DEF Contract!Serve, Contract!Running
    <3> QED BY <1>1, <3>4, <3>6
  <2>3. ASSUME f \notin Strict
        PROVE  /\ Framed(stack', promised, log')
               /\ UNCHANGED <<promised, log, verdict, offender>>
    <3>1. fr.at = 0 /\ fr.fn \notin Strict
      BY <1>5, <2>3
    <3>2. Framed(Append(stack, fr), promised, log)
      BY <1>2, <1>5, <2>0, <3>1, FramedStub
    <3> QED BY <1>1, <2>1, <2>3, <3>2
  <2>4. Framed(stack', promised, log')
    BY <2>2, <2>3
  <2>5. Tracked'
    <3> HIDE DEF e
    <3> QED BY <1>2, <1>3, <1>7, <2>0, <2>1, <2>4, ServedKeeps
  <2> QED BY <2>2, <2>3, <2>5 DEF Simulated, Contract!MCNext
<1> QED BY <1>6, <1>7

\* The calls answered by the callbacks above place k, not answered yet in l.
Gone(l, k) ==
    {i \in DOMAIN l : l[i].state = "open" /\ \E j \in k + 1 .. Len(stack) : stack[j].at = i}

LEMMA UnwoundFacts ==
    ASSUME NEW l \in Seq(Entries), NEW k
    PROVE  /\ Unwound(l, k) \in Seq(Entries) /\ Len(Unwound(l, k)) = Len(l)
           /\ SameFuncs(Unwound(l, k), l) /\ Ends(Unwound(l, k), l, stack, k)
           /\ Unwound(l, k) = [i \in DOMAIN l |->
                IF i \in Gone(l, k) THEN [l[i] EXCEPT !.state = "lost"] ELSE l[i]]
           /\ Gone(l, k) = {} => Unwound(l, k) = l
<1>1. /\ Unwound(l, k) \in Seq(Entries) /\ Len(Unwound(l, k)) = Len(l)
      /\ DOMAIN Unwound(l, k) = DOMAIN l
  BY UnwoundType
<1>2. Unwound(l, k) = [i \in DOMAIN l |->
        IF i \in Gone(l, k) THEN [l[i] EXCEPT !.state = "lost"] ELSE l[i]]
  BY DEF Unwound, Gone
<1>3. \A i \in DOMAIN l : l[i] \in Entries
  OBVIOUS
<1>4. \A i \in DOMAIN l : /\ i \in Gone(l, k) => Unwound(l, k)[i].state = "lost"
                          /\ i \notin Gone(l, k) => Unwound(l, k)[i] = l[i]
                          /\ Unwound(l, k)[i].fn = l[i].fn
  BY <1>2, <1>3 DEF Entries
<1>5. SameFuncs(Unwound(l, k), l)
  BY <1>1, <1>4 DEF SameFuncs
<1>6. Ends(Unwound(l, k), l, stack, k)
  BY <1>4, <1>5 DEF Ends, Gone
<1>7. Gone(l, k) = {} => Unwound(l, k) = l
  <2>1. l = [i \in DOMAIN l |-> l[i]]
    OBVIOUS
  <2> QED BY <1>2, <2>1
<1> QED BY <1>1, <1>2, <1>5, <1>6, <1>7

LEMMA CallThrowsSteps ==
    ASSUME ContractInv, NEW f \in Funcs, NEW a \in Args, CallThrows(f, a)
    PROVE  Tracked' /\ Simulated
<1> DEFINE e == Entry(f, a, "thrown", 0, NoOut)
<1>1. PICK k \in 0 .. Len(stack) :
        /\ stack' = SubSeq(stack, 1, k)
        /\ log' = IF verdict = "running" /\ f \in Strict
                  THEN Append(Unwound(log, k), e) ELSE Unwound(log, k)
  BY DEF CallThrows
<1>2. /\ UNCHANGED <<promised, verdict, offender, phase>> /\ phase # "over"
      /\ Passes(f, a) /\ Oldest(f).throws
  BY DEF CallThrows, runner, Active
<1>3. /\ Typed /\ stack \in Seq(Frames) /\ log \in Seq(Entries)
  BY DEF ContractInv, Typed, StackType, LogType
<1>4. e \in Entries /\ e.fn = f /\ e.state = "thrown"
  <2>1. 0 \in Rets /\ NoOut \in Outs \cup {NoOut}
    BY MockAssumption
  <2> QED BY <2>1, EntryType DEF Entry
<1> DEFINE l == Unwound(log, k)
<1>5. /\ l \in Seq(Entries) /\ SameFuncs(l, log) /\ Ends(l, log, stack, k)
      /\ l = [i \in DOMAIN log |->
                IF i \in Gone(log, k) THEN [log[i] EXCEPT !.state = "lost"] ELSE log[i]]
      /\ Gone(log, k) = {} => l = log
  BY <1>3, UnwoundFacts
<1>6. CASE verdict # "running"
  <2>1. \A j \in DOMAIN stack : stack[j].at = 0
    BY <1>6 DEF ContractInv, Tracked, RunnerInv
  <2>2. Gone(log, k) = {}
    <3>1. \A j \in k + 1 .. Len(stack) : j \in DOMAIN stack
      BY <1>3
    <3>2. 0 \notin DOMAIN log
      BY <1>3
    <3> QED BY <2>1, <3>1, <3>2 DEF Gone
  <2>3. \A j \in DOMAIN stack' : j \in DOMAIN stack /\ stack'[j] = stack[j]
    BY <1>1, <1>3
  <2> QED BY <1>1, <1>2, <1>5, <1>6, <2>1, <2>2, <2>3, AfterFailure
<1>7. CASE verdict = "running"
  <2>0. Framed(stack, promised, log)
    BY <1>7, WhileRunning
  <2>1. IF f \in Strict THEN Extended(log', l, e) ELSE log' = l
    BY <1>1, <1>7 DEF Extended
  <2>2. Gone(log, k) \in SUBSET Contract!Open /\ l = Contract!Abandoned(Gone(log, k))
    BY <1>5 DEF Gone, Contract!Open, Contract!Abandoned
  <2> HIDE DEF l, e
  <2>3. Framed(stack', promised, l)
    BY <1>1, <1>3, <1>5, <2>0, FramedEnds
  <2>4. Framed(stack', promised, log')
    <3>1. CASE f \in Strict
      BY <1>4, <1>5, <2>1, <2>3, <3>1, FramedLog
    <3>2. CASE f \notin Strict
      BY <2>1, <2>3, <3>2
    <3> QED BY <3>1, <3>2
  <2>5. Tracked'
    BY <1>4, <1>5, <1>7, <2>1, <2>4, ServedKeeps
  <2>6. ASSUME f \in Strict PROVE Contract!Serve(f, a)
    <3>1. PICK i : /\ Contract!NextOf(f) = {i} /\ i \in Contract!Of(f, promised)
                   /\ Stands(Oldest(f), promised[i])
                   /\ Contract!Due(i) /\ Contract!Fits(promised[i], a)
      BY <1>2, <1>7, <2>6, PassFacts
    <3>2. promised[i].throws /\ promised[i].fn = f
      BY <1>2, <3>1 DEF Stands, Contract!Of
    <3>3. Contract!Servable(f, a)
      BY <3>1, <3>2 DEF Contract!Servable, Contract!NeedsPointer
    <3>4. Contract!Answer(promised[i], a, 0) = e
      BY <3>2 DEF Contract!Answer, Contract!Entry, Entry, e
    <3>5. log' = Append(Contract!Abandoned(Gone(log, k)), Contract!Answer(promised[i], a, 0))
      BY <2>1, <2>2, <2>6, <3>4 DEF Extended
    <3>6. \E j \in Contract!NextOf(f) :
            /\ Contract!Due(j) /\ Contract!Fits(promised[j], a)
            /\ Contract!Servable(f, a) /\ promised[j].throws
            /\ \E K \in SUBSET Contract!Open :
                 log' = Append(Contract!Abandoned(K), Contract!Answer(promised[j], a, 0))
      BY <2>2, <3>1, <3>2, <3>3, <3>5
    <3> QED BY <1>2, <1>7, <3>6 DEF Contract!Serve, Contract!Running
  <2>7. ASSUME f \notin Strict PROVE Contract!Abandon
    BY <1>2, <1>7, <2>1, <2>2, <2>7 DEF Contract!Abandon, Contract!Running
  <2> QED BY <2>5, <2>6, <2>7 DEF Simulated, Contract!MCNext
<1> QED BY <1>6, <1>7

-----------------------------------------------------------------------------
(* Calls that fail, and callbacks that end.                                *)

LEMMA CallFailsSteps ==
    ASSUME ContractInv, NEW f \in Funcs, NEW a \in Args, CallFails(f, a)
    PROVE  Tracked' /\ Simulated
<1>1. Fail(f, a, Fault(f, a)) /\ phase # "over" /\ Fault(f, a) # "nothing"
  BY DEF CallFails, Active
<1>2. Fault(f, a) \in {"more", "early", "late", "mismatch", "null"}
  BY <1>1 DEF Fault
<1>3. ASSUME verdict = "running", f \in Strict PROVE ~Contract!Servable(f, a)
  <2>1. /\ promised \in Seq(Asks) /\ log \in Seq(Entries)
        /\ mock[f].queue \in Seq(Instances) /\ Waiting(f, mock[f].queue, promised, log)
        /\ ~mock[f].ignore /\ (mock[f].callback => mock[f].fixed)
        /\ Ordered => verifyOrder = Len(log)
    BY <1>3, WhileRunning
  <2>2. ~Stubbed(f)
    BY <2>1 DEF Stubbed
  <2>3. CASE ~HasOne(f)
    <3>1. Contract!NextOf(f) = {}
      BY <2>1, <2>3, NextIs DEF HasOne
    <3> QED BY <3>1 DEF Contract!Servable
  <2>4. CASE HasOne(f)
    <3>1. mock[f].queue # <<>> /\ Oldest(f) = mock[f].queue[1] /\ Oldest(f).order \in Nat
      <4>1. Typed
        BY DEF ContractInv
      <4> QED BY <2>4, <4>1, QueueFacts DEF HasOne, Instances
    <3>2. PICK i : /\ Contract!NextOf(f) = {i} /\ Stands(Oldest(f), promised[i])
                   /\ Ordered => Oldest(f).order = i
      BY <2>1, <3>1, NextIs
    <3>3. CASE Early(f) \/ Late(f)
      <4>1. Len(log) \in Nat
        BY <2>1
      <4>2. ~Contract!Due(i)
        BY <2>1, <3>1, <3>2, <3>3, <4>1 DEF Early, Late, Contract!Due
      <4> QED BY <3>2, <4>2 DEF Contract!Servable
    <3>4. CASE Mismatch(f, a)
      <4>1. ~Contract!Fits(promised[i], a)
        BY <3>2, <3>4 DEF Mismatch, Stands, Contract!Fits
      <4> QED BY <3>2, <4>1 DEF Contract!Servable
    <3>5. CASE ~Early(f) /\ ~Late(f) /\ ~Mismatch(f, a)
      <4>1. ~Oldest(f).throws /\ NullPointer(f, a)
        BY <1>1, <2>1, <2>2, <2>4, <3>5 DEF Fault
      <4>2. Contract!NeedsPointer(promised[i], a)
        BY <3>2, <4>1 DEF NullPointer, Stands, Contract!NeedsPointer
      <4> QED BY <3>2, <4>2 DEF Contract!Servable
    <3> QED BY <3>3, <3>4, <3>5
  <2> QED BY <2>3, <2>4
<1> QED BY <1>1, <1>2, <1>3, FailStep

\* A callback ends, with those above it.
LEMMA EndKeeps ==
    ASSUME ContractInv, verdict = "running", phase # "over",
           UNCHANGED <<mock, order, promised, verdict, offender, phase>>,
           NEW k \in 0 .. Len(stack), stack' = SubSeq(stack, 1, k),
           NEW m, m = log', Ends(m, log, stack, k)
    PROVE  Tracked'
<1>1. SameFuncs(m, log)
  BY DEF Ends
<1>2. /\ promised \in Seq(Asks) /\ log \in Seq(Entries) /\ stack \in Seq(Frames)
      /\ Framed(stack, promised, log)
      /\ \A f \in Strict : Waiting(f, mock[f].queue, promised, log)
      /\ Ordered => verifyOrder = Len(log) /\ expectCount = Len(promised)
      /\ offender = Nothing
  BY WhileRunning
<1>3. Framed(SubSeq(stack, 1, k), promised, m)
  BY <1>2, FramedEnds
<1>4. \A f \in Strict : Waiting(f, mock[f].queue, promised, m)
  BY <1>1, <1>2, WaitSame
<1>5. Ordered => verifyOrder' = Len(log') /\ expectCount' = Len(promised')
  <2>1. m \in Seq(Entries) \/ ~Ordered \/ Len(m) = Len(log)
    BY <1>1, <1>2 DEF SameFuncs
  <2>2. DOMAIN m = DOMAIN log
    BY <1>1 DEF SameFuncs
  <2> QED BY <1>2, <2>1, <2>2 DEF order
<1>6. RunningInv'
  BY <1>3, <1>4, <1>5 DEF RunningInv, Strict
<1>7. RunnerInv'
  BY <1>2 DEF RunnerInv, Nothing
<1> QED BY <1>2, <1>6, <1>7 DEF Tracked, Asks

\* The frame of a callback that was added to a checked function, while the
\* test runs.
LEMMA FrameFacts ==
    ASSUME ContractInv, verdict = "running", stack # <<>>
    PROVE  /\ Frame.fn \in Strict => Frame.at # 0
           /\ Frame.at # 0 =>
                /\ Frame.at \in Contract!Open /\ Frame.at \in DOMAIN log
                /\ log[Frame.at].fn = Frame.fn /\ log[Frame.at].arg = Frame.inst.arg
                /\ promised[Contract!PromiseOf(Frame.at)].fn = Frame.fn
                /\ promised[Contract!PromiseOf(Frame.at)].throws = Frame.inst.throws
                /\ promised[Contract!PromiseOf(Frame.at)].out = Frame.inst.out
<1>1. /\ promised \in Seq(Asks) /\ Framed(stack, promised, log)
      /\ Len(stack) \in DOMAIN stack /\ Frame = stack[Len(stack)]
  BY WhileRunning, StackSteps
<1>2. Pending(Frame, promised, log) /\ (Frame.fn \in Strict => Frame.at # 0)
  BY <1>1 DEF Framed
<1>3. Frame.at # 0 =>
        /\ Frame.at \in Contract!Open /\ Frame.at \in DOMAIN log
        /\ log[Frame.at].fn = Frame.fn /\ log[Frame.at].arg = Frame.inst.arg
  BY <1>2 DEF Pending, Contract!Open
<1>4. ASSUME Frame.at # 0
      PROVE  /\ promised[Contract!PromiseOf(Frame.at)].fn = Frame.fn
             /\ promised[Contract!PromiseOf(Frame.at)].throws = Frame.inst.throws
             /\ promised[Contract!PromiseOf(Frame.at)].out = Frame.inst.out
  <2>1. PICK fr : fr = Frame
    OBVIOUS
  <2> QED BY <1>1, <1>2, <1>4, <2>1, PromiseIs
<1> QED BY <1>2, <1>3, <1>4

\* The innermost callback answers its call with entry e.
LEMMA ClosedFacts ==
    ASSUME ContractInv, verdict = "running", stack # <<>>, Frame.at # 0,
           NEW e \in Entries, e.fn = Frame.fn, e.state # "open"
    PROVE  /\ Closed(e) = [log EXCEPT ![Frame.at] = e] /\ Closed(e) \in Seq(Entries)
           /\ DOMAIN Closed(e) = DOMAIN log /\ SameFuncs(Closed(e), log)
           /\ Closed(e)[Frame.at] = e
           /\ \A i \in DOMAIN log : i # Frame.at => Closed(e)[i] = log[i]
           /\ Ends(Closed(e), log, stack, Len(stack) - 1)
<1>1. Closed(e) = [log EXCEPT ![Frame.at] = e]
  BY DEF Closed
<1>2. /\ Frame.at \in DOMAIN log /\ log[Frame.at].fn = Frame.fn
      /\ Len(stack) \in DOMAIN stack /\ Frame = stack[Len(stack)]
      /\ stack \in Seq(Frames) /\ log \in Seq(Entries)
  BY FrameFacts, StackSteps, WhileRunning
<1>3. /\ DOMAIN Closed(e) = DOMAIN log /\ Closed(e)[Frame.at] = e
      /\ \A i \in DOMAIN log : i # Frame.at => Closed(e)[i] = log[i]
  BY <1>1, <1>2
<1>4. Closed(e) \in Seq(Entries)
  BY <1>1, <1>2
<1>5. SameFuncs(Closed(e), log)
  BY <1>2, <1>3 DEF SameFuncs
<1>6. \A j : j \in Len(stack) - 1 + 1 .. Len(stack) <=> j = Len(stack)
  BY <1>2
<1>7. Ends(Closed(e), log, stack, Len(stack) - 1)
  BY <1>2, <1>3, <1>5, <1>6 DEF Ends
<1> QED BY <1>1, <1>3, <1>4, <1>5, <1>7

LEMMA CallbackReturnsSteps == ASSUME ContractInv, CallbackReturns PROVE Tracked' /\ Simulated
<1> DEFINE f == Frame.fn
           inst == Frame.inst
<1>1. /\ stack # <<>> /\ ~inst.throws /\ UNCHANGED <<mock, order>>
      /\ Typed /\ f \in Funcs /\ inst.arg \in Args /\ inst.out \in Outs \cup {NoOut}
      /\ phase # "over" /\ stack \in Seq(Frames) /\ Len(stack) - 1 \in 0 .. Len(stack)
      /\ Len(stack) \in DOMAIN stack /\ Frame = stack[Len(stack)]
  <2>1. stack # <<>> /\ ~inst.throws /\ UNCHANGED <<mock, order>> /\ Typed
    BY DEF CallbackReturns, ContractInv
  <2> QED BY <2>1, FrameType, StackSteps
<1>2. ASSUME inst.out # NoOut, inst.arg = NULL, Fail(f, inst.arg, "null")
      PROVE  Tracked' /\ Simulated
  <2>1. ASSUME verdict = "running", f \in Strict
        PROVE  \E i \in Contract!Open :
                 /\ log[i].fn = f
                 /\ Contract!NeedsPointer(promised[Contract!PromiseOf(i)], log[i].arg)
    <3>1. Contract!NeedsPointer(promised[Contract!PromiseOf(Frame.at)], log[Frame.at].arg)
      BY <1>1, <1>2, <2>1, FrameFacts DEF Contract!NeedsPointer
    <3> QED BY <1>1, <2>1, <3>1, FrameFacts
  <2> HIDE DEF f, inst
  <2> QED BY <1>1, <1>2, <2>1, FailStep
<1>3. ASSUME inst.out # NoOut => inst.arg # NULL, NEW ret \in Rets,
             log' = Closed(Entry(f, inst.arg, "returned", ret, inst.out)),
             stack' = Below, UNCHANGED <<runner, promised>>
      PROVE  Tracked' /\ Simulated
  <2> DEFINE e == Entry(f, inst.arg, "returned", ret, inst.out)
  <2>1. /\ UNCHANGED <<promised, verdict, offender, phase>>
        /\ stack' = SubSeq(stack, 1, Len(stack) - 1) /\ log' = Closed(e)
    BY <1>3 DEF runner, Below
  <2>2. e \in Entries /\ e.fn = f /\ e.state = "returned" /\ e.arg = inst.arg
    BY <1>1, EntryType DEF Entry
  <2>3. CASE verdict # "running"
    <3>1. \A j \in DOMAIN stack : stack[j].at = 0
      BY <2>3 DEF ContractInv, Tracked, RunnerInv
    <3>2. log' = log
      BY <1>1, <2>1, <3>1 DEF Closed
    <3>3. \A j \in DOMAIN stack' : j \in DOMAIN stack /\ stack'[j] = stack[j]
      BY <1>1, <2>1
    <3> QED BY <1>1, <2>1, <2>3, <3>1, <3>2, <3>3, AfterFailure
  <2>4. CASE verdict = "running" /\ Frame.at = 0
    <3>1. log' = log
      BY <2>1, <2>4 DEF Closed
    <3>2. \A j \in Len(stack) - 1 + 1 .. Len(stack) : stack[j].at = 0
      <4>1. \A j \in Len(stack) - 1 + 1 .. Len(stack) : j = Len(stack)
        BY <1>1
      <4> QED BY <1>1, <2>4, <4>1
    <3>3. Ends(log, log, stack, Len(stack) - 1)
      BY <2>4, <3>2, WhileRunning DEF Ends, SameFuncs
    <3>4. Tracked'
      BY <1>1, <2>1, <2>4, <3>1, <3>3, EndKeeps
    <3> QED BY <2>1, <3>1, <3>4 DEF Simulated
  <2>5. CASE verdict = "running" /\ Frame.at # 0
    <3>1. /\ Closed(e) = [log EXCEPT ![Frame.at] = e]
          /\ Ends(Closed(e), log, stack, Len(stack) - 1)
      <4> HIDE DEF e
      <4> QED BY <1>1, <2>2, <2>5, ClosedFacts
    <3>2. Tracked'
      <4> HIDE DEF e
      <4> QED BY <1>1, <2>1, <2>5, <3>1, EndKeeps
    <3> DEFINE i == Frame.at
               p == promised[Contract!PromiseOf(i)]
    <3>3. /\ i \in Contract!Open /\ log[i].arg = inst.arg /\ p.fn = f
          /\ p.throws = inst.throws /\ p.out = inst.out
      BY <1>1, <2>5, FrameFacts
    <3>4. ~Contract!NeedsPointer(p, log[i].arg)
      BY <1>3, <3>3 DEF Contract!NeedsPointer
    <3>5. Contract!Answer(p, log[i].arg, ret) = e
      BY <1>1, <3>3 DEF Contract!Answer, Contract!Entry, Entry
    <3>6. Contract!Abandoned({}) = log
      <4>1. log = [j \in DOMAIN log |-> log[j]]
        BY <2>5, WhileRunning
      <4> QED BY <4>1 DEF Contract!Abandoned
    <3>7. log' = [Contract!Abandoned({}) EXCEPT ![i] = Contract!Answer(p, log[i].arg, ret)]
      BY <2>1, <3>1, <3>5, <3>6
    <3>8. Contract!CallBack(i)
      <4>1. verdict = "running" /\ UNCHANGED <<verdict, offender, promised>>
        BY <2>1, <2>5
      <4> HIDE DEF i
      <4> QED BY <3>4, <3>7, <4>1 DEF Contract!CallBack, Contract!Running
    <3> HIDE DEF i
    <3> QED BY <3>2, <3>3, <3>8 DEF Simulated, Contract!MCNext
  <2> QED BY <2>3, <2>4, <2>5
<1>4. ASSUME NEW r \in RetsOf(f), NEW junk \in RetsOf(f)
      PROVE  (IF Frame.room = room THEN r ELSE junk) \in Rets
  BY MockAssumption DEF RetsOf
<1> QED BY <1>2, <1>3, <1>4 DEF CallbackReturns

LEMMA CallbackThrowsSteps == ASSUME ContractInv, CallbackThrows PROVE Tracked' /\ Simulated
<1> DEFINE f == Frame.fn
           inst == Frame.inst
           e == Entry(f, inst.arg, "thrown", 0, NoOut)
           l == Closed(e)
<1>1. /\ stack # <<>> /\ inst.throws /\ UNCHANGED <<mock, order, promised, verdict, offender, phase>>
      /\ phase # "over" /\ stack \in Seq(Frames)
      /\ Len(stack) \in DOMAIN stack /\ Frame = stack[Len(stack)]
  <2>1. stack # <<>> /\ inst.throws /\ UNCHANGED <<mock, order, promised, verdict, offender, phase>>
    BY DEF CallbackThrows, runner
  <2> QED BY <2>1, StackSteps
<1>2. PICK k \in 0 .. Len(stack) - 1 : stack' = SubSeq(stack, 1, k) /\ log' = Unwound(l, k)
  BY DEF CallbackThrows
<1>3. e \in Entries /\ e.fn = f /\ e.state = "thrown"
  <2>1. f \in Funcs /\ inst.arg \in Args /\ 0 \in Rets /\ NoOut \in Outs \cup {NoOut}
    BY <1>1, FrameType, MockAssumption DEF ContractInv
  <2> QED BY <2>1, EntryType DEF Entry
<1>4. /\ k \in 0 .. Len(stack) /\ Len(stack) \in k + 1 .. Len(stack)
      /\ log \in Seq(Entries)
  BY <1>1 DEF ContractInv, Typed, LogType
<1>5. CASE verdict # "running"
  <2>1. \A j \in DOMAIN stack : stack[j].at = 0
    BY <1>5 DEF ContractInv, Tracked, RunnerInv
  <2>2. l = log
    BY <1>1, <2>1 DEF Closed
  <2>3. Gone(log, k) = {}
    <3>1. \A j \in k + 1 .. Len(stack) : j \in DOMAIN stack
      BY <1>1, <1>4
    <3>2. 0 \notin DOMAIN log
      BY <1>4
    <3> QED BY <2>1, <3>1, <3>2 DEF Gone
  <2>4. log' = log
    BY <1>2, <1>4, <2>2, <2>3, UnwoundFacts
  <2>5. \A j \in DOMAIN stack' : j \in DOMAIN stack /\ stack'[j] = stack[j]
    BY <1>1, <1>2, <1>4
  <2> QED BY <1>1, <1>5, <2>1, <2>4, <2>5, AfterFailure
<1>6. CASE verdict = "running" /\ Frame.at = 0
  <2>1. l = log
    BY <1>6 DEF Closed
  <2>2. /\ Ends(Unwound(log, k), log, stack, k)
        /\ Unwound(log, k) = [i \in DOMAIN log |->
             IF i \in Gone(log, k) THEN [log[i] EXCEPT !.state = "lost"] ELSE log[i]]
    BY <1>4, UnwoundFacts
  <2>3. Gone(log, k) \in SUBSET Contract!Open
        /\ log' = Contract!Abandoned(Gone(log, k))
    BY <1>2, <2>1, <2>2 DEF Gone, Contract!Open, Contract!Abandoned
  <2>4. Contract!Abandon
    BY <1>1, <1>6, <2>3 DEF Contract!Abandon, Contract!Running
  <2>5. Tracked'
    BY <1>1, <1>2, <1>4, <1>6, <2>1, <2>2, EndKeeps
  <2> QED BY <2>4, <2>5 DEF Simulated, Contract!MCNext
<1>7. CASE verdict = "running" /\ Frame.at # 0
  <2> DEFINE i == Frame.at
             p == promised[Contract!PromiseOf(i)]
             m == Unwound(l, k)
             K == Gone(l, k)
  <2>1. /\ l \in Seq(Entries) /\ DOMAIN l = DOMAIN log /\ SameFuncs(l, log)
        /\ l[i] = e /\ \A j \in DOMAIN log : j # i => l[j] = log[j]
    <3> HIDE DEF e
    <3> QED BY <1>1, <1>3, <1>7, ClosedFacts
  <2>2. /\ i \in Contract!Open /\ i \in DOMAIN log /\ log[i].arg = inst.arg
        /\ p.fn = f /\ p.throws
    BY <1>1, <1>7, FrameFacts
  <2> HIDE DEF l
  <2>3. /\ SameFuncs(m, l) /\ Ends(m, l, stack, k)
        /\ m = [j \in DOMAIN l |-> IF j \in K THEN [l[j] EXCEPT !.state = "lost"] ELSE l[j]]
    BY <2>1, UnwoundFacts
  <2>4. i \notin K /\ K \in SUBSET (Contract!Open \ {i})
    BY <1>3, <2>1 DEF Gone, Contract!Open
  <2>5. Contract!Answer(p, log[i].arg, 0) = e
    BY <2>2 DEF Contract!Answer, Contract!Entry, Entry
  <2>6. m = [Contract!Abandoned(K) EXCEPT ![i] = e]
    <3> HIDE DEF i, e, K, m
    <3>1. DOMAIN Contract!Abandoned(K) = DOMAIN log
      BY DEF Contract!Abandoned
    <3>2. \A j \in DOMAIN log :
            m[j] = IF j = i THEN e ELSE Contract!Abandoned(K)[j]
      BY <2>1, <2>2, <2>3, <2>4 DEF Contract!Abandoned
    <3>3. m = [j \in DOMAIN log |-> m[j]]
      BY <2>1, <2>3
    <3> QED BY <3>1, <3>2, <3>3 DEF Contract!Abandoned
  <2>7. Contract!CallBack(i)
    <3>1. verdict = "running" /\ UNCHANGED <<verdict, offender, promised>>
      BY <1>1, <1>7
    <3>2. log' = [Contract!Abandoned(K) EXCEPT ![i] = Contract!Answer(p, log[i].arg, 0)]
      BY <1>2, <2>5, <2>6
    <3>3. ~Contract!NeedsPointer(p, log[i].arg)
      BY <2>2 DEF Contract!NeedsPointer
    <3>4. 0 \in Rets
      BY MockAssumption
    <3> HIDE DEF i, K
    <3> QED BY <2>2, <2>4, <3>1, <3>2, <3>3, <3>4 DEF Contract!CallBack, Contract!Running
  <2>8. Ends(m, log, stack, k)
    <3>1. SameFuncs(m, log)
      BY <2>1, <2>3 DEF SameFuncs
    <3>2. stack[Len(stack)].at = i /\ m[i].state # "open"
      BY <1>1, <1>3, <2>1, <2>2, <2>3, <2>4
    <3> HIDE DEF i, m
    <3>3. ASSUME NEW j \in DOMAIN log
          PROVE  \/ \E n \in k + 1 .. Len(stack) : stack[n].at = j /\ m[j].state # "open"
                 \/ /\ m[j] = log[j]
                    /\ \A n \in k + 1 .. Len(stack) : stack[n].at = j => log[j].state # "open"
      <4>1. CASE j = i
        BY <1>4, <3>2, <4>1
      <4>2. CASE j # i
        BY <2>1, <2>3, <4>2 DEF Ends
      <4> QED BY <4>1, <4>2
    <3> QED BY <3>1, <3>3 DEF Ends
  <2>9. Tracked'
    <3> HIDE DEF m
    <3>1. m = log'
      BY <1>2 DEF m
    <3> QED BY <1>1, <1>2, <1>4, <1>7, <2>8, <3>1, EndKeeps
  <2> HIDE DEF i
  <2> QED BY <2>2, <2>7, <2>9 DEF Simulated, Contract!MCNext
<1> QED BY <1>5, <1>6, <1>7

-----------------------------------------------------------------------------
(* The mocks keep their contract.                                          *)

LEMMA NextSimulates ==
    ASSUME Ordered => OnlyStrictExpected, ContractInv, [Next]_vars
    PROVE  ContractInv' /\ (Contract!MCNext \/ UNCHANGED Contract!mcVars)
<1>1. Typed' /\ StrictIsChecked' /\ (Ordered => OrderInv')
  BY NextTyped, NextStrict, NextOrder DEF ContractInv
<1>2. Tracked' /\ Simulated
  <2>1. CASE UNCHANGED vars
    <3>1. UNCHANGED <<promised, log, verdict, offender, mock, stack, phase, order>>
      BY <2>1 DEF vars, order
    <3>2. Tracked'
      BY <3>1 DEF ContractInv, Tracked, RunnerInv, RunningInv, Strict, Asks, order
    <3> QED BY <3>1, <3>2 DEF Simulated
  <2>2. CASE EndBody
    BY <2>2, EndBodySteps
  <2>3. CASE Verify
    BY <2>3, VerifySteps
  <2>4. CASE NextTest
    BY <2>4, NextTestSteps
  <2>5. CASE StubReturns
    BY <2>5, StubReturnsSteps
  <2>6. CASE CallbackReturns
    BY <2>6, CallbackReturnsSteps
  <2>7. CASE CallbackThrows
    BY <2>7, CallbackThrowsSteps
  <2>8. ASSUME NEW f \in Funcs,
               \/ Expect(f) \/ IgnoreArg(f) \/ ReturnThruPtr(f) \/ Ignore(f)
               \/ IgnoreAndReturn(f) \/ IgnoreStateless(f) \/ StopIgnore(f) \/ Install(f)
        PROVE  Tracked' /\ Simulated
    <3>1. CASE Expect(f)
      BY <3>1, ExpectSteps
    <3>2. CASE IgnoreArg(f)
      BY <3>2, IgnoreArgSteps
    <3>3. CASE ReturnThruPtr(f)
      BY <3>3, ReturnThruPtrSteps
    <3>4. CASE Ignore(f) \/ IgnoreAndReturn(f) \/ IgnoreStateless(f) \/ StopIgnore(f) \/ Install(f)
      BY <3>4, SettingSteps
    <3> QED BY <2>8, <3>1, <3>2, <3>3, <3>4
  <2>9. ASSUME NEW f \in Funcs, NEW a \in Args,
               \/ CallIgnored(f, a) \/ CallStubbed(f, a) \/ CallsBack(f, a)
               \/ CallFails(f, a) \/ CallReturns(f, a) \/ CallThrows(f, a)
        PROVE  Tracked' /\ Simulated
    <3>1. CASE CallIgnored(f, a) \/ CallStubbed(f, a)
      BY <3>1, UncheckedCallSteps
    <3>2. CASE CallsBack(f, a)
      BY <3>2, CallsBackSteps
    <3>3. CASE CallFails(f, a)
      BY <3>3, CallFailsSteps
    <3>4. CASE CallReturns(f, a)
      BY <3>4, CallReturnsSteps
    <3>5. CASE CallThrows(f, a)
      BY <3>5, CallThrowsSteps
    <3> QED BY <2>9, <3>1, <3>2, <3>3, <3>4, <3>5
  <2> QED BY <2>1, <2>2, <2>3, <2>4, <2>5, <2>6, <2>7, <2>8, <2>9 DEF Next
<1>3. ContractInv'
  BY <1>1, <1>2 DEF ContractInv
<1> QED BY <1>2, <1>3 DEF Simulated, Contract!mcVars

LEMMA InitSimulates == Init => ContractInv /\ Contract!MCInit
<1> SUFFICES ASSUME Init PROVE ContractInv /\ Contract!MCInit
  OBVIOUS
<1>1. /\ promised = <<>> /\ log = <<>> /\ verdict = "running" /\ offender = Nothing
      /\ stack = <<>> /\ phase = "body" /\ expectCount = 0 /\ verifyOrder = 0
      /\ \A f \in Funcs : mock[f] = Cleared
  BY DEF Init, AllCleared
<1>2. Contract!MCInit
  BY <1>1 DEF Contract!MCInit, Nothing
<1>3. StrictIsChecked
  BY <1>1, ClearedIsChecked DEF StrictIsChecked, Strict
<1>4. RunningInv
  <2>1. \A f \in Strict : mock[f].queue = <<>>
    BY <1>1 DEF Strict, Cleared
  <2>2. Len(<<>>) = 0
    OBVIOUS
  <2> QED BY <1>1, <2>1, <2>2, NothingWaits DEF RunningInv
<1>5. Tracked
  BY <1>1, <1>4, NothingWaits DEF Tracked, RunnerInv
<1> QED BY <1>2, <1>3, <1>5, InitTyped, InitOrder DEF ContractInv

\* A test passes if and only if the functions it only expects calls of are
\* called as it expects, and they answer as it asks: every step of the
\* generated mocks is a step of their contract.  With strict ordering this
\* takes that only functions that are never ignored or stubbed are expected.
THEOREM MocksKeepContract ==
    ASSUME Ordered => OnlyStrictExpected PROVE Spec => KeepsContract
<1>1. Init => ContractInv /\ Contract!MCInit
  BY InitSimulates
<1>2. ContractInv /\ [Next]_vars => ContractInv' /\ [Contract!MCNext]_(Contract!mcVars)
  BY NextSimulates
<1> QED BY <1>1, <1>2, PTL DEF Spec, KeepsContract, Contract!MCSpec
=============================================================================
