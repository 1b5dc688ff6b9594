---------------------------- MODULE ParserProofs ----------------------------
(***************************************************************************)
(* Proofs about HeaderParser, pass by pass: DisabledCode keeps the lines   *)
(* it should, however deep conditionals nest; CppScopes mocks the          *)
(* functions it should, under the scopes they are in; and ArgPairing pairs *)
(* every pointer with the size it should, in one header after the other.   *)
(***************************************************************************)
EXTENDS HeaderParser, FiniteSetTheorems, SequenceTheorems, TLAPS

-----------------------------------------------------------------------------
(* The conditionals.                                                       *)

\* What was taken of the groups further out does not depend on those inside.
LEMMA OuterTaken ==
    ASSUME NEW s, NEW t, NEW k \in Nat, \A i \in 1 .. k : t[i] = s[i],
           NEW n \in 0 .. k
    PROVE  AllTaken(t, n) <=> AllTaken(s, n)
  BY DEF AllTaken

\* All groups are taken if the innermost one is and those around it are.
LEMMA InnerTaken ==
    ASSUME NEW s, NEW k \in Nat
    PROVE  AllTaken(s, k + 1) <=> AllTaken(s, k) /\ Taken(s[k + 1])
<1>1. 1 .. (k + 1) = (1 .. k) \cup {k + 1}
  OBVIOUS
<1> QED
  BY <1>1 DEF AllTaken

\* What the invariant says of one entry, the i-th of stack st, and one group,
\* the i-th of groups op.
EntryInv(st, op, i) ==
    /\ st[i].restore <=> AllTaken(op, i - 1)
    /\ st[i].onElse <=> AllTaken(op, i - 1) /\ op[i].cond # "1"
    /\ st[i].seenElse <=> op[i].branch = "else"

\* A conditional that opens puts one entry on the stack and one group around
\* the next line, and the two go together.
LEMMA PushInvariance ==
    ASSUME IInv, NEW cond \in {"0", "1", "unknown"}, NEW onElse \in BOOLEAN,
           NEW now \in BOOLEAN, Push(cond, onElse, now),
           onElse <=> emit /\ cond # "1", now <=> emit /\ cond # "0"
    PROVE  IInv'
<1> DEFINE e == [restore |-> emit, onElse |-> onElse, seenElse |-> FALSE]
           g == [cond |-> cond, branch |-> "if"]
           n == Len(stack)
<1>1. /\ emit \in BOOLEAN /\ stack \in Seq(Entries) /\ open \in Seq(Groups)
      /\ n \in Nat /\ Len(open) = n
  BY DEF IInv, TypeOK, StackInv
<1>2. e \in Entries /\ g \in Groups
  BY <1>1 DEF Entries, Groups
<1>3. /\ stack' = Append(stack, e) /\ open' = Append(open, g)
      /\ emit' = now /\ line' = "directive"
  BY DEF Push
<1>4. TypeOK'
  BY <1>1, <1>2, <1>3 DEF TypeOK
<1>5. /\ Len(stack') = n + 1 /\ Len(open') = n + 1
      /\ stack'[n + 1] = e /\ open'[n + 1] = g
      /\ \A i \in 1 .. n : stack'[i] = stack[i] /\ open'[i] = open[i]
  BY <1>1, <1>2, <1>3
<1>6. \A k \in 0 .. n : AllTaken(open', k) <=> AllTaken(open, k)
  BY <1>1, <1>5, OuterTaken
<1>7. emit <=> AllTaken(open, n)
  BY <1>1 DEF IInv, StackInv
<1>8. emit' <=> AllTaken(open', n + 1)
  <2>1. Taken(open'[n + 1]) <=> cond # "0"
    BY <1>5 DEF Taken
  <2>2. AllTaken(open', n + 1) <=> AllTaken(open', n) /\ Taken(open'[n + 1])
    BY <1>1, InnerTaken
  <2> QED
    BY <1>1, <1>3, <1>6, <1>7, <2>1, <2>2
<1>9. ASSUME NEW i \in 1 .. n + 1
      PROVE  EntryInv(stack', open', i)
  <2>1. CASE i = n + 1
    <3>1. AllTaken(open', i - 1) <=> emit
      BY <1>1, <1>6, <1>7, <2>1
    <3> QED
      BY <1>5, <2>1, <3>1 DEF EntryInv
  <2>2. CASE i \in 1 .. n
    <3>1. AllTaken(open', i - 1) <=> AllTaken(open, i - 1)
      BY <1>1, <1>6, <2>2
    <3> QED
      BY <1>1, <1>5, <2>2, <3>1 DEF IInv, StackInv, EntryInv
  <2> QED
    BY <1>1, <2>1, <2>2
<1>10. StackInv'
  BY <1>3, <1>5, <1>8, <1>9 DEF StackInv, EntryInv
<1> QED
  BY <1>4, <1>10 DEF IInv

\* The n-th group goes from its branch to a later one, its entry remembers
\* whether that is an #else.
NextBranch(n, branch, now) ==
    /\ open' = [open EXCEPT ![n].branch = branch]
    /\ stack' = [stack EXCEPT ![n].seenElse = (branch = "else")]
    /\ emit' = now
    /\ line' = "directive"

\* The next branch of the innermost group leaves what is around the group, and
\* its lines are kept if that is and the code takes the branch.
LEMMA BranchInvariance ==
    ASSUME IInv, NEW n, n = Len(stack), n # 0,
           NEW branch \in {"elif", "else"}, NEW now \in BOOLEAN,
           NextBranch(n, branch, now),
           now <=> AllTaken(open, n - 1) /\ Taken([cond |-> open[n].cond, branch |-> branch])
    PROVE  IInv'
<1> DEFINE g == [cond |-> open[n].cond, branch |-> branch]
           e == [restore |-> stack[n].restore, onElse |-> stack[n].onElse,
                 seenElse |-> (branch = "else")]
<1>1. /\ stack \in Seq(Entries) /\ open \in Seq(Groups) /\ Len(open) = n
      /\ n \in Nat \ {0} /\ Len(stack) = n
  BY DEF IInv, TypeOK, StackInv
<1>2. /\ stack[n] \in Entries /\ open[n] \in Groups
  BY <1>1
<1>3. /\ g \in Groups /\ e \in Entries
      /\ [open[n] EXCEPT !.branch = branch] = g
      /\ [stack[n] EXCEPT !.seenElse = (branch = "else")] = e
  BY <1>2 DEF Entries, Groups
<1>4. /\ open' = [open EXCEPT ![n] = g]
      /\ stack' = [stack EXCEPT ![n] = e]
      /\ emit' = now /\ line' = "directive"
  BY <1>3 DEF NextBranch
<1> HIDE DEF g, e
<1>5. /\ stack' \in Seq(Entries) /\ open' \in Seq(Groups)
      /\ Len(stack') = n /\ Len(open') = n
      /\ stack'[n] = e /\ open'[n] = g
      /\ \A i \in 1 .. n - 1 : stack'[i] = stack[i] /\ open'[i] = open[i]
  BY <1>1, <1>3, <1>4
<1>6. ASSUME NEW k \in 0 .. n - 1
      PROVE  AllTaken(open', k) <=> AllTaken(open, k)
  <2>1. n - 1 \in Nat
    BY <1>1
  <2>2. \A i \in 1 .. n - 1 : open'[i] = open[i]
    BY <1>5
  <2> QED
    BY <2>1, <2>2, OuterTaken
<1>7. emit' <=> AllTaken(open', n)
  <2>1. n - 1 \in Nat /\ (n - 1) + 1 = n /\ n - 1 \in 0 .. n - 1
    BY <1>1
  <2>2. AllTaken(open', n) <=> AllTaken(open', n - 1) /\ Taken(open'[n])
    BY <2>1, InnerTaken
  <2>3. AllTaken(open', n - 1) <=> AllTaken(open, n - 1)
    BY <2>1, <1>6
  <2> QED
    BY <1>4, <1>5, <2>2, <2>3 DEF g
<1>8. ASSUME NEW i \in 1 .. n
      PROVE  EntryInv(stack', open', i)
  <2>1. i - 1 \in 0 .. n - 1
    BY <1>1
  <2>2. AllTaken(open', i - 1) <=> AllTaken(open, i - 1)
    BY <2>1, <1>6
  <2>3. EntryInv(stack, open, i)
    BY <1>1 DEF IInv, StackInv, EntryInv
  <2>4. CASE i = n
    <3>1. /\ stack'[n].restore <=> stack[n].restore
          /\ stack'[n].onElse <=> stack[n].onElse
          /\ stack'[n].seenElse <=> branch = "else"
          /\ open'[n].cond = open[n].cond
          /\ open'[n].branch = branch
      <4>1. /\ e.restore = stack[n].restore /\ e.onElse = stack[n].onElse
            /\ e.seenElse = (branch = "else")
        BY Zenon DEF e
      <4>2. g.cond = open[n].cond /\ g.branch = branch
        BY DEF g
      <4> QED
        BY <1>5, <4>1, <4>2
    <3> QED
      BY <2>2, <2>3, <2>4, <3>1 DEF EntryInv
  <2>5. CASE i \in 1 .. n - 1
    BY <1>5, <2>2, <2>3, <2>5 DEF EntryInv
  <2> QED
    BY <1>1, <2>4, <2>5
<1>9. TypeOK'
  BY <1>4, <1>5 DEF TypeOK
<1>10. StackInv'
  BY <1>4, <1>5, <1>7, <1>8 DEF StackInv, EntryInv
<1> QED
  BY <1>9, <1>10 DEF IInv

\* #else of the innermost group, or a stray one.
LEMMA ElseInvariance ==
    ASSUME IInv, Else
    PROVE  IInv'
<1> DEFINE n == Len(stack)
<1>1. /\ stack \in Seq(Entries) /\ open \in Seq(Groups) /\ Len(open) = n
      /\ n \in Nat /\ (stack # <<>> => n # 0)
  BY DEF IInv, TypeOK, StackInv
<1>2. CASE stack # <<>> /\ ~stack[n].seenElse
  <2>1. /\ n \in 1 .. n /\ stack[n] \in Entries /\ EntryInv(stack, open, n)
    BY <1>1, <1>2 DEF IInv, StackInv, EntryInv
  <2>2. stack[n].onElse <=>
          AllTaken(open, n - 1) /\ Taken([cond |-> open[n].cond, branch |-> "else"])
    BY <2>1 DEF EntryInv, Taken
  <2>3. stack[n].onElse \in BOOLEAN
    BY <2>1 DEF Entries
  <2> QED
    BY <1>1, <1>2, <2>2, <2>3, BranchInvariance DEF Else, NextBranch
<1>3. CASE ~(stack # <<>> /\ ~stack[n].seenElse)
  BY <1>3 DEF Else, IInv, TypeOK, StackInv
<1> QED
  BY <1>2, <1>3

\* #endif restores what was before the innermost group.
LEMMA EndIfInvariance ==
    ASSUME IInv, EndIf
    PROVE  IInv'
<1> DEFINE n == Len(stack)
<1>1. /\ stack \in Seq(Entries) /\ open \in Seq(Groups) /\ Len(open) = n
      /\ n \in Nat /\ (stack # <<>> => n # 0)
  BY DEF IInv, TypeOK, StackInv
<1>2. CASE stack # <<>>
  <2>1. /\ n \in 1 .. n /\ n - 1 \in 0 .. n
        /\ stack[n] \in Entries /\ EntryInv(stack, open, n)
    BY <1>1, <1>2 DEF IInv, StackInv, EntryInv
  <2>2. /\ stack' = SubSeq(stack, 1, n - 1) /\ open' = SubSeq(open, 1, n - 1)
        /\ emit' = stack[n].restore /\ line' = "directive"
    BY <1>2 DEF EndIf
  <2>3. /\ stack' \in Seq(Entries) /\ open' \in Seq(Groups)
        /\ Len(stack') = n - 1 /\ Len(open') = n - 1
        /\ \A i \in 1 .. n - 1 : stack'[i] = stack[i] /\ open'[i] = open[i]
    BY <1>1, <2>1, <2>2
  <2>4. ASSUME NEW k \in 0 .. n - 1
        PROVE  AllTaken(open', k) <=> AllTaken(open, k)
    <3>1. n - 1 \in Nat
      BY <1>1, <2>1
    <3> QED
      BY <2>3, <3>1, OuterTaken
  <2>5. emit' \in BOOLEAN /\ (emit' <=> AllTaken(open', n - 1))
    <3>1. stack[n].restore \in BOOLEAN
      BY <2>1 DEF Entries
    <3>2. stack[n].restore <=> AllTaken(open, n - 1)
      BY <2>1 DEF EntryInv
    <3>3. n - 1 \in 0 .. n - 1
      BY <1>1, <2>1
    <3> QED
      BY <2>2, <2>4, <3>1, <3>2, <3>3
  <2>6. ASSUME NEW i \in 1 .. n - 1
        PROVE  EntryInv(stack', open', i)
    <3>1. AllTaken(open', i - 1) <=> AllTaken(open, i - 1)
      BY <1>1, <2>4
    <3>2. EntryInv(stack, open, i)
      BY <1>1 DEF IInv, StackInv, EntryInv
    <3> QED
      BY <2>3, <3>1, <3>2 DEF EntryInv
  <2>7. TypeOK'
    BY <2>2, <2>3, <2>5 DEF TypeOK
  <2>8. StackInv'
    BY <2>2, <2>3, <2>5, <2>6 DEF StackInv, EntryInv
  <2> QED
    BY <2>7, <2>8 DEF IInv
<1>3. CASE stack = <<>>
  BY <1>3 DEF EndIf, IInv, TypeOK, StackInv
<1> QED
  BY <1>2, <1>3

\* An #elif changes what a preprocessor knows; the code goes on as before.
LEMMA ElifInvariance ==
    ASSUME IInv, Elif
    PROVE  IInv'
<1> DEFINE n == Len(open)
<1>1. /\ emit \in BOOLEAN /\ stack \in Seq(Entries) /\ open \in Seq(Groups)
      /\ Len(stack) = n /\ n \in Nat /\ (open # <<>> => n # 0)
  BY DEF IInv, TypeOK, StackInv
<1>2. CASE open # <<>> /\ open[n].branch = "if"
  <2>1. /\ n \in 1 .. n /\ stack[n] \in Entries /\ open[n] \in Groups
        /\ EntryInv(stack, open, n)
    BY <1>1, <1>2 DEF IInv, StackInv, EntryInv
  <2>2. stack[n].seenElse = FALSE
    BY <1>2, <2>1 DEF EntryInv, Entries
  <2>3. stack = [stack EXCEPT ![n].seenElse = FALSE]
    <3>1. stack[n] = [stack[n] EXCEPT !.seenElse = FALSE]
      BY <2>1, <2>2 DEF Entries
    <3>2. stack = [stack EXCEPT ![n] = [stack[n] EXCEPT !.seenElse = FALSE]]
      BY <1>1, <3>1
    <3> QED
      BY <3>2
  <2>4. AllTaken(open, (n - 1) + 1) <=> AllTaken(open, n - 1) /\ Taken(open[(n - 1) + 1])
    BY <2>1, InnerTaken
  <2>5. Taken(open[n]) <=> Taken([cond |-> open[n].cond, branch |-> "elif"])
    BY <1>2 DEF Taken
  <2>6. emit <=> AllTaken(open, n)
    BY DEF IInv, StackInv
  <2>7. emit <=> AllTaken(open, n - 1) /\ Taken([cond |-> open[n].cond, branch |-> "elif"])
    BY <1>1, <2>4, <2>5, <2>6
  <2> QED
    BY <1>1, <1>2, <2>3, <2>7, BranchInvariance DEF Elif, NextBranch
<1>3. CASE ~(open # <<>> /\ open[n].branch = "if")
  BY <1>3 DEF Elif, IInv, TypeOK, StackInv
<1> QED
  BY <1>2, <1>3

\* A line that is read, whatever it is.
LEMMA NextInvariance ==
    ASSUME IInv, [Next]_dcVars
    PROVE  IInv'
<1>1. CASE IfZero
  BY <1>1, PushInvariance DEF IfZero, IInv, TypeOK
<1>2. CASE IfOne
  BY <1>2, PushInvariance DEF IfOne, IInv, TypeOK
<1>3. CASE IfUnknown
  BY <1>3, PushInvariance DEF IfUnknown, IInv, TypeOK
<1>4. CASE Else
  BY <1>4, ElseInvariance
<1>5. CASE EndIf
  BY <1>5, EndIfInvariance
<1>6. CASE Code
  BY <1>6 DEF Code, Keep, IInv, TypeOK, StackInv
<1>7. CASE Elif
  BY <1>7, ElifInvariance
<1>8. CASE UNCHANGED dcVars
  BY <1>8 DEF dcVars, IInv, TypeOK, StackInv
<1> QED
  BY <1>1, <1>2, <1>3, <1>4, <1>5, <1>6, <1>7, <1>8 DEF Next

\* At the start of a text nothing is open.
LEMMA InitInvariance ==
    ASSUME Init
    PROVE  IInv
  BY DEF Init, IInv, TypeOK, StackInv, AllTaken

\* Entries and groups go together, and the code keeps a line exactly when all
\* the groups around it are taken.
THEOREM Invariance == Spec => []IInv
<1>1. Init => IInv
  BY InitInvariance
<1> QED
  BY <1>1, NextInvariance, PTL DEF Spec

\* The invariant says what is kept.
LEMMA KeptLines ==
    ASSUME IInv
    PROVE  KeepsWhatMayCompile
<1> SUFFICES ASSUME line # "directive",
                    \A i \in 1 .. Len(open) : ~LiteralElif(open[i])
             PROVE  line = "kept" <=> \A i \in 1 .. Len(open) : MayCompile(open[i])
  BY DEF KeepsWhatMayCompile
<1>1. line = "kept" <=> AllTaken(open, Len(open))
  BY DEF IInv, StackInv
<1>2. ASSUME NEW i \in 1 .. Len(open)
      PROVE  MayCompile(open[i]) <=> Taken(open[i])
  <2>1. open[i] \in Groups /\ ~LiteralElif(open[i])
    BY DEF IInv, TypeOK
  <2> QED
    BY <2>1 DEF Groups, LiteralElif, MayCompile, Taken
<1> QED
  BY <1>1, <1>2 DEF AllTaken

-----------------------------------------------------------------------------
(* Pairs of sizes and pointers.                                            *)

TypeInv ==
    /\ shape \in [Args!Positions -> {"pointer", "size", "other"}]
    /\ \A p \in Args!Pointers, s \in Args!Candidates : affinity[p][s] \in Nat
    /\ sizeIdx \in 1 .. N + 1 /\ ptrIdx \in 1 .. N + 1
    /\ sizeName \in [Args!Positions -> Args!Positions \cup {Args!None}]
    /\ sizeOrder \in [Args!Positions -> {"none", "before", "after"}]

\* p scores for the size s, not less than any pointer before limit, and more
\* than those before p.
Leads(p, s, limit) ==
    /\ p \in Args!Pointers /\ p < limit
    /\ Args!Score(p, s) > 0
    /\ \A q \in Args!Pointers :
         q < limit => Args!Score(q, s) <= Args!Score(p, s) /\ (Args!Score(q, s) = Args!Score(p, s)
                                                           => p <= q)

\* p and its score are the best for the size s of the pointers before limit.
BestUpTo(p, score, s, limit) ==
    \/ /\ p = Args!None /\ score = 0
       /\ \A q \in Args!Pointers : q < limit => Args!Score(q, s) = 0
    \/ Leads(p, s, limit) /\ score = Args!Score(p, s)

BestInv ==
    IF sizeIdx \in Args!Candidates
    THEN BestUpTo(bestPtr, bestScore, sizeIdx, ptrIdx)
    ELSE bestPtr = Args!None /\ bestScore = 0 /\ ptrIdx = 1

\* The sizes before sizeIdx that p is the best pointer of.
SizesOf(p) == {s \in Args!Candidates : s < sizeIdx /\ p \in Args!BestPointers(s)}

PairedInv ==
    /\ \A p \in Args!Positions \ Args!Pointers : sizeName[p] = Args!None
    /\ \A p \in Args!Pointers :
         /\ (sizeName[p] = Args!None) <=> (SizesOf(p) = {})
         /\ SizesOf(p) # {} =>
              /\ sizeName[p] \in SizesOf(p)
              /\ (sizeOrder[p] = "before") <=> (sizeName[p] < p)

PairingInv == TypeInv /\ BestInv /\ PairedInv

-----------------------------------------------------------------------------
LEMMA ScoreType ==
    ASSUME TypeInv, NEW p \in Args!Pointers, NEW s \in Args!Candidates
    PROVE  Args!Score(p, s) \in Nat
  <1>1. affinity[p][s] \in Nat
    BY DEF TypeInv
  <1> QED
    BY <1>1, SMT DEF Args!Score

LEMMA PositionFacts ==
    ASSUME Args!PairingAssumption
    PROVE  /\ N \in Nat \ {0}
           /\ Args!Pointers \subseteq Args!Positions /\ Args!Candidates \subseteq Args!Positions
           /\ \A p \in Args!Positions : p \in Nat /\ p # Args!None /\ p < N + 1
           /\ N + 1 \notin Args!Positions
  <1>1. N \in Nat \ {0}
    BY DEF Args!PairingAssumption
  <1>2. /\ \A p \in Args!Positions : p \in Nat /\ p # Args!None /\ p < N + 1
        /\ N + 1 \notin Args!Positions
    BY <1>1, SMT DEF Args!Positions, Args!None
  <1> QED
    BY <1>1, <1>2 DEF Args!Pointers, Args!Candidates

\* When all pointers have been compared, the one that leads is the best one,
\* and the only one.
LEMMA LeaderIsBest ==
    ASSUME Args!PairingAssumption, TypeInv, NEW s \in Args!Candidates, NEW p,
           Leads(p, s, N + 1)
    PROVE  Args!BestPointers(s) = {p}
  <1>1. \A q \in Args!Pointers : q < N + 1 /\ q \in Nat /\ Args!Score(q, s) \in Nat
    BY PositionFacts, ScoreType
  <1>2. p \in Args!BestPointers(s)
    BY <1>1 DEF Leads, Args!BestPointers
  <1>3. ASSUME NEW q \in Args!BestPointers(s)
        PROVE  q = p
    <2>1. q \in Args!Pointers /\ p \in Args!Pointers
      BY <1>3 DEF Args!BestPointers, Leads
    <2>2. Args!Score(p, s) <= Args!Score(q, s) /\ Args!Score(q, s) <= Args!Score(p, s)
      BY <1>1, <1>3, <2>1 DEF Args!BestPointers, Leads
    <2>3. Args!Score(p, s) = Args!Score(q, s)
      BY <1>1, <2>1, <2>2, SMT
    <2>4. p <= q /\ q <= p
      BY <1>1, <1>3, <2>1, <2>3 DEF Args!BestPointers, Leads
    <2> QED
      BY <1>1, <2>1, <2>4, SMT
  <1> QED
    BY <1>2, <1>3

LEMMA NoneIsBest ==
    ASSUME NEW s \in Args!Candidates, \A q \in Args!Pointers : Args!Score(q, s) = 0
    PROVE  Args!BestPointers(s) = {}
  BY SMT DEF Args!BestPointers

LEMMA InitPairing ==
    ASSUME Args!PairingAssumption, Args!Init
    PROVE  PairingInv
  <1>1. Args!Pointers = {} /\ Args!Candidates = {}
    BY DEF Args!Init, Args!Pointers, Args!Candidates
  <1>2. sizeIdx \in 1 .. N + 1 /\ ptrIdx \in 1 .. N + 1
    BY SMT DEF Args!Init, Args!PairingAssumption
  <1>3. TypeInv
    BY <1>1, <1>2 DEF Args!Init, TypeInv, Args!Nowhere, Args!Unordered
  <1> QED
    BY <1>1, <1>3 DEF Args!Init, PairingInv, BestInv, PairedInv, Args!Nowhere

-----------------------------------------------------------------------------
LEMMA BeginStep ==
    ASSUME Args!PairingAssumption, PairingInv, Args!Begin
    PROVE  PairingInv'
  <1>1. /\ sizeIdx \notin Args!Candidates /\ Args!Pointers = {}
        /\ \A p \in Args!Positions : sizeName[p] = Args!None
    <2>1. sizeIdx \in Nat /\ sizeIdx > N
      BY SMT DEF Args!Begin, Args!Done, PairingInv, TypeInv, Args!PairingAssumption
    <2> QED
      BY <2>1, PositionFacts, SMT DEF Args!Begin, Args!Idle, PairingInv, PairedInv
  <1>2. bestPtr = Args!None /\ bestScore = 0 /\ ptrIdx = 1
    BY <1>1 DEF PairingInv, BestInv
  <1>3. /\ bestPtr' = Args!None /\ bestScore' = 0 /\ ptrIdx' = 1 /\ sizeIdx' = 1
        /\ sizeName' = sizeName /\ sizeOrder' = sizeOrder
    BY <1>2 DEF Args!Begin, Args!best, Args!pairing
  <1>4. TypeInv'
    <2>1. \A p \in Args!Pointers', s \in Args!Candidates' : affinity'[p][s] \in Nat
      <3>1. affinity' \in [Args!Pointers' -> [Args!Candidates' -> Scores]]
            /\ Scores \subseteq Nat
        BY DEF Args!Begin, Args!PairingAssumption
      <3> QED
        BY <3>1
    <2>2. 1 \in 1 .. N + 1
      BY SMT DEF Args!PairingAssumption
    <2> QED
      BY <1>3, <2>1, <2>2 DEF Args!Begin, PairingInv, TypeInv
  <1>5. \A q \in Args!Pointers' : ~(q < 1)
    BY SMT DEF Args!Pointers, Args!Positions
  <1>6. \A p \in Args!Pointers' : SizesOf(p)' = {}
    BY <1>3, SMT DEF SizesOf, Args!Candidates, Args!Positions
  <1>7. Args!Pointers' \subseteq Args!Positions
    BY DEF Args!Pointers
  <1>8. BestInv'
    BY <1>3, <1>5 DEF BestInv, BestUpTo
  <1>9. PairedInv'
    BY <1>1, <1>3, <1>6, <1>7 DEF PairedInv
  <1> QED
    BY <1>4, <1>8, <1>9 DEF PairingInv

LEMMA ReturnStep ==
    ASSUME Args!PairingAssumption, PairingInv, Args!Return
    PROVE  PairingInv'
  <1>1. Args!Pointers' = {} /\ Args!Candidates' = {}
    BY DEF Args!Return, Args!Pointers, Args!Candidates
  <1>2. sizeIdx \notin Args!Candidates
    <2>1. sizeIdx \in Nat /\ sizeIdx > N
      BY SMT DEF Args!Return, Args!Done, PairingInv, TypeInv, Args!PairingAssumption
    <2> QED
      BY <2>1, PositionFacts, SMT
  <1>3. TypeInv'
    BY <1>1 DEF Args!Return, PairingInv, TypeInv, Args!Nowhere, Args!Unordered
  <1> QED
    BY <1>1, <1>2, <1>3
       DEF Args!Return, PairingInv, BestInv, PairedInv, Args!Nowhere, Args!best

\* What a step leaves alone that keeps the inputs.
LEMMA InputsFrame ==
    ASSUME UNCHANGED Args!inputs
    PROVE  /\ Args!Pointers' = Args!Pointers /\ Args!Candidates' = Args!Candidates
           /\ \A p, s : Args!Score(p, s)' = Args!Score(p, s)
           /\ \A s : Args!BestPointers(s)' = Args!BestPointers(s)
  BY
     DEF Args!inputs, Args!Pointers, Args!Candidates, Args!Score, Args!Adjacent,
         Args!BestPointers

\* One comparison, with the pointer at limit or with another argument.
LEMMA OneMore ==
    ASSUME Args!PairingAssumption, TypeInv, NEW s \in Args!Candidates, NEW limit \in Nat,
           NEW p, NEW score, BestUpTo(p, score, s, limit)
    PROVE  IF limit \in Args!Pointers /\ Args!Score(limit, s) > score
           THEN BestUpTo(limit, Args!Score(limit, s), s, limit + 1)
           ELSE BestUpTo(p, score, s, limit + 1)
  <1>1. \A q \in Args!Pointers :
           /\ q \in Nat /\ Args!Score(q, s) \in Nat /\ q # Args!None
           /\ q < limit + 1 => q < limit \/ q = limit
    BY PositionFacts, ScoreType, SMT
  <1>2. CASE /\ p = Args!None /\ score = 0
            /\ \A q \in Args!Pointers : q < limit => Args!Score(q, s) = 0
    <2>1. CASE limit \in Args!Pointers /\ Args!Score(limit, s) > score
      <3>1. Leads(limit, s, limit + 1)
        BY <1>1, <1>2, <2>1, SMT DEF Leads
      <3> QED
        BY <2>1, <3>1 DEF BestUpTo
    <2>2. CASE ~(limit \in Args!Pointers /\ Args!Score(limit, s) > score)
      <3>1. \A q \in Args!Pointers : q < limit + 1 => Args!Score(q, s) = 0
        BY <1>1, <1>2, <2>2, SMT
      <3> QED
        BY <1>2, <2>2, <3>1 DEF BestUpTo
    <2> QED
      BY <2>1, <2>2
  <1>3. CASE Leads(p, s, limit) /\ score = Args!Score(p, s)
    <2>1. p \in Args!Pointers /\ p < limit /\ p \in Nat
          /\ Args!Score(p, s) \in Nat /\ Args!Score(p, s) > 0
      BY <1>1, <1>3 DEF Leads
    <2>2. CASE limit \in Args!Pointers /\ Args!Score(limit, s) > score
      <3>1. Leads(limit, s, limit + 1)
        BY <1>1, <1>3, <2>1, <2>2, SMT DEF Leads
      <3> QED
        BY <2>2, <3>1 DEF BestUpTo
    <2>3. CASE ~(limit \in Args!Pointers /\ Args!Score(limit, s) > score)
      <3>1. Leads(p, s, limit + 1)
        BY <1>1, <1>3, <2>1, <2>3, SMT DEF Leads
      <3> QED
        BY <1>3, <2>3, <3>1 DEF BestUpTo
    <2> QED
      BY <2>2, <2>3
  <1> QED
    BY <1>2, <1>3 DEF BestUpTo

LEMMA CompareStep ==
    ASSUME Args!PairingAssumption, PairingInv, Args!Compare
    PROVE  PairingInv'
  <1>0. UNCHANGED Args!inputs /\ TypeInv /\ BestInv /\ PairedInv
    BY DEF Args!Compare, PairingInv
  <1>1. /\ Args!Pointers' = Args!Pointers /\ Args!Candidates' = Args!Candidates
        /\ shape' = shape /\ affinity' = affinity
        /\ sizeIdx' = sizeIdx /\ sizeName' = sizeName /\ sizeOrder' = sizeOrder
        /\ ptrIdx' = ptrIdx + 1 /\ sizeIdx \in Args!Candidates
    BY <1>0, InputsFrame DEF Args!Compare, Args!inputs, Args!pairing
  <1>2. ptrIdx \in Nat /\ ptrIdx + 1 \in 1 .. N + 1
    BY SMT DEF Args!Compare, PairingInv, TypeInv, Args!PairingAssumption
  <1>3. TypeInv'
    BY <1>0, <1>1, <1>2 DEF TypeInv
  <1>4. BestUpTo(bestPtr', bestScore', sizeIdx, ptrIdx + 1)
    <2>1. BestUpTo(bestPtr, bestScore, sizeIdx, ptrIdx)
      BY <1>0, <1>1 DEF BestInv
    <2>2. IF ptrIdx \in Args!Pointers /\ Args!Score(ptrIdx, sizeIdx) > bestScore
          THEN BestUpTo(ptrIdx, Args!Score(ptrIdx, sizeIdx), sizeIdx, ptrIdx + 1)
          ELSE BestUpTo(bestPtr, bestScore, sizeIdx, ptrIdx + 1)
      BY <1>0, <1>1, <1>2, <2>1, OneMore
    <2> QED
      BY <2>2 DEF Args!Compare, Args!best
  <1>5. BestInv'
    BY <1>1, <1>4 DEF BestInv, BestUpTo, Leads, Args!Score, Args!Adjacent
  <1>6. PairedInv'
    BY <1>0, <1>1, InputsFrame DEF PairedInv, SizesOf
  <1> QED
    BY <1>3, <1>5, <1>6 DEF PairingInv

\* The next size starts with no pointer.
LEMMA NextSizeStep ==
    ASSUME Args!PairingAssumption, Args!NextSize, UNCHANGED Args!inputs,
           PairingInv, sizeIdx < N + 1
    PROVE  /\ sizeIdx' = sizeIdx + 1 /\ sizeIdx' \in 1 .. N + 1
           /\ ptrIdx' = 1 /\ ptrIdx' \in 1 .. N + 1
           /\ BestInv'
  <1>1. /\ sizeIdx' = sizeIdx + 1 /\ ptrIdx' = 1 /\ bestPtr' = Args!None /\ bestScore' = 0
    BY DEF Args!NextSize
  <1>2. sizeIdx + 1 \in 1 .. N + 1 /\ 1 \in 1 .. N + 1
    BY SMT DEF PairingInv, TypeInv, Args!PairingAssumption
  <1>3. \A q \in Args!Pointers' : ~(q < 1)
    BY SMT DEF Args!Pointers, Args!Positions
  <1>5. BestInv'
    BY <1>1, <1>3 DEF BestInv, BestUpTo
  <1> QED
    BY <1>1, <1>2, <1>5

\* The sizes before the next one.
LEMMA SizesGrow ==
    ASSUME Args!PairingAssumption, PairingInv, UNCHANGED Args!inputs,
           sizeIdx' = sizeIdx + 1, NEW p
    PROVE  SizesOf(p)' = IF sizeIdx \in Args!Candidates /\ p \in Args!BestPointers(sizeIdx)
                         THEN SizesOf(p) \cup {sizeIdx} ELSE SizesOf(p)
  <1>1. /\ Args!Candidates' = Args!Candidates
        /\ \A s : Args!BestPointers(s)' = Args!BestPointers(s)
    BY InputsFrame
  <1>2. \A s \in Args!Candidates : (s < sizeIdx + 1) <=> (s < sizeIdx \/ s = sizeIdx)
    BY PositionFacts, SMT DEF PairingInv, TypeInv
  <1> QED
    BY <1>1, <1>2 DEF SizesOf

LEMMA SkipStep ==
    ASSUME Args!PairingAssumption, PairingInv, Args!Skip
    PROVE  PairingInv'
  <1>0. /\ UNCHANGED Args!inputs /\ sizeIdx \notin Args!Candidates /\ Args!NextSize
        /\ sizeName' = sizeName /\ sizeOrder' = sizeOrder
    BY DEF Args!Skip, Args!pairing
  <1>1. sizeIdx < N + 1
    BY SMT DEF Args!Skip, Args!Done, PairingInv, TypeInv, Args!PairingAssumption
  <1>2. /\ sizeIdx' = sizeIdx + 1 /\ sizeIdx' \in 1 .. N + 1
        /\ ptrIdx' = 1 /\ ptrIdx' \in 1 .. N + 1 /\ BestInv'
    BY <1>0, <1>1, NextSizeStep
  <1>3. \A p : SizesOf(p)' = SizesOf(p)
    BY <1>0, <1>2, SizesGrow
  <1>4. Args!Pointers' = Args!Pointers /\ Args!Candidates' = Args!Candidates
    BY <1>0, InputsFrame
  <1>5. TypeInv'
    BY <1>0, <1>2, <1>4 DEF PairingInv, TypeInv, Args!inputs
  <1>6. PairedInv'
    BY <1>0, <1>3, <1>4 DEF PairingInv, PairedInv
  <1> QED
    BY <1>2, <1>5, <1>6 DEF PairingInv

LEMMA PairStep ==
    ASSUME Args!PairingAssumption, PairingInv, Args!Pair
    PROVE  PairingInv'
  <1>0. /\ UNCHANGED Args!inputs /\ sizeIdx \in Args!Candidates
        /\ Args!NextSize /\ PairedInv /\ TypeInv
    BY DEF Args!Pair, PairingInv
  <1>1. sizeIdx < N + 1 /\ sizeIdx \in Args!Positions /\ sizeIdx \in Nat
    BY <1>0, PositionFacts
  <1>2. /\ sizeIdx' = sizeIdx + 1 /\ sizeIdx' \in 1 .. N + 1
        /\ ptrIdx' = 1 /\ ptrIdx' \in 1 .. N + 1 /\ BestInv'
    BY <1>0, <1>1, NextSizeStep
  <1>3. Args!Pointers' = Args!Pointers /\ Args!Candidates' = Args!Candidates
        /\ shape' = shape /\ affinity' = affinity
    BY <1>0, InputsFrame DEF Args!inputs
  <1>4. ptrIdx = N + 1
    BY <1>0, SMT DEF Args!Pair, TypeInv, Args!PairingAssumption
  <1>5. BestUpTo(bestPtr, bestScore, sizeIdx, N + 1)
    BY <1>0, <1>4 DEF PairingInv, BestInv
  <1>6. CASE bestPtr = Args!None
    <2>1. sizeName' = sizeName /\ sizeOrder' = sizeOrder
      BY <1>6 DEF Args!Pair, Args!pairing
    <2>2. ~Leads(bestPtr, sizeIdx, N + 1)
      BY <1>6, PositionFacts DEF Leads
    <2>3. \A q \in Args!Pointers : Args!Score(q, sizeIdx) = 0
      BY <1>5, <2>2, PositionFacts DEF BestUpTo
    <2>4. Args!BestPointers(sizeIdx) = {}
      BY <1>0, <2>3, NoneIsBest
    <2>5. \A p : SizesOf(p)' = SizesOf(p)
      BY <1>0, <1>2, <2>4, SizesGrow
    <2>6. TypeInv'
      BY <1>0, <1>2, <1>3, <2>1 DEF TypeInv
    <2>7. PairedInv'
      BY <1>0, <1>3, <2>1, <2>5 DEF PairedInv
    <2> QED
      BY <1>2, <2>6, <2>7 DEF PairingInv
  <1>7. CASE bestPtr # Args!None
    <2>1. /\ sizeName' = [sizeName EXCEPT ![bestPtr] = sizeIdx]
          /\ sizeOrder' = [sizeOrder EXCEPT ![bestPtr] =
                              IF sizeIdx < bestPtr THEN "before" ELSE "after"]
      BY <1>7 DEF Args!Pair
    <2>2. Leads(bestPtr, sizeIdx, N + 1)
      BY <1>5, <1>7 DEF BestUpTo
    <2>3. Args!BestPointers(sizeIdx) = {bestPtr}
      BY <1>0, <2>2, LeaderIsBest
    <2>4. PICK b \in Args!Pointers : b = bestPtr
      BY <2>2 DEF Leads
    <2>10. bestPtr \in Args!Pointers /\ bestPtr \in Args!Positions /\ bestPtr \in Nat
      BY <2>2, PositionFacts DEF Leads
    <2>5. TypeInv'
      <3>1. sizeName' \in [Args!Positions -> Args!Positions \cup {Args!None}]
        BY <1>0, <1>1, <2>1 DEF TypeInv
      <3>2. sizeOrder' \in [Args!Positions -> {"none", "before", "after"}]
        BY <1>0, <2>1 DEF TypeInv
      <3> QED
        BY <1>0, <1>2, <1>3, <3>1, <3>2 DEF TypeInv
    <2>6. ASSUME NEW p \in Args!Positions, p # b
          PROVE  /\ sizeName'[p] = sizeName[p] /\ sizeOrder'[p] = sizeOrder[p]
                 /\ SizesOf(p)' = SizesOf(p)
      <3>1. SizesOf(p)' = SizesOf(p)
        BY <1>0, <1>2, <2>3, <2>4, <2>6, SizesGrow
      <3> QED
        BY <1>0, <2>1, <2>4, <2>6, <3>1 DEF TypeInv
    <2>7. /\ sizeName'[b] = sizeIdx
          /\ sizeOrder'[b] = IF sizeIdx < b THEN "before" ELSE "after"
          /\ SizesOf(b)' = SizesOf(b) \cup {sizeIdx}
      <3>1. SizesOf(b)' = SizesOf(b) \cup {sizeIdx}
        BY <1>0, <1>2, <2>3, <2>4, SizesGrow
      <3> QED
        BY <1>0, <2>1, <2>4, <2>10, <3>1 DEF TypeInv
    <2>8. /\ sizeIdx # Args!None
          /\ (sizeOrder'[b] = "before") <=> (sizeIdx < b)
      BY <1>1, <2>7, PositionFacts
    <2>9. PairedInv'
      <3>1. \A p \in Args!Positions \ Args!Pointers : sizeName'[p] = Args!None
        BY <1>0, <2>4, <2>10, <2>6 DEF PairedInv
      <3>2. ASSUME NEW p \in Args!Pointers
            PROVE  /\ (sizeName'[p] = Args!None) <=> (SizesOf(p)' = {})
                   /\ SizesOf(p)' # {} =>
                        /\ sizeName'[p] \in SizesOf(p)'
                        /\ (sizeOrder'[p] = "before") <=> (sizeName'[p] < p)
        <4>1. CASE p = b
          BY <2>7, <2>8, <4>1
        <4>2. CASE p # b
          <5>1. p \in Args!Positions
            BY PositionFacts
          <5> QED
            BY <1>0, <2>6, <4>2, <5>1 DEF PairedInv
        <4> QED
          BY <4>1, <4>2
      <3> QED
        BY <1>3, <3>1, <3>2 DEF PairedInv
    <2> QED
      BY <1>2, <2>5, <2>9 DEF PairingInv
  <1> QED
    BY <1>6, <1>7

LEMMA NextPairing ==
    ASSUME Args!PairingAssumption, PairingInv, [Args!Next]_Args!apVars
    PROVE  PairingInv'
  <1>1. CASE UNCHANGED Args!apVars
    BY <1>1
       DEF Args!apVars, PairingInv, TypeInv, BestInv, BestUpTo, Leads,
           Args!Score, Args!Adjacent, PairedInv,
       SizesOf, Args!BestPointers, Args!Pointers, Args!Candidates
  <1> QED
    BY <1>1, BeginStep, ReturnStep, CompareStep, SkipStep, PairStep DEF Args!Next

LEMMA AtTheEnd ==
    ASSUME Args!PairingAssumption, PairingInv
    PROVE  Args!PairsBest
  <1> SUFFICES ASSUME Args!Done, NEW p \in Args!Pointers
               PROVE  /\ (sizeName[p] = Args!None) <=> (Args!SizesFor(p) = {})
                      /\ Args!SizesFor(p) # {} =>
                           /\ sizeName[p] \in Args!SizesFor(p)
                           /\ (sizeOrder[p] = "before") <=> (sizeName[p] < p)
    BY DEF Args!PairsBest
  <1>1. sizeIdx = N + 1
    BY SMT DEF Args!Done, PairingInv, TypeInv, Args!PairingAssumption
  <1>2. SizesOf(p) = Args!SizesFor(p)
    BY <1>1, PositionFacts DEF SizesOf, Args!SizesFor
  <1> QED
    BY <1>2 DEF PairingInv, PairedInv

-----------------------------------------------------------------------------
(* Scopes.                                                                 *)

\* How many of the scopes st the parser does not see: extern "C".
Unseen(st) == IF st # <<>> /\ st[1].kind = "linkage" THEN 1 ELSE 0

AName == {"namespace", "class", "{"}
AScope == [kind : Cpp!Kinds, open : BOOLEAN, late : BOOLEAN]

ScopeTypes ==
    /\ scopes \in Seq(AScope)
    /\ ns \in Seq(AName)
    /\ pub \in BOOLEAN /\ labels \subseteq {"public", "private"}
    /\ begun \in BOOLEAN /\ exotic \in BOOLEAN

\* Scopes are as the parser handles them: extern "C" around all others, a class
\* inside all others, and what is no class is open.
Handled ==
    \A k \in 1 .. Len(scopes) :
        /\ scopes[k].kind \in {"namespace", "class", "linkage"}
        /\ scopes[k].kind = "linkage" => k = 1
        /\ scopes[k].kind = "class" => k = Len(scopes)
        /\ scopes[k].kind # "class" => scopes[k].open

\* The parser's stack is the scopes it sees.
Follows ==
    /\ Len(ns) = Len(scopes) - Unseen(scopes)
    /\ \A i \in 1 .. Len(ns) : ns[i] = scopes[i + Unseen(scopes)].kind

\* In a class the parser knows whether it is in a public part; elsewhere it
\* takes declarations unless it comes from a class that ended private.
Judges ==
    IF Cpp!InClass
    THEN scopes[Len(scopes)].open <=> Cpp!Flag
    ELSE /\ labels = {}
         /\ ~pub => \A k \in 1 .. Len(scopes) : scopes[k].kind = "linkage" \/ scopes[k].late

ScopesInv ==
    /\ ScopeTypes
    /\ \/ exotic
       \/ /\ Handled /\ Follows /\ Judges
          /\ ~begun => ~pub /\ scopes = <<>>
          /\ found = wanted

\* What SMT does not see of a sequence of records.
LEMMA SequenceFacts ==
    ASSUME NEW S, NEW s \in Seq(S)
    PROVE  /\ Len(s) \in Nat /\ DOMAIN s = 1 .. Len(s)
           /\ s = [i \in 1 .. Len(s) |-> s[i]]
           /\ s = <<>> <=> Len(s) = 0
           /\ \A i \in 1 .. Len(s) : s[i] \in S
  BY EmptySeq

\* The places of s from m + 1 to n, in order.
Rest(s, m, n) == [i \in 1 .. n - m |-> s[i + m]]

LEMMA PickedRest ==
    ASSUME NEW s, NEW m \in Nat, NEW n \in Nat, m <= n
    PROVE  Cpp!Picked(s, m + 1 .. n) = Rest(s, m, n)
<1>1. \A S : Cpp!Cardinality(S) = Cardinality(S)
  BY DEF Cardinality, Cpp!Cardinality
<1>2. ASSUME NEW k \in m .. n
      PROVE  Cpp!Cardinality(m + 1 .. k) = k - m
  <2>1. k \in Int /\ m + 1 \in Int
    OBVIOUS
  <2>2. Cardinality(m + 1 .. k) = IF m + 1 > k THEN 0 ELSE k - (m + 1) + 1
    BY <2>1, FS_Interval
  <2> QED
    BY <1>1, <2>2
<1>3. ASSUME NEW i \in 1 .. n - m
      PROVE  (CHOOSE k \in m + 1 .. n :
                Cpp!Cardinality({j \in m + 1 .. n : j <= k}) = i) = i + m
  <2>1. ASSUME NEW k \in m + 1 .. n
        PROVE  Cpp!Cardinality({j \in m + 1 .. n : j <= k}) = k - m
    <3>1. {j \in m + 1 .. n : j <= k} = m + 1 .. k /\ k \in m .. n
      OBVIOUS
    <3>2. Cpp!Cardinality(m + 1 .. k) = k - m
      BY <1>2, <3>1
    <3> HIDE DEF Cpp!Cardinality
    <3> QED
      BY <3>1, <3>2, Zenon
  <2>2. i + m \in m + 1 .. n /\ (i + m) - m = i
    OBVIOUS
  <2>3. \A k \in m + 1 .. n : k - m = i <=> k = i + m
    OBVIOUS
  <2>4. \A k \in m + 1 .. n :
          Cpp!Cardinality({j \in m + 1 .. n : j <= k}) = i <=> k = i + m
    BY <2>1, <2>3
  <2> HIDE DEF Cpp!Cardinality
  <2> QED
    BY <2>2, <2>4, Zenon
<1>4. 1 .. Cpp!Cardinality(m + 1 .. n) = 1 .. n - m
  BY <1>2
<1> DEFINE at(i) == CHOOSE k \in m + 1 .. n :
                      Cpp!Cardinality({j \in m + 1 .. n : j <= k}) = i
<1>5. Cpp!Picked(s, m + 1 .. n) = [i \in 1 .. n - m |-> s[at(i)]]
  BY <1>4, Zenon DEF Cpp!Picked
<1>6. \A i \in 1 .. n - m : at(i) = i + m
  BY <1>3
<1> HIDE DEF at
<1> QED
  BY <1>5, <1>6 DEF Rest

\* Of a stack of scopes the parser sees all but one that is extern "C".
LEMMA ScopeFacts ==
    ASSUME NEW st \in Seq(AScope)
    PROVE  /\ Len(st) \in Nat /\ DOMAIN st = 1 .. Len(st)
           /\ st = <<>> <=> Len(st) = 0
           /\ \A k \in 1 .. Len(st) : st[k] \in AScope
           /\ Unseen(st) = IF Len(st) # 0 /\ st[1].kind = "linkage" THEN 1 ELSE 0
           /\ Unseen(st) \in {0, 1} /\ Unseen(st) <= Len(st)
           /\ \A i \in 1 .. Len(st) - Unseen(st) : i + Unseen(st) \in 1 .. Len(st)
<1>1. /\ Len(st) \in Nat /\ DOMAIN st = 1 .. Len(st)
      /\ st = <<>> <=> Len(st) = 0
      /\ \A k \in 1 .. Len(st) : st[k] \in AScope
  BY SequenceFacts
<1>2. /\ Unseen(st) = IF Len(st) # 0 /\ st[1].kind = "linkage" THEN 1 ELSE 0
      /\ Unseen(st) \in {0, 1} /\ Unseen(st) <= Len(st)
  BY <1>1 DEF Unseen
<1>3. \A i \in 1 .. Len(st) - Unseen(st) : i + Unseen(st) \in 1 .. Len(st)
  BY <1>1, <1>2
<1> QED
  BY <1>1, <1>2, <1>3


\* Of the scopes the code sees all but extern "C"; of its stack it names all.
LEMMA SeenScopes ==
    ASSUME ScopeTypes, Handled, Follows
    PROVE  /\ Cpp!Named = [i \in 1 .. Len(ns) |-> scopes[i + Unseen(scopes)]]
           /\ [k \in DOMAIN Cpp!Named |-> Cpp!Named[k].kind] = ns
           /\ Cpp!Picked(ns, {k \in DOMAIN ns : ns[k] # "{"}) = ns
<1> DEFINE m == Unseen(scopes)
           n == Len(scopes)
           l == Len(ns)
<1>1. /\ n \in Nat /\ l \in Nat /\ m \in Nat /\ m <= n /\ n - m = l
      /\ DOMAIN scopes = 1 .. n /\ DOMAIN ns = 1 .. l
      /\ ns = [i \in 1 .. l |-> ns[i]]
  <2>1. n \in Nat /\ m \in Nat /\ m <= n /\ DOMAIN scopes = 1 .. n
    <3>1. scopes \in Seq(AScope)
      BY DEF ScopeTypes
    <3>2. n \in Nat /\ m \in {0, 1} /\ m <= n /\ DOMAIN scopes = 1 .. n
      BY <3>1, ScopeFacts, Zenon
    <3> QED
      BY <3>2
  <2>2. l \in Nat /\ DOMAIN ns = 1 .. l /\ ns = [i \in 1 .. l |-> ns[i]]
    BY SequenceFacts DEF ScopeTypes
  <2>3. l = n - m
    BY DEF Follows
  <2> QED
    BY <2>1, <2>2, <2>3
<1>2. m = IF n # 0 /\ scopes[1].kind = "linkage" THEN 1 ELSE 0
  BY ScopeFacts DEF ScopeTypes
<1>3. \A k \in 1 .. n : /\ scopes[k].kind \in {"namespace", "class", "linkage"}
                        /\ scopes[k].kind = "linkage" => k = 1
  BY DEF Handled
<1>4. \A i \in 1 .. l : ns[i] = scopes[i + m].kind
  BY DEF Follows
<1> HIDE DEF m, n, l
<1>5. \A k \in 1 .. n : scopes[k].kind # "linkage" <=> k > m
  BY <1>1, <1>2, <1>3
<1>9. \A i \in 1 .. l : i + m \in 1 .. n /\ i + m > m
  BY <1>1
<1>10. \A i \in 1 .. l : ns[i] # "{"
  BY <1>3, <1>4, <1>9
<1>11. {k \in DOMAIN scopes : scopes[k].kind # "linkage"} = m + 1 .. n
  BY <1>1, <1>5
<1>12. {k \in DOMAIN ns : ns[k] # "{"} = 0 + 1 .. l
  <2>1. 0 + 1 .. l = 1 .. l
    OBVIOUS
  <2> QED
    BY <1>1, <1>10, <2>1
<1>6. Cpp!Named = [i \in 1 .. l |-> scopes[i + m]]
  <2>1. Cpp!Named = Rest(scopes, m, n)
    BY <1>1, <1>11, PickedRest, Zenon DEF Cpp!Named
  <2> QED
    BY <1>1, <2>1 DEF Rest
<1>7. [k \in DOMAIN Cpp!Named |-> Cpp!Named[k].kind] = [i \in 1 .. l |-> ns[i]]
  BY <1>4, <1>6
<1>8. Cpp!Picked(ns, {k \in DOMAIN ns : ns[k] # "{"}) = [i \in 1 .. l |-> ns[i]]
  <2>1. Cpp!Picked(ns, 0 + 1 .. l) = Rest(ns, 0, l)
    <3>1. 0 \in Nat /\ 0 <= l
      BY <1>1
    <3> QED
      BY <1>1, <3>1, PickedRest, Zenon
  <2>2. l - 0 = l /\ \A i \in 1 .. l : i + 0 = i
    BY <1>1
  <2> QED
    BY <1>12, <2>1, <2>2 DEF Rest
<1> QED
  BY <1>1, <1>6, <1>7, <1>8 DEF m, l

LEMMA LabelStep ==
    ASSUME ScopesInv, NEW label \in {"public", "private"}, Cpp!Label(label)
    PROVE  ScopesInv'
<1> DEFINE n == Len(scopes)
           last == [scopes[n] EXCEPT !.open = (label = "public")]
<1>1. /\ ScopeTypes /\ scopes \in Seq(AScope)
      /\ n \in 1 .. n /\ n \in Nat /\ 1 \in 1 .. n /\ DOMAIN scopes = 1 .. n
      /\ \A k \in 1 .. n : scopes[k] \in AScope
      /\ Cpp!IsClass(scopes[n].kind)
  <2>1. scopes # <<>> /\ Cpp!IsClass(scopes[n].kind)
    BY DEF Cpp!Label, Cpp!InClass, Cpp!Inner, Cpp!Last
  <2>2. ScopeTypes /\ scopes \in Seq(AScope)
    BY DEF ScopesInv, ScopeTypes
  <2>3. n \in Nat /\ n # 0
    BY <2>1, <2>2, SequenceFacts
  <2> QED
    BY <2>1, <2>2, <2>3, SequenceFacts
<1>2. /\ scopes' = [scopes EXCEPT ![n] = last]
      /\ labels' = labels \cup {label}
      /\ exotic' = (exotic \/ (label = "public" /\ "private" \in labels))
      /\ ns' = ns /\ pub' = pub /\ begun' = begun
      /\ found' = wanted'
  BY DEF Cpp!Label, Cpp!Forget
<1>3. /\ last \in AScope /\ last.kind = scopes[n].kind
      /\ last.open = (label = "public") /\ last.late = scopes[n].late
  BY <1>1 DEF AScope
<1> HIDE DEF last
<1>4. /\ scopes' \in Seq(AScope) /\ Len(scopes') = n /\ scopes'[n] = last
      /\ \A k \in 1 .. n : k # n => scopes'[k] = scopes[k]
      /\ \A k \in 1 .. n : scopes'[k].kind = scopes[k].kind
  <2>1. scopes' \in Seq(AScope) /\ Len(scopes') = n
    BY <1>1, <1>2, <1>3
  <2>2. scopes'[n] = last /\ \A k \in 1 .. n : k # n => scopes'[k] = scopes[k]
    BY <1>1, <1>2
  <2> QED
    BY <1>3, <2>1, <2>2
<1>5. ScopeTypes'
  BY <1>1, <1>2, <1>4 DEF ScopeTypes
<1>6. CASE ~exotic'
  <2>1. Handled /\ Follows /\ Judges /\ (~begun => ~pub /\ scopes = <<>>)
    BY <1>2, <1>6 DEF ScopesInv
  <2>2. Handled'
    <3>1. scopes[n].kind = "class"
      BY <1>1, <2>1 DEF Handled, Cpp!IsClass
    <3>2. \A k \in 1 .. n : scopes'[k].kind # "class" => scopes'[k].open
      BY <1>4, <2>1, <3>1 DEF Handled
    <3> QED
      BY <1>4, <2>1, <3>2 DEF Handled
  <2>3. Unseen(scopes') = Unseen(scopes)
    BY <1>1, <1>4, ScopeFacts
  <2>4. Follows'
    <3>1. \A i \in 1 .. Len(ns) : i + Unseen(scopes) \in 1 .. n
      BY <1>1, <2>1, ScopeFacts DEF Follows
    <3> QED
      BY <1>2, <1>4, <2>1, <2>3, <3>1 DEF Follows
  <2>5. Judges'
    <3>1. scopes'[n].open <=> Cpp!Flag'
      BY <1>2, <1>3, <1>4, <1>6 DEF Cpp!Flag
    <3>2. Cpp!InClass'
      <4>1. scopes' # <<>>
        BY <1>1, <1>4, SequenceFacts, SMT
      <4>2. Cpp!IsClass(scopes'[Len(scopes')].kind)
        BY <1>1, <1>4
      <4> QED
        BY <4>1, <4>2 DEF Cpp!InClass, Cpp!Inner, Cpp!Last
    <3> QED
      BY <1>4, <3>1, <3>2 DEF Judges
  <2>6. begun'
    BY <1>1, <1>2, <2>1, SequenceFacts
  <2> QED
    BY <1>2, <1>5, <2>2, <2>4, <2>5, <2>6 DEF ScopesInv
<1> QED
  BY <1>5, <1>6 DEF ScopesInv

LEMMA FunctionStep ==
    ASSUME ScopesInv, Cpp!Function
    PROVE  ScopesInv'
<1> DEFINE n == Len(scopes)
           l == Len(ns)
           m == Unseen(scopes)
<1>1. /\ ScopeTypes /\ scopes \in Seq(AScope) /\ n \in Nat /\ l \in Nat
      /\ scopes = <<>> <=> n = 0
      /\ ns = <<>> <=> l = 0
  BY SequenceFacts DEF ScopesInv, ScopeTypes
<1>2. /\ pub' = Cpp!Flag /\ labels' = {}
      /\ exotic' = (exotic \/ Cpp!Late \/ Cpp!Free)
      /\ ns' = ns /\ scopes' = scopes /\ begun' = begun
      /\ wanted' = Cpp!Wanted
  BY DEF Cpp!Function
<1>3. ScopeTypes'
  BY <1>1, <1>2 DEF ScopeTypes, Cpp!Flag, Cpp!Late, Cpp!Free
<1>4. CASE ~exotic'
  <2>1. /\ Handled /\ Follows /\ Judges /\ (~begun => ~pub /\ scopes = <<>>)
        /\ ~Cpp!Late /\ ~Cpp!Free
    BY <1>2, <1>4 DEF ScopesInv
  <2>2. /\ Cpp!Named = [i \in 1 .. l |-> scopes[i + m]]
        /\ [k \in DOMAIN Cpp!Named |-> Cpp!Named[k].kind] = ns
        /\ Cpp!Picked(ns, {k \in DOMAIN ns : ns[k] # "{"}) = ns
    BY <1>1, <2>1, SeenScopes
  <2>3. found' = IF ~Cpp!Flag THEN Cpp!Nothing
                 ELSE IF ns = <<>> THEN Cpp!Failure ELSE Cpp!Mocked(ns)
    BY <2>2 DEF Cpp!Function
  <2>4. Cpp!Named = <<>> <=> l = 0
    <3>1. DOMAIN Cpp!Named = 1 .. l
      BY <2>2
    <3>2. CASE l = 0
      BY <2>2, <3>2
    <3>3. CASE l # 0
      <4>1. 1 \in DOMAIN Cpp!Named
        BY <1>1, <3>1, <3>3
      <4> QED
        BY <3>3, <4>1
    <3> QED
      BY <3>2, <3>3
  <2>5. wanted' = IF l # 0 /\ \A k \in 1 .. n : scopes[k].open
                  THEN Cpp!Mocked(ns) ELSE Cpp!Nothing
    <3>1. DOMAIN scopes = 1 .. n
      BY <1>1, ScopeFacts
    <3> QED
      BY <1>2, <2>2, <2>4, <3>1, Zenon DEF Cpp!Wanted
  <2>6. ASSUME ~Cpp!InClass
        PROVE  /\ Cpp!Flag <=> pub
               /\ \A k \in 1 .. n : scopes[k].open
    <3>1. Cpp!Flag <=> pub
      BY <2>1, <2>6 DEF Judges, Cpp!Flag
    <3>2. n # 0 => scopes[n].kind # "class"
      BY <1>1, <2>6 DEF Cpp!InClass, Cpp!Inner, Cpp!Last, Cpp!IsClass
    <3>3. \A k \in 1 .. n : scopes[k].kind # "class"
      BY <1>1, <2>1, <3>2 DEF Handled
    <3> QED
      BY <2>1, <3>1, <3>3 DEF Handled
  <2>7. found' = wanted'
    <3>1. CASE l = 0
      <4>1. ~begun
        BY <2>1, <2>4, <3>1 DEF Cpp!Free
      <4>2. ~Cpp!Flag
        BY <2>1, <2>6, <4>1 DEF Cpp!InClass, Cpp!Inner
      <4> QED
        BY <2>3, <2>5, <3>1, <4>2
    <3>2. CASE l # 0 /\ Cpp!InClass
      <4>1. n \in 1 .. n /\ (scopes[n].open <=> Cpp!Flag)
        BY <1>1, <2>1, <3>2 DEF Judges, Cpp!InClass, Cpp!Inner
      <4>2. \A k \in 1 .. n : k # n => scopes[k].open
        BY <2>1 DEF Handled
      <4>3. (\A k \in 1 .. n : scopes[k].open) <=> Cpp!Flag
        BY <4>1, <4>2
      <4> QED
        BY <1>1, <2>3, <2>5, <3>2, <4>3
    <3>3. CASE l # 0 /\ ~Cpp!InClass
      <4>1. l = n - m /\ m \in {0, 1} /\ m <= n
        BY <1>1, <2>1, ScopeFacts DEF Follows
      <4>2. n \in 1 .. n /\ n > m /\ l \in 1 .. l /\ l + m = n
        BY <1>1, <3>3, <4>1
      <4>3. scopes[n].kind # "linkage"
        BY <1>1, <2>1, <4>2, ScopeFacts DEF Handled
      <4>4. Cpp!Last(Cpp!Named) = scopes[n]
        <5>1. Len(Cpp!Named) = l
          <6>1. l \in Nat /\ Cpp!Named = [i \in 1 .. l |-> scopes[i + m]]
            BY <1>1, <2>2
          <6> HIDE DEF l, m
          <6>2. DOMAIN Cpp!Named = 1 .. l
            BY <6>1
          <6> QED
            BY <6>1, <6>2
        <5>2. Cpp!Named[l] = scopes[n]
          BY <2>2, <4>2
        <5> QED
          BY <5>1, <5>2 DEF Cpp!Last
      <4>5. ~scopes[n].late
        BY <2>1, <2>4, <3>3, <4>4 DEF Cpp!Late
      <4>6. pub
        BY <2>1, <3>3, <4>2, <4>3, <4>5 DEF Judges
      <4> QED
        BY <1>1, <2>3, <2>5, <2>6, <3>3, <4>6
    <3> QED
      BY <3>1, <3>2, <3>3
  <2>8. Judges'
    <3>1. Cpp!InClass' <=> Cpp!InClass
      BY <1>2 DEF Cpp!InClass, Cpp!Inner
    <3>2. Cpp!Flag' <=> Cpp!Flag
      BY <1>2 DEF Cpp!Flag
    <3> QED
      BY <1>2, <2>1, <2>6, <3>1, <3>2 DEF Judges
  <2>9. ~begun' => ~pub' /\ scopes' = <<>>
    BY <1>2, <2>1, <2>6 DEF Cpp!InClass, Cpp!Inner
  <2> QED
    BY <1>2, <1>3, <2>1, <2>7, <2>8, <2>9 DEF ScopesInv, Handled, Follows
<1> QED
  BY <1>3, <1>4 DEF ScopesInv

LEMMA OtherStep ==
    ASSUME ScopesInv, Cpp!Other
    PROVE  ScopesInv'
<1>1. /\ pub' = Cpp!Flag /\ labels' = {} /\ exotic' = exotic
      /\ ns' = ns /\ scopes' = scopes /\ begun' = begun
      /\ found' = wanted'
  BY DEF Cpp!Other, Cpp!Forget
<1>2. ScopeTypes'
  BY <1>1 DEF ScopesInv, ScopeTypes, Cpp!Flag
<1>3. CASE ~exotic
  <2>1. Handled /\ Follows /\ Judges /\ (~begun => ~pub /\ scopes = <<>>)
    BY <1>3 DEF ScopesInv
  <2>2. ~Cpp!InClass => (Cpp!Flag <=> pub)
    BY <2>1 DEF Judges, Cpp!Flag
  <2>3. (Cpp!InClass' <=> Cpp!InClass) /\ (Cpp!Flag' <=> Cpp!Flag)
    BY <1>1 DEF Cpp!InClass, Cpp!Inner, Cpp!Flag
  <2>4. Judges'
    BY <1>1, <2>1, <2>2, <2>3 DEF Judges
  <2>5. ~begun' => ~pub' /\ scopes' = <<>>
    BY <1>1, <2>1, <2>2 DEF Cpp!InClass, Cpp!Inner
  <2> QED
    BY <1>1, <1>2, <2>1, <2>4, <2>5 DEF ScopesInv, Handled, Follows
<1> QED
  BY <1>1, <1>2, <1>3 DEF ScopesInv

\* What opens goes on the stack if the parser sees it.
LEMMA OpenStep ==
    ASSUME ScopesInv, NEW kind \in Cpp!Kinds, Cpp!Open(kind)
    PROVE  ScopesInv'
<1> DEFINE n == Len(scopes)
           l == Len(ns)
           new == [kind |-> kind, open |-> kind \in {"namespace", "linkage"},
                   late |-> FALSE]
<1>1. /\ ScopeTypes /\ scopes \in Seq(AScope) /\ n \in Nat /\ l \in Nat
      /\ DOMAIN ns = 1 .. l
      /\ scopes = <<>> <=> n = 0
      /\ ns = <<>> <=> l = 0
      /\ ns \in Seq(AName)
      /\ Len(scopes) = n /\ Len(ns) = l
  BY SequenceFacts DEF ScopesInv, ScopeTypes
<1> HIDE DEF n, l
<1>2. /\ scopes' = Append(scopes, new) /\ begun' = TRUE
      /\ exotic' = (exotic \/ kind \in {"anonymous", "base"} \/ Cpp!InClass
                           \/ (kind = "linkage" /\ Cpp!Inner))
      /\ found' = wanted' /\ labels' = labels
      /\ ns' = CASE kind \in {"namespace", "class"} -> Append(ns, kind)
                 [] kind = "linkage" -> ns
                 [] OTHER -> Append(ns, "{")
      /\ pub' = (kind = "namespace" \/ (kind # "class" /\ pub))
  BY DEF Cpp!Open, Cpp!Opened, Cpp!Forget
<1>3. /\ new \in AScope /\ new.kind = kind /\ ~new.late
      /\ new.open <=> kind \in {"namespace", "linkage"}
  <2>1. (kind \in {"namespace", "linkage"}) \in BOOLEAN
    OBVIOUS
  <2>2. /\ new.kind = kind /\ new.late = FALSE
        /\ new.open = (kind \in {"namespace", "linkage"})
    BY Zenon
  <2>3. new \in AScope
    BY <2>1 DEF AScope
  <2> QED
    BY <2>2, <2>3, Zenon
<1> HIDE DEF new
<1>4. /\ scopes' \in Seq(AScope) /\ Len(scopes') = n + 1
      /\ scopes'[n + 1] = new /\ \A k \in 1 .. n : scopes'[k] = scopes[k]
  <2>1. scopes \in Seq(AScope) /\ Len(scopes) = n /\ new \in AScope
    BY <1>1, <1>3
  <2>2. scopes' = Append(scopes, new)
    BY <1>2
  <2> QED
    BY <2>1, <2>2, AppendProperties
<1>5. ScopeTypes'
  <2>1. ns' \in Seq(AName)
    <3>1. kind \in {"namespace", "class"} => kind \in AName
      BY DEF AName
    <3>2. "{" \in AName
      BY DEF AName
    <3>3. CASE kind \in {"namespace", "class"}
      <4>1. ns' = Append(ns, kind)
        BY <1>2, <3>3
      <4> QED
        BY <1>1, <3>1, <3>3, <4>1, AppendProperties
    <3>4. CASE kind = "linkage"
      BY <1>1, <1>2, <3>4
    <3>5. CASE kind \notin {"namespace", "class", "linkage"}
      <4>1. ns' = Append(ns, "{")
        BY <1>2, <3>5
      <4> QED
        BY <1>1, <3>2, <4>1, AppendProperties
    <3> QED
      BY <3>3, <3>4, <3>5
  <2>2. exotic' \in BOOLEAN /\ pub' \in BOOLEAN
    BY <1>1, <1>2 DEF ScopeTypes
  <2> QED
    BY <1>1, <1>2, <1>4, <2>1, <2>2 DEF ScopeTypes
<1>6. ASSUME kind \in {"namespace", "class"}
      PROVE  /\ Len(ns') = l + 1 /\ ns'[l + 1] = kind
             /\ \A i \in 1 .. l : ns'[i] = ns[i]
  <2>1. ns' = Append(ns, kind) /\ kind \in AName
    BY <1>2, <1>6 DEF AName
  <2> QED
    BY <1>1, <2>1, AppendProperties
<1>7. CASE ~exotic'
  <2>1. /\ Handled /\ Follows /\ Judges
        /\ kind \in {"namespace", "class", "linkage"} /\ ~Cpp!InClass
        /\ kind = "linkage" => n = 0
    BY <1>1, <1>2, <1>7 DEF ScopesInv, Cpp!Kinds, Cpp!Inner
  <2>2. \A k \in 1 .. n : scopes[k].kind # "class"
    <3>1. n # 0 => scopes[n].kind # "class"
      BY <1>1, <2>1 DEF Cpp!InClass, Cpp!Inner, Cpp!Last, Cpp!IsClass
    <3> QED
      BY <1>1, <2>1, <3>1 DEF Handled
  <2>3. Handled'
    <3>1. ASSUME NEW k \in 1 .. n + 1
          PROVE  /\ scopes'[k].kind \in {"namespace", "class", "linkage"}
                 /\ scopes'[k].kind = "linkage" => k = 1
                 /\ scopes'[k].kind = "class" => k = n + 1
                 /\ scopes'[k].kind # "class" => scopes'[k].open
      <4>1. CASE k = n + 1
        BY <1>3, <1>4, <2>1, <4>1
      <4>2. CASE k \in 1 .. n
        BY <1>1, <1>4, <2>1, <2>2, <4>2 DEF Handled
      <4> QED
        BY <1>1, <4>1, <4>2
    <3> QED
      BY <1>4, <3>1 DEF Handled
  <2>4. Follows'
    <3>1. CASE n = 0
      <4>1. Unseen(scopes) = 0 /\ l = 0
        <5>1. Unseen(scopes) = 0
          BY <1>1, <3>1, ScopeFacts
        <5> QED
          BY <1>1, <2>1, <3>1, <5>1 DEF Follows
      <4>2. scopes' # <<>> /\ scopes'[1].kind = kind /\ Len(scopes') = 1
        BY <1>3, <1>4, <3>1, ScopeFacts
      <4>3. Unseen(scopes') = IF kind = "linkage" THEN 1 ELSE 0
        BY <4>2 DEF Unseen
      <4>4. CASE kind = "linkage"
        BY <1>1, <1>2, <4>1, <4>2, <4>3, <4>4 DEF Follows
      <4>5. CASE kind # "linkage"
        <5>1. Len(ns') = 1 /\ ns'[1] = kind
          BY <1>6, <2>1, <4>1, <4>5
        <5> QED
          BY <4>2, <4>3, <4>5, <5>1 DEF Follows
      <4> QED
        BY <4>4, <4>5
    <3>2. CASE n # 0
      <4>1. scopes # <<>> /\ scopes' # <<>> /\ scopes'[1] = scopes[1]
        BY <1>1, <1>4, <3>2, ScopeFacts
      <4>2. Unseen(scopes') = Unseen(scopes)
        BY <4>1 DEF Unseen
      <4>3. /\ Len(ns') = l + 1 /\ ns'[l + 1] = kind
            /\ \A i \in 1 .. l : ns'[i] = ns[i]
        BY <1>6, <2>1, <3>2
      <4>4. l = n - Unseen(scopes) /\ Unseen(scopes) \in {0, 1} /\ Unseen(scopes) <= n
        BY <1>1, <2>1, ScopeFacts DEF Follows
      <4>5. ASSUME NEW i \in 1 .. l + 1
            PROVE  ns'[i] = scopes'[i + Unseen(scopes')].kind
        <5>1. CASE i = l + 1
          <6>1. i + Unseen(scopes') = n + 1
            BY <1>1, <4>2, <4>4, <5>1
          <6> QED
            BY <1>3, <1>4, <4>3, <5>1, <6>1
        <5>2. CASE i \in 1 .. l
          <6>1. i + Unseen(scopes) \in 1 .. n
            BY <1>1, <4>4, <5>2
          <6> QED
            BY <1>1, <1>4, <2>1, <4>2, <4>3, <5>2, <6>1 DEF Follows
        <5> QED
          BY <1>1, <5>1, <5>2
      <4> QED
        BY <1>1, <1>4, <4>2, <4>3, <4>4, <4>5 DEF Follows
    <3> QED
      BY <3>1, <3>2
  <2>5. Judges'
    <3>1. labels = {}
      BY <2>1 DEF Judges
    <3>2. Cpp!InClass' <=> kind = "class"
      <4>1. scopes' # <<>>
        BY <1>1, <1>4, ScopeFacts
      <4> QED
        BY <1>3, <1>4, <2>1, <4>1 DEF Cpp!InClass, Cpp!Inner, Cpp!Last, Cpp!IsClass
    <3>3. CASE kind = "class"
      BY <1>2, <1>3, <1>4, <3>1, <3>2, <3>3 DEF Judges, Cpp!Flag
    <3>4. CASE kind = "namespace"
      BY <1>2, <3>1, <3>2, <3>4 DEF Judges
    <3>5. CASE kind = "linkage"
      <4>1. \A k \in 1 .. n + 1 : scopes'[k].kind = "linkage"
        BY <1>3, <1>4, <2>1, <3>5
      <4> QED
        BY <1>2, <1>4, <3>1, <3>2, <3>5, <4>1 DEF Judges
    <3> QED
      BY <2>1, <3>3, <3>4, <3>5
  <2> QED
    BY <1>2, <1>5, <2>3, <2>4, <2>5 DEF ScopesInv
<1> QED
  BY <1>5, <1>7 DEF ScopesInv

\* What closes leaves the stack if it was there; a class that ends in a part
\* that is not public leaves the parser as if the namespace were not either.
LEMMA CloseStep ==
    ASSUME ScopesInv, Cpp!Close
    PROVE  ScopesInv'
<1> DEFINE n == Len(scopes)
           l == Len(ns)
           ended == Cpp!InClass /\ ~scopes[n].open
<1>1. /\ ScopeTypes /\ scopes \in Seq(AScope) /\ n \in Nat /\ l \in Nat
      /\ n # 0 /\ DOMAIN ns = 1 .. l
      /\ ns = <<>> <=> l = 0
      /\ ns \in Seq(AName)
      /\ Len(scopes) = n /\ Len(ns) = l
      /\ ended \in BOOLEAN
  <2>1. ScopeTypes /\ scopes # <<>>
    BY DEF ScopesInv, Cpp!Close, Cpp!Inner
  <2>2. scopes \in Seq(AScope) /\ ns \in Seq(AName)
    BY <2>1 DEF ScopeTypes
  <2>3. n \in Nat /\ n # 0
    BY <2>1, <2>2, SequenceFacts
  <2>4. l \in Nat /\ DOMAIN ns = 1 .. l /\ (ns = <<>> <=> l = 0)
    BY <2>2, SequenceFacts
  <2> QED
    BY <2>1, <2>2, <2>3, <2>4
<1>2. /\ ns' = IF ns = <<>> THEN ns ELSE Cpp!Front(ns)
      /\ scopes' = [k \in 1 .. n - 1 |-> [scopes[k] EXCEPT !.late = @ \/ ended]]
      /\ IF Cpp!InClass THEN pub' = Cpp!Flag /\ labels' = {}
                        ELSE pub' = pub /\ labels' = labels
      /\ begun' = begun /\ exotic' = exotic /\ found' = wanted'
  BY DEF Cpp!Close, Cpp!Forget, Cpp!Last
<1> HIDE DEF n, l, ended
<1>3. ASSUME NEW k \in 1 .. n - 1
      PROVE  /\ scopes'[k] \in AScope
             /\ scopes'[k].kind = scopes[k].kind /\ scopes'[k].open = scopes[k].open
             /\ scopes'[k].late <=> scopes[k].late \/ ended
  <2>1. scopes[k] \in AScope
    <3>1. k \in 1 .. Len(scopes)
      BY <1>1
    <3> QED
      BY <1>1, <3>1, ElementOfSeq
  <2>2. scopes'[k] = [scopes[k] EXCEPT !.late = scopes[k].late \/ ended]
    BY <1>2
  <2> QED
    BY <1>1, <2>1, <2>2 DEF AScope
<1>4. scopes' \in Seq(AScope) /\ Len(scopes') = n - 1
  <2>1. n - 1 \in Nat
    BY <1>1
  <2>2. DOMAIN scopes' = 1 .. n - 1
    BY <1>2
  <2>3. scopes' \in [1 .. n - 1 -> AScope]
    BY <1>2, <1>3
  <2> QED
    BY <2>1, <2>3
<1>5. ns' \in Seq(AName) /\ Len(ns') = (IF l = 0 THEN 0 ELSE l - 1)
      /\ \A i \in 1 .. Len(ns') : ns'[i] = ns[i]
  <2>1. CASE l = 0
    BY <1>1, <1>2, <2>1
  <2>2. CASE l # 0
    <3>1. ns' = SubSeq(ns, 1, l - 1)
      BY <1>1, <1>2, <2>2 DEF Cpp!Front
    <3> QED
      BY <1>1, <2>2, <3>1
  <2> QED
    BY <2>1, <2>2
<1>6. ScopeTypes'
  <2>1. pub' \in BOOLEAN /\ labels' \subseteq {"public", "private"}
    BY <1>1, <1>2 DEF ScopeTypes, Cpp!Flag
  <2> QED
    BY <1>1, <1>2, <1>4, <1>5, <2>1 DEF ScopeTypes
<1>7. CASE ~exotic
  <2>1. Handled /\ Follows /\ Judges /\ begun
    BY <1>1, <1>7, ScopeFacts DEF ScopesInv
  <2>2. Handled' /\ ~Cpp!InClass'
    <3>1. \A k \in 1 .. n - 1 : scopes[k].kind # "class"
      BY <1>1, <2>1 DEF Handled
    <3>2. Handled'
      BY <1>1, <1>3, <1>4, <2>1, <3>1 DEF Handled
    <3>3. ~Cpp!InClass'
      <4>1. CASE n - 1 = 0
        <5>1. scopes' = <<>>
          BY <1>4, <4>1, ScopeFacts
        <5> QED
          BY <5>1 DEF Cpp!InClass, Cpp!Inner
      <4>2. CASE n - 1 # 0
        <5>1. n - 1 \in 1 .. n - 1 /\ n - 1 \in 1 .. Len(scopes)
          BY <1>1, <4>2
        <5>2. scopes'[n - 1].kind \in {"namespace", "linkage"}
          BY <1>3, <2>1, <3>1, <5>1 DEF Handled
        <5> QED
          BY <1>4, <5>2 DEF Cpp!InClass, Cpp!Last, Cpp!IsClass
      <4> QED
        BY <4>1, <4>2
    <3> QED
      BY <3>2, <3>3
  <2>3. Follows'
    <3>1. l = n - Unseen(scopes) /\ Unseen(scopes) \in {0, 1}
      BY <1>1, <2>1, ScopeFacts DEF Follows
    <3>2. CASE n = 1
      <4>1. Unseen(scopes') = 0 /\ Len(scopes') = 0
        <5>1. scopes' \in Seq(AScope) /\ Len(scopes') = 0
          BY <1>4, <3>2
        <5> QED
          BY <5>1, ScopeFacts
      <4>2. Len(ns') = 0
        BY <1>1, <1>5, <3>1, <3>2
      <4> QED
        BY <4>1, <4>2 DEF Follows
    <3>3. CASE n # 1
      <4>1. /\ Len(scopes') = n - 1 /\ n - 1 \in Nat /\ n - 1 # 0
            /\ scopes'[1].kind = scopes[1].kind
        BY <1>1, <1>3, <1>4, <3>3
      <4>2. Unseen(scopes') = Unseen(scopes)
        BY <1>1, <1>4, <4>1, ScopeFacts
      <4>3. Len(ns') = l - 1 /\ l - 1 = (n - 1) - Unseen(scopes)
        BY <1>1, <1>5, <3>1, <3>3
      <4>4. ASSUME NEW i \in 1 .. l - 1
            PROVE  ns'[i] = scopes'[i + Unseen(scopes)].kind
        <5>1. i + Unseen(scopes) \in 1 .. n - 1 /\ i \in 1 .. l
          BY <1>1, <3>1
        <5> QED
          BY <1>1, <1>3, <1>5, <2>1, <4>3, <5>1 DEF Follows
      <4> QED
        BY <4>1, <4>2, <4>3, <4>4 DEF Follows
    <3> QED
      BY <3>2, <3>3
  <2>4. Judges'
    <3>1. CASE Cpp!InClass
      <4>1. labels' = {} /\ (~pub' => ended)
        BY <1>2, <2>1, <3>1 DEF Judges, ended, n
      <4> QED
        BY <1>3, <1>4, <2>2, <4>1 DEF Judges
    <3>2. CASE ~Cpp!InClass
      <4>1. pub' = pub /\ labels' = {}
        BY <1>2, <2>1, <3>2 DEF Judges
      <4>2. \A k \in 1 .. n - 1 : k \in 1 .. n
        BY <1>1
      <4> QED
        BY <1>1, <1>3, <1>4, <2>1, <2>2, <3>2, <4>1, <4>2 DEF Judges
    <3> QED
      BY <3>1, <3>2
  <2> QED
    BY <1>2, <1>6, <2>1, <2>2, <2>3, <2>4 DEF ScopesInv
<1> QED
  BY <1>2, <1>6, <1>7 DEF ScopesInv

LEMMA ScopesInitial ==
    ASSUME Cpp!Init
    PROVE  ScopesInv
<1>1. ScopeTypes
  BY EmptySeq DEF Cpp!Init, ScopeTypes
<1>2. Unseen(scopes) = 0 /\ Len(scopes) = 0 /\ Len(ns) = 0 /\ ~Cpp!InClass
  BY EmptySeq DEF Cpp!Init, Unseen, Cpp!InClass, Cpp!Inner
<1> QED
  BY <1>1, <1>2 DEF Cpp!Init, ScopesInv, Handled, Follows, Judges

\* The next header begins like the first.
LEMMA AnewStep ==
    ASSUME Cpp!Anew
    PROVE  ScopesInv'
<1>1. ScopeTypes'
  BY EmptySeq DEF Cpp!Anew, ScopeTypes
<1>2. Unseen(scopes') = 0 /\ Len(scopes') = 0 /\ Len(ns') = 0 /\ ~Cpp!InClass'
  BY EmptySeq DEF Cpp!Anew, Unseen, Cpp!InClass, Cpp!Inner
<1> QED
  BY <1>1, <1>2 DEF Cpp!Anew, ScopesInv, Handled, Follows, Judges

LEMMA NextScopes ==
    ASSUME ScopesInv, [Cpp!Next]_scopeVars
    PROVE  ScopesInv'
<1>1. CASE UNCHANGED scopeVars
  BY <1>1 DEF scopeVars, ScopesInv, ScopeTypes, Handled, Follows, Judges,
              Cpp!InClass, Cpp!Inner, Cpp!Flag
<1> QED
  BY <1>1, OpenStep, CloseStep, LabelStep, FunctionStep, OtherStep DEF Cpp!Next

-----------------------------------------------------------------------------
(* The passes.                                                             *)

\* Every pass starts every header as it started the first.
ParserInv == IInv /\ ScopesInv /\ PairingInv

\* While the arguments are left alone, so is what is known of them.
LEMMA PairingFrame ==
    ASSUME PairingInv, UNCHANGED pairVars
    PROVE  PairingInv'
<1>1. UNCHANGED Args!apVars
  BY DEF pairVars, Args!apVars
<1> QED
  BY <1>1, ParserAssumption, NextPairing

LEMMA ParserInitial ==
    ASSUME ParserInit
    PROVE  ParserInv
<1>1. IInv /\ ScopesInv
  BY InitInvariance, ScopesInitial DEF ParserInit
<1> QED
  BY <1>1, ParserAssumption, InitPairing DEF ParserInit, ParserInv

LEMMA ParserStep ==
    ASSUME ParserInv, [ParserNext]_<<pass, dcVars, scopeVars, pairVars>>
    PROVE  ParserInv'
<1>1. IInv /\ ScopesInv /\ PairingInv
  BY DEF ParserInv
<1>2. UNCHANGED dcVars => IInv'
  BY <1>1, NextInvariance
<1>3. UNCHANGED scopeVars => ScopesInv'
  BY <1>1, NextScopes
<1>4. UNCHANGED pairVars => PairingInv'
  BY <1>1, PairingFrame
<1>5. CASE Conditionals
  BY <1>1, <1>3, <1>4, <1>5, NextInvariance DEF Conditionals, ParserInv
<1>6. CASE ConditionalsEnd
  <2>1. IInv'
    BY <1>6 DEF ConditionalsEnd, IInv, TypeOK, StackInv, AllTaken
  <2> QED
    BY <1>3, <1>4, <1>6, <2>1 DEF ConditionalsEnd, ParserInv
<1>7. CASE Scopes
  BY <1>1, <1>2, <1>4, <1>7, NextScopes DEF Scopes, ParserInv
<1>8. CASE ScopesEnd
  BY <1>2, <1>4, <1>8, AnewStep DEF ScopesEnd, ParserInv
<1>9. CASE Declarations
  BY <1>1, <1>2, <1>3, <1>9, ParserAssumption, NextPairing DEF Declarations, ParserInv
<1>10. CASE DeclarationsEnd
  BY <1>2, <1>3, <1>4, <1>10 DEF DeclarationsEnd, ParserInv
<1>11. CASE UNCHANGED <<pass, dcVars, scopeVars, pairVars>>
  BY <1>2, <1>3, <1>4, <1>11 DEF ParserInv
<1> QED
  BY <1>5, <1>6, <1>7, <1>8, <1>9, <1>10, <1>11 DEF ParserNext

\* For headers of any nesting, one after the other: outside the #elif branches
\* of literal conditions a line is kept if and only if a compiler may compile it.
THEOREM KeepsRightLines == ParserSpec => []KeepsWhatMayCompile
<1>1. ParserInv => KeepsWhatMayCompile
  BY KeptLines DEF ParserInv
<1> QED
  BY <1>1, ParserInitial, ParserStep, PTL DEF ParserSpec

\* For scopes of any depth, one header after the other: unless the header has
\* something that the parser does not handle, a static function is mocked if and
\* only if it is public in a namespace or class, under the scopes it is in.
THEOREM MocksRightFunctions == ParserSpec => []FunctionsInScope
<1>1. ParserInv => FunctionsInScope
  BY DEF ParserInv, ScopesInv, FunctionsInScope, Cpp!FunctionsInScope
<1> QED
  BY <1>1, ParserInitial, ParserStep, PTL DEF ParserSpec

\* For functions of any number of arguments and any scores of their names: a
\* pointer that is the best one of a size is paired with such a size, on the
\* side where it is, and any other pointer with none.
THEOREM PairsRightSizes == ParserSpec => []PairsBest
<1>1. ParserInv => PairsBest
  BY ParserAssumption, AtTheEnd DEF ParserInv, PairsBest
<1> QED
  BY <1>1, ParserInitial, ParserStep, PTL DEF ParserSpec
=============================================================================
