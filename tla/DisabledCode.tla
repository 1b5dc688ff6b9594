---------------------------- MODULE DisabledCode ----------------------------
(***************************************************************************)
(* remove_disabled_code_from_source (lib/cmock_header_parser.rb): the      *)
(* lines of a header go by, one per step, and the code between literal     *)
(* conditionals (#if 0, #if 1) that no compiler would compile is dropped.  *)
(* Nothing is known about any other condition.  Headers may be malformed.  *)
(*                                                                         *)
(* open is a history variable, what a preprocessor knows: the conditional  *)
(* groups around the next line and the branch of each it is in.            *)
(***************************************************************************)
EXTENDS Naturals, Sequences

CONSTANT MaxNesting     \* bound: groups inside groups

ASSUME NestingAssumption == MaxNesting \in Nat

VARIABLES
    emit,       \* lines are being kept
    stack,      \* one entry per open group
    line,       \* the last line: "directive", "kept" or "dropped"
    open        \* history

dcVars == <<emit, stack, line, open>>

Entries == [restore : BOOLEAN, onElse : BOOLEAN, seenElse : BOOLEAN]
Groups == [cond : {"0", "1", "unknown"}, branch : {"if", "elif", "else"}]

Init ==
    /\ emit = TRUE
    /\ stack = <<>>
    /\ line = "directive"
    /\ open = <<>>

Push(cond, onElse, now) ==
    /\ Len(stack) < MaxNesting
    /\ stack' = Append(stack, [restore |-> emit, onElse |-> onElse, seenElse |-> FALSE])
    /\ emit' = now
    /\ line' = "directive"
    /\ open' = Append(open, [cond |-> cond, branch |-> "if"])

IfZero == Push("0", emit, FALSE)
\* Mutant: both branches of #if 1 are kept.
IfOneUnknown == Push("1", emit, emit)

IfOne == Push("1", FALSE, emit)
IfUnknown == Push("unknown", emit, emit)

\* A stray #else is ignored, and so is a second one.
Else ==
    LET n == Len(stack) IN
    /\ line' = "directive"
    /\ IF stack # <<>> /\ ~stack[n].seenElse
       THEN /\ stack' = [stack EXCEPT ![n].seenElse = TRUE]
            /\ emit' = stack[n].onElse
            /\ open' = [open EXCEPT ![n].branch = "else"]
       ELSE UNCHANGED <<stack, emit, open>>

EndIf ==
    LET n == Len(stack) IN
    /\ line' = "directive"
    /\ IF stack # <<>>
       THEN /\ stack' = SubSeq(stack, 1, n - 1)
            /\ emit' = stack[n].restore
            /\ open' = SubSeq(open, 1, n - 1)
       ELSE UNCHANGED <<stack, emit, open>>

Keep == line' = IF emit THEN "kept" ELSE "dropped"

Code ==
    /\ Keep
    /\ UNCHANGED <<emit, stack, open>>

\* #elif is a line like any other to the code, not to a preprocessor.
Elif ==
    LET n == Len(open) IN
    /\ line' = "directive"
    /\ open' = IF open # <<>> /\ open[n].branch = "if"
               THEN [open EXCEPT ![n].branch = "elif"] ELSE open
    /\ UNCHANGED <<emit, stack>>

Next == IfZero \/ IfOne \/ IfUnknown \/ Else \/ EndIf \/ Code \/ Elif

Spec == Init /\ [][Next]_dcVars

-----------------------------------------------------------------------------
(* Properties.                                                             *)

TypeOK ==
    /\ emit \in BOOLEAN
    /\ stack \in Seq(Entries)
    /\ line \in {"directive", "kept", "dropped"}
    /\ open \in Seq(Groups)

\* A compiler may compile the branch a line is in.
MayCompile(g) ==
    /\ g.cond = "0" => g.branch # "if"
    /\ g.cond = "1" => g.branch = "if"

LiteralElif(g) == g.cond # "unknown" /\ g.branch = "elif"

\* A line of code is kept if and only if a compiler may compile it, however
\* conditionals are nested, whatever #else and #endif are missing or too many,
\* unless it is in an #elif of a literal condition.
KeepsWhatMayCompile ==
    line # "directive" /\ (\A i \in 1 .. Len(open) : ~LiteralElif(open[i])) =>
        (line = "kept" <=> \A i \in 1 .. Len(open) : MayCompile(open[i]))

\* What the code takes #elif for: more of the branch before it.
Taken(g) ==
    /\ g.cond = "0" => g.branch = "else"
    /\ g.cond = "1" => g.branch # "else"

AllTaken(s, k) == \A i \in 1 .. k : Taken(s[i])

\* The stack remembers, for every open group, whether the lines before it were
\* kept and whether those of its #else are.
StackInv ==
    /\ Len(stack) = Len(open)
    /\ emit <=> AllTaken(open, Len(open))
    /\ \A i \in 1 .. Len(stack) :
         /\ stack[i].restore <=> AllTaken(open, i - 1)
         /\ stack[i].onElse <=> AllTaken(open, i - 1) /\ open[i].cond # "1"
         /\ stack[i].seenElse <=> open[i].branch = "else"
    /\ line # "directive" => (line = "kept" <=> emit)

IInv == TypeOK /\ StackInv
=============================================================================
