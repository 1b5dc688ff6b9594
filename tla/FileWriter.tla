----------------------------- MODULE FileWriter -----------------------------
(***************************************************************************)
(* CMockFileWriter (lib/cmock_file_writer.rb): several runs of CMock, each *)
(* generating its files one after the other.  A file is written under a    *)
(* temporary name, then the old file is removed and the new one renamed.   *)
(* Opening a name that exists truncates what it names, so two runs that    *)
(* use one temporary name write into one file.                             *)
(***************************************************************************)
EXTENDS Naturals, Sequences, FiniteSets

CONSTANTS
    Runs,           \* the runs of CMock
    Work,           \* the files each of them generates, in order
    Skeletons,      \* the files that are skeletons, not mocks
    Parts,          \* a file is written in this many pieces
    Fragile,        \* the runs that may be killed
    MaxKills        \* bound: how often

MadeBy(x) == {p \in Runs : \E i \in DOMAIN Work[p] : Work[p][i] = x}
Files == UNION {{Work[p][i] : i \in DOMAIN Work[p]} : p \in Runs}
Shared == {x \in Files : Cardinality(MadeBy(x)) > 1}

ASSUME FileAssumption ==
    /\ IsFiniteSet(Runs)
    /\ DOMAIN Work = Runs /\ \A p \in Runs : Work[p] \in Seq(Files) /\ Work[p] # <<>>
    /\ Skeletons \subseteq Files /\ Fragile \subseteq Runs
    /\ Parts \in Nat \ {0} /\ MaxKills \in Nat

Temp == "temp"      \* <name>.new
Done == "done"      \* <name>
Names == Files \X {Temp, Done}

NoFile == 0
Inodes == 1 .. 2 * Cardinality(Files) + Cardinality(Runs)

\* What a file holds: the pieces written, and whether the user's code is there.
Contents == [parts : SUBSET (1 .. Parts), user : BOOLEAN]
Empty == [parts |-> {}, user |-> FALSE]

VARIABLES
    dir,        \* the file a name stands for, or NoFile
    data,       \* what each file holds
    pc,         \* what each run does next
    job,        \* which of its files it is generating
    handle,     \* the file it has open, or NoFile
    piece,      \* how many pieces it has written
    existing,   \* it read a skeleton with the user's code in it
    kills       \* how often a run was killed

fvars == <<dir, data, pc, job, handle, piece, existing, kills>>

File(p) == Work[p][job[p]]
Unused == {i \in Inodes : (\A n \in Names : dir[n] # i) /\ (\A p \in Runs : handle[p] # i)}
NewFiles == {i \in Unused : \A j \in Unused : i <= j}
\* What opening a name gives: the file it stands for or a new one.
Opened(n) == IF dir[n] # NoFile THEN {dir[n]} ELSE NewFiles
Complete(i) == i # NoFile /\ data[i].parts = 1 .. Parts

Init ==
    /\ \E old \in [Skeletons -> Inodes] :
         /\ \A a, b \in Skeletons : old[a] = old[b] => a = b
         /\ \A a \in Skeletons : old[a] <= Cardinality(Skeletons)
         /\ dir = [n \in Names |->
                     IF n[1] \in Skeletons /\ n[2] = Done THEN old[n[1]] ELSE NoFile]
         /\ data = [i \in Inodes |->
                      IF \E a \in Skeletons : old[a] = i
                      THEN [parts |-> {}, user |-> TRUE] ELSE Empty]
    /\ pc = [p \in Runs |-> "begin"]
    /\ job = [p \in Runs |-> 1]
    /\ handle = [p \in Runs |-> NoFile]
    /\ piece = [p \in Runs |-> 0]
    /\ existing = [p \in Runs |-> FALSE]
    /\ kills = 0

\* Mutant: the text of a skeleton is not read.
BeginBlind(p) ==
    /\ pc[p] = "begin"
    /\ existing' = [existing EXCEPT ![p] = FALSE]
    /\ pc' = [pc EXCEPT ![p] = "open"]
    /\ UNCHANGED <<dir, data, job, handle, piece, kills>>

\* A skeleton is read before it is generated again.
Begin(p) ==
    LET old == dir[<<File(p), Done>>] IN
    /\ pc[p] = "begin"
    /\ existing' = [existing EXCEPT ![p] =
                      File(p) \in Skeletons /\ old # NoFile /\ data[old].user]
    /\ pc' = [pc EXCEPT ![p] = "open"]
    /\ UNCHANGED <<dir, data, job, handle, piece, kills>>

\* Mutant: the file is written under its own name.
OpenDone(p) ==
    LET n == <<File(p), Done>> IN
    /\ pc[p] = "open"
    /\ \E i \in Opened(n) :
         /\ dir' = [dir EXCEPT ![n] = i, ![<<File(p), Temp>>] = i]
         /\ data' = [data EXCEPT ![i] = Empty]
         /\ handle' = [handle EXCEPT ![p] = i]
    /\ piece' = [piece EXCEPT ![p] = 0]
    /\ pc' = [pc EXCEPT ![p] = "write"]
    /\ UNCHANGED <<job, existing, kills>>
\* Mutant: a temporary file that is there already is kept, not truncated, and
\* the file is taken for written.
OpenExclusive(p) ==
    LET n == <<File(p), Temp>> IN
    /\ pc[p] = "open"
    /\ \E i \in Opened(n) :
         /\ dir' = [dir EXCEPT ![n] = i]
         /\ data' = IF dir[n] # NoFile THEN data ELSE [data EXCEPT ![i] = Empty]
         /\ handle' = [handle EXCEPT ![p] = IF dir[n] # NoFile THEN NoFile ELSE i]
         /\ pc' = [pc EXCEPT ![p] = IF dir[n] # NoFile THEN "remove" ELSE "write"]
    /\ piece' = [piece EXCEPT ![p] = 0]
    /\ UNCHANGED <<job, existing, kills>>

\* File.open(<name>.new, 'w') truncates the file or makes one.
Open(p) ==
    LET n == <<File(p), Temp>> IN
    /\ pc[p] = "open"
    /\ \E i \in Opened(n) :
         /\ dir' = [dir EXCEPT ![n] = i]
         /\ data' = [data EXCEPT ![i] = Empty]
         /\ handle' = [handle EXCEPT ![p] = i]
    /\ piece' = [piece EXCEPT ![p] = 0]
    /\ pc' = [pc EXCEPT ![p] = "write"]
    /\ UNCHANGED <<job, existing, kills>>

\* Mutant: one piece too many.
WriteOn(p) ==
    LET k == piece[p] + 1 IN
    /\ pc[p] = "write"
    /\ data' = [data EXCEPT ![handle[p]] =
                  [parts |-> (@.parts \cup {k}) \ {Parts + 1},
                   user |-> IF k = 1 THEN existing[p] ELSE @.user]]
    /\ piece' = [piece EXCEPT ![p] = k]
    /\ IF k > Parts
       THEN /\ pc' = [pc EXCEPT ![p] = "remove"]
            /\ handle' = [handle EXCEPT ![p] = NoFile]
       ELSE UNCHANGED <<pc, handle>>
    /\ UNCHANGED <<dir, job, existing, kills>>

\* The first piece of a skeleton is the text it had before.
Write(p) ==
    LET k == piece[p] + 1 IN
    /\ pc[p] = "write"
    /\ data' = [data EXCEPT ![handle[p]] =
                  [parts |-> @.parts \cup {k},
                   user |-> IF k = 1 THEN existing[p] ELSE @.user]]
    /\ piece' = [piece EXCEPT ![p] = k]
    /\ IF k = Parts
       THEN /\ pc' = [pc EXCEPT ![p] = "remove"]
            /\ handle' = [handle EXCEPT ![p] = NoFile]
       ELSE UNCHANGED <<pc, handle>>
    /\ UNCHANGED <<dir, job, existing, kills>>

\* FileUtils.rm(<name>, :force => true).
Remove(p) ==
    /\ pc[p] = "remove"
    /\ dir' = [dir EXCEPT ![<<File(p), Done>>] = NoFile]
    /\ pc' = [pc EXCEPT ![p] = "move"]
    /\ UNCHANGED <<data, job, handle, piece, existing, kills>>

\* Mutant: a missing temporary file goes unnoticed.
MoveForced(p) ==
    LET temp == <<File(p), Temp>> IN
    /\ pc[p] = "move"
    /\ IF dir[temp] = NoFile THEN UNCHANGED dir
       ELSE dir' = [dir EXCEPT ![<<File(p), Done>>] = dir[temp], ![temp] = NoFile]
    /\ IF job[p] < Len(Work[p])
       THEN /\ job' = [job EXCEPT ![p] = @ + 1]
            /\ pc' = [pc EXCEPT ![p] = "begin"]
       ELSE pc' = [pc EXCEPT ![p] = "success"] /\ UNCHANGED job
    /\ UNCHANGED <<data, handle, piece, existing, kills>>

\* FileUtils.mv(<name>.new, <name>); without a temporary file it raises, and
\* the run ends.
Move(p) ==
    LET temp == <<File(p), Temp>> IN
    /\ pc[p] = "move"
    /\ IF dir[temp] = NoFile
       THEN pc' = [pc EXCEPT ![p] = "error"] /\ UNCHANGED <<dir, job>>
       ELSE /\ dir' = [dir EXCEPT ![<<File(p), Done>>] = dir[temp], ![temp] = NoFile]
            /\ IF job[p] < Len(Work[p])
               THEN /\ job' = [job EXCEPT ![p] = @ + 1]
                    /\ pc' = [pc EXCEPT ![p] = "begin"]
               ELSE pc' = [pc EXCEPT ![p] = "success"] /\ UNCHANGED job
    /\ UNCHANGED <<data, handle, piece, existing, kills>>

Step(p) == Begin(p) \/ Open(p) \/ Write(p) \/ Remove(p) \/ Move(p)

\* A run is killed, and later started again from its first file.
Kill(p) ==
    /\ p \in Fragile
    /\ pc[p] \notin {"success", "error"}
    /\ kills < MaxKills
    /\ kills' = kills + 1
    /\ pc' = [pc EXCEPT ![p] = "begin"]
    /\ job' = [job EXCEPT ![p] = 1]
    /\ handle' = [handle EXCEPT ![p] = NoFile]
    /\ UNCHANGED <<dir, data, piece, existing>>

Next == \E p \in Runs : Step(p) \/ Kill(p)

\* A run that is not blocked goes on; nobody must kill it.
Spec == Init /\ [][Next]_fvars /\ \A p \in Runs : WF_fvars(Step(p))

-----------------------------------------------------------------------------
(* Properties.                                                             *)

\* The variables have their types, and a run has a file open exactly while it
\* writes: it never writes to a file it has not opened.
TypeOK ==
    /\ dir \in [Names -> Inodes \cup {NoFile}]
    /\ data \in [Inodes -> Contents]
    /\ pc \in [Runs -> {"begin", "open", "write", "remove", "move", "success", "error"}]
    /\ job \in [Runs -> Nat] /\ \A p \in Runs : job[p] \in DOMAIN Work[p]
    /\ handle \in [Runs -> Inodes \cup {NoFile}]
    /\ \A p \in Runs : (pc[p] = "write") <=> (handle[p] # NoFile)
    /\ piece \in [Runs -> 0 .. Parts] /\ existing \in [Runs -> BOOLEAN]
    /\ kills \in 0 .. MaxKills

\* A compiler never reads a mock that is half written, although runs may be
\* killed anywhere, as long as the mock is generated by one run.
NeverHalfWritten ==
    \A x \in Files \ (Skeletons \cup Shared) :
        dir[<<x, Done>>] # NoFile => Complete(dir[<<x, Done>>])

\* What a killed run leaves behind does not stop the next one: in the end
\* every file is there and complete that a run generates which shares none.
AllGenerated ==
    <>[](\A x \in Files :
            (\A p \in MadeBy(x) : \A y \in Shared : p \notin MadeBy(y)) =>
                Complete(dir[<<x, Done>>]))

\* Two runs may generate the same mock: if both report success, it is complete.
SuccessMeansComplete ==
    \A x \in Files :
        (\A p \in MadeBy(x) : pc[p] = "success") => Complete(dir[<<x, Done>>])

\* Updating a skeleton in one run that is not killed keeps what the user wrote:
\* some file always holds it, under the name of the skeleton or the temporary
\* one.
KeepsUserCode ==
    \A x \in Skeletons \ Shared : MadeBy(x) \cap Fragile = {} =>
        \E n \in {<<x, Done>>, <<x, Temp>>} : dir[n] # NoFile /\ data[dir[n]].user
=============================================================================
