----------------------------- MODULE FileProofs -----------------------------
(***************************************************************************)
(* Proofs about FileWriter, for any runs, work, number of pieces and       *)
(* kills.                                                                  *)
(***************************************************************************)
EXTENDS FileWriter, FiniteSetTheorems, TLAPS

\* Two names never stand for one file.
OneName ==
    \A m, n \in Names : dir[m] = dir[n] /\ dir[m] # NoFile => m = n

\* A run has a file open exactly while it writes, and the file has no other
\* name than those of what the run generates.
HandleInv ==
    \A p \in Runs :
        /\ (pc[p] = "write") <=> (handle[p] # NoFile)
        /\ pc[p] = "write" =>
             /\ piece[p] < Parts
             /\ \A n \in Names : dir[n] = handle[p] => n[1] = File(p)

Placed == TypeOK /\ OneName /\ HandleInv

-----------------------------------------------------------------------------
(* The files of a run, and the files that are opened.                      *)

LEMMA WorkFacts ==
    ASSUME NEW p \in Runs
    PROVE  /\ Len(Work[p]) \in Nat /\ Len(Work[p]) >= 1
           /\ DOMAIN Work[p] = 1 .. Len(Work[p])
           /\ \A i \in DOMAIN Work[p] : Work[p][i] \in Files /\ p \in MadeBy(Work[p][i])
  <1>1. Work[p] \in Seq(Files) /\ Work[p] # <<>>
    BY FileAssumption
  <1>2. Len(Work[p]) \in Nat /\ Len(Work[p]) >= 1 /\ DOMAIN Work[p] = 1 .. Len(Work[p])
    BY <1>1, SMT
  <1> QED
    BY <1>1, <1>2 DEF MadeBy, Files

LEMMA FileFacts ==
    ASSUME TypeOK, NEW p \in Runs
    PROVE  /\ File(p) \in Files /\ p \in MadeBy(File(p))
           /\ <<File(p), Temp>> \in Names /\ <<File(p), Done>> \in Names
           /\ <<File(p), Temp>> # <<File(p), Done>>
           /\ job[p] \in Nat /\ job[p] >= 1 /\ job[p] <= Len(Work[p])
  <1>1. job[p] \in 1 .. Len(Work[p]) /\ job[p] \in DOMAIN Work[p]
    BY WorkFacts DEF TypeOK
  <1>2. File(p) \in Files /\ p \in MadeBy(File(p))
    BY <1>1, WorkFacts DEF File
  <1>3. job[p] \in Nat /\ job[p] >= 1 /\ job[p] <= Len(Work[p])
    BY <1>1, WorkFacts, SMT
  <1> QED
    BY <1>2, <1>3 DEF Names, Temp, Done

LEMMA InodeFacts == NoFile \notin Inodes
  BY SMT DEF NoFile, Inodes

LEMMA OpenedFacts ==
    ASSUME TypeOK, NEW n \in Names, NEW i \in Opened(n)
    PROVE  /\ i \in Inodes /\ i # NoFile
           /\ dir[n] # NoFile => i = dir[n]
           /\ dir[n] = NoFile => /\ \A m \in Names : dir[m] # i
                                 /\ \A p \in Runs : handle[p] # i
  BY InodeFacts DEF TypeOK, Opened, NewFiles, Unused

-----------------------------------------------------------------------------
(* Which file a name stands for.                                           *)

LEMMA InitPlaced == Init => Placed
  <1> SUFFICES ASSUME Init PROVE Placed
    OBVIOUS
  <1>1. PICK old \in [Skeletons -> Inodes] :
          /\ \A a, b \in Skeletons : old[a] = old[b] => a = b
          /\ dir = [n \in Names |->
                      IF n[1] \in Skeletons /\ n[2] = Done THEN old[n[1]] ELSE NoFile]
          /\ data = [i \in Inodes |->
                       IF \E a \in Skeletons : old[a] = i
                       THEN [parts |-> {}, user |-> TRUE] ELSE Empty]
    BY DEF Init
  <1>2. dir \in [Names -> Inodes \cup {NoFile}]
    BY <1>1
  <1>3. data \in [Inodes -> Contents]
    BY <1>1 DEF Contents, Empty
  <1>4. \A p \in Runs : 1 \in DOMAIN Work[p]
    BY WorkFacts, SMT
  <1>5. 0 \in 0 .. Parts /\ 0 \in 0 .. MaxKills
    BY FileAssumption, SMT
  <1>6. TypeOK
    BY <1>2, <1>3, <1>4, <1>5 DEF Init, TypeOK
  <1>7. ASSUME NEW m \in Names, NEW n \in Names, dir[m] = dir[n], dir[m] # NoFile
        PROVE  m = n
    <2>1. m[1] \in Skeletons /\ n[1] \in Skeletons /\ m[2] = Done /\ n[2] = Done
      BY <1>1, <1>7
    <2>2. old[m[1]] = old[n[1]]
      BY <1>1, <1>7, <2>1
    <2>3. m[1] = n[1]
      BY <1>1, <2>1, <2>2
    <2> QED
      BY <2>1, <2>3 DEF Names
  <1>8. HandleInv
    BY DEF Init, HandleInv
  <1> QED
    BY <1>6, <1>7, <1>8 DEF Placed, OneName

LEMMA TypeStep == ASSUME Placed, NEW p \in Runs, Step(p) \/ Kill(p) PROVE TypeOK'
  <1>0. TypeOK
    BY DEF Placed
  <1>1. CASE Begin(p)
    BY <1>0, <1>1 DEF Begin, TypeOK, Contents
  <1>2. CASE Open(p)
    <2>1. PICK i \in Opened(<<File(p), Temp>>) :
            /\ dir' = [dir EXCEPT ![<<File(p), Temp>>] = i]
            /\ data' = [data EXCEPT ![i] = Empty]
            /\ handle' = [handle EXCEPT ![p] = i]
      BY <1>2 DEF Open
    <2>2. i \in Inodes
      BY <1>0, <2>1, FileFacts, OpenedFacts
    <2>3. Empty \in Contents
      BY DEF Empty, Contents
    <2>4. 0 \in 0 .. Parts
      BY FileAssumption, SMT
    <2>5. \A q \in Runs : (pc'[q] = "write") <=> (handle'[q] # NoFile)
      BY <1>0, <1>2, <2>1, <2>2, InodeFacts DEF Open, TypeOK
    <2> QED
      BY <1>0, <1>2, <2>1, <2>2, <2>3, <2>4, <2>5 DEF Open, TypeOK
  <1>3. CASE Write(p)
    <2>1. pc[p] = "write" /\ piece[p] < Parts /\ piece[p] \in Nat
      BY <1>0, <1>3, FileAssumption, SMT DEF Write, Placed, HandleInv, TypeOK
    <2>2. piece[p] + 1 \in 1 .. Parts /\ piece[p] + 1 \in 0 .. Parts
      BY <2>1, FileAssumption, SMT
    <2>3. handle[p] \in Inodes /\ data[handle[p]] \in Contents
      BY <1>0, <2>1 DEF Placed, HandleInv, TypeOK
    <2>4. data' \in [Inodes -> Contents]
      <3>1. [parts |-> data[handle[p]].parts \cup {piece[p] + 1},
             user |-> IF piece[p] + 1 = 1 THEN existing[p] ELSE data[handle[p]].user] \in Contents
        BY <1>0, <2>2, <2>3 DEF Contents, TypeOK
      <3> QED
        BY <1>0, <1>3, <2>3, <3>1 DEF Write, TypeOK
    <2> QED
      BY <1>0, <1>3, <2>2, <2>4 DEF Write, TypeOK
  <1>4. CASE Remove(p)
    BY <1>0, <1>4 DEF Remove, TypeOK
  <1>5. CASE Move(p)
    <2>1. dir' \in [Names -> Inodes \cup {NoFile}]
      BY <1>0, <1>5, FileFacts DEF Move, TypeOK
    <2>2. job' \in [Runs -> Nat] /\ \A q \in Runs : job'[q] \in DOMAIN Work[q]
      <3>1. job' = job \/ (job[p] < Len(Work[p]) /\ job' = [job EXCEPT ![p] = job[p] + 1])
        BY <1>5 DEF Move
      <3>2. job[p] < Len(Work[p]) => job[p] + 1 \in DOMAIN Work[p] /\ job[p] + 1 \in Nat
        <4>1. /\ job[p] \in Nat /\ Len(Work[p]) \in Nat
              /\ DOMAIN Work[p] = 1 .. Len(Work[p])
          BY <1>0, FileFacts, WorkFacts
        <4> QED
          BY <4>1, SMT
      <3> QED
        BY <1>0, <3>1, <3>2 DEF TypeOK
    <2>3. pc' \in [Runs -> {"begin", "open", "write", "remove", "move", "success", "error"}]
      <3>1. \E s \in {"begin", "success", "error"} : pc' = [pc EXCEPT ![p] = s]
        BY <1>5 DEF Move
      <3> QED
        BY <1>0, <3>1 DEF TypeOK
    <2> QED
      BY <1>0, <1>5, <2>1, <2>2, <2>3 DEF Move, TypeOK
  <1>6. CASE Kill(p)
    <2>1. \A q \in Runs : 1 \in DOMAIN Work[q]
      BY WorkFacts, SMT
    <2>2. kills + 1 \in 0 .. MaxKills
      BY <1>0, <1>6, FileAssumption, SMT DEF Kill, TypeOK
    <2> QED
      BY <1>0, <1>6, <2>1, <2>2 DEF Kill, TypeOK
  <1> QED
    BY <1>1, <1>2, <1>3, <1>4, <1>5, <1>6 DEF Step

\* What a step of one run leaves alone of the others.
LEMMA Others ==
    ASSUME TypeOK, NEW p \in Runs, Step(p) \/ Kill(p), NEW q \in Runs, q # p
    PROVE  /\ pc'[q] = pc[q] /\ job'[q] = job[q] /\ handle'[q] = handle[q]
           /\ piece'[q] = piece[q] /\ existing'[q] = existing[q] /\ File(q)' = File(q)
  <1>1. /\ pc \in [Runs -> {"begin", "open", "write", "remove", "move", "success", "error"}]
        /\ job \in [Runs -> Nat] /\ handle \in [Runs -> Inodes \cup {NoFile}]
        /\ piece \in [Runs -> 0 .. Parts] /\ existing \in [Runs -> BOOLEAN]
    BY DEF TypeOK
  <1>2. CASE Begin(p)
    BY <1>1, <1>2 DEF Begin, File
  <1>3. CASE Open(p)
    BY <1>1, <1>3 DEF Open, File
  <1>4. CASE Write(p)
    BY <1>1, <1>4 DEF Write, File
  <1>5. CASE Remove(p)
    BY <1>1, <1>5 DEF Remove, File
  <1>6. CASE Move(p)
    BY <1>1, <1>6 DEF Move, File
  <1>7. CASE Kill(p)
    BY <1>1, <1>7 DEF Kill, File
  <1> QED
    BY <1>2, <1>3, <1>4, <1>5, <1>6, <1>7 DEF Step

LEMMA OneNameStep == ASSUME Placed, NEW p \in Runs, Step(p) \/ Kill(p) PROVE OneName'
  <1>0. TypeOK /\ OneName /\ dir \in [Names -> Inodes \cup {NoFile}]
    BY DEF Placed, TypeOK
  <1>1. CASE Begin(p) \/ Write(p) \/ Kill(p)
    BY <1>0, <1>1 DEF Begin, Write, Kill, OneName
  <1>2. CASE Open(p)
    <2>1. PICK i \in Opened(<<File(p), Temp>>) : dir' = [dir EXCEPT ![<<File(p), Temp>>] = i]
      BY <1>2 DEF Open
    <2>2. /\ dir[<<File(p), Temp>>] # NoFile => i = dir[<<File(p), Temp>>]
          /\ dir[<<File(p), Temp>>] = NoFile => \A m \in Names : dir[m] # i
          /\ <<File(p), Temp>> \in Names
      BY <1>0, <2>1, FileFacts, OpenedFacts
    <2> QED
      BY <1>0, <2>1, <2>2 DEF OneName
  <1>3. CASE Remove(p)
    BY <1>0, <1>3 DEF Remove, OneName
  <1>4. CASE Move(p)
    <2>1. \/ dir' = dir
          \/ dir' = [dir EXCEPT ![<<File(p), Done>>] = dir[<<File(p), Temp>>],
                               ![<<File(p), Temp>>] = NoFile]
      BY <1>4 DEF Move
    <2>2. /\ <<File(p), Temp>> \in Names /\ <<File(p), Done>> \in Names
          /\ <<File(p), Temp>> # <<File(p), Done>>
      BY <1>0, FileFacts
    <2> QED
      BY <1>0, <2>1, <2>2 DEF OneName
  <1> QED
    BY <1>1, <1>2, <1>3, <1>4 DEF Step

LEMMA HandleStep == ASSUME Placed, NEW p \in Runs, Step(p) \/ Kill(p) PROVE HandleInv'
  <1>0. /\ TypeOK /\ OneName /\ HandleInv /\ dir \in [Names -> Inodes \cup {NoFile}]
        /\ pc \in [Runs -> {"begin", "open", "write", "remove", "move", "success", "error"}]
        /\ handle \in [Runs -> Inodes \cup {NoFile}]
        /\ piece \in [Runs -> 0 .. Parts]
    BY DEF Placed, TypeOK
  <1>1. ASSUME NEW q \in Runs, q # p, pc[q] = "write", NEW n \in Names, dir'[n] = handle[q]
        PROVE  n[1] = File(q)
    <2>1. handle[q] # NoFile /\ \A m \in Names : dir[m] = handle[q] => m[1] = File(q)
      BY <1>0, <1>1 DEF HandleInv
    <2>2. CASE dir'[n] = dir[n]
      BY <1>1, <2>1, <2>2
    <2>3. CASE Open(p)
      <3>1. PICK i \in Opened(<<File(p), Temp>>) : dir' = [dir EXCEPT ![<<File(p), Temp>>] = i]
        BY <2>3 DEF Open
      <3>2. /\ dir[<<File(p), Temp>>] # NoFile => i = dir[<<File(p), Temp>>]
            /\ dir[<<File(p), Temp>>] = NoFile => handle[q] # i
        BY <1>0, <3>1, FileFacts, OpenedFacts
      <3> QED
        BY <1>0, <1>1, <2>1, <3>1, <3>2
    <2>4. CASE Move(p) /\ dir'[n] # dir[n]
      <3>1. dir' = [dir EXCEPT ![<<File(p), Done>>] = dir[<<File(p), Temp>>],
                               ![<<File(p), Temp>>] = NoFile]
        BY <2>4 DEF Move
      <3>2. <<File(p), Temp>> \in Names
        BY <1>0, FileFacts
      <3>3. n = <<File(p), Done>> /\ dir'[n] = dir[<<File(p), Temp>>]
        BY <1>0, <1>1, <2>1, <2>4, <3>1
      <3> QED
        BY <1>1, <2>1, <3>2, <3>3
    <2>5. CASE Remove(p) /\ dir'[n] # dir[n]
      <3>1. dir'[n] = NoFile
        BY <1>0, <1>1, <2>5 DEF Remove
      <3> QED
        BY <1>1, <2>1, <3>1
    <2>6. dir'[n] = dir[n] \/ Open(p) \/ Move(p) \/ Remove(p)
      BY DEF Step, Begin, Write, Kill
    <2> QED
      BY <2>2, <2>3, <2>4, <2>5, <2>6
  <1>2. ASSUME NEW q \in Runs, q # p
        PROVE  /\ (pc'[q] = "write") <=> (handle'[q] # NoFile)
               /\ pc'[q] = "write" =>
                    /\ piece'[q] < Parts
                    /\ \A n \in Names : dir'[n] = handle'[q] => n[1] = File(q)'
    <2>1. /\ pc'[q] = pc[q] /\ handle'[q] = handle[q] /\ piece'[q] = piece[q]
          /\ File(q)' = File(q)
      BY <1>0, <1>2, Others
    <2> QED
      BY <1>0, <1>1, <1>2, <2>1 DEF HandleInv
  <1>3. /\ (pc'[p] = "write") <=> (handle'[p] # NoFile)
        /\ pc'[p] = "write" =>
             /\ piece'[p] < Parts
             /\ \A n \in Names : dir'[n] = handle'[p] => n[1] = File(p)'
    <2>1. CASE Open(p)
      <3>1. PICK i \in Opened(<<File(p), Temp>>) :
              dir' = [dir EXCEPT ![<<File(p), Temp>>] = i] /\ handle' = [handle EXCEPT ![p] = i]
        BY <2>1 DEF Open
      <3>2. /\ dir[<<File(p), Temp>>] # NoFile => i = dir[<<File(p), Temp>>]
            /\ dir[<<File(p), Temp>>] = NoFile => \A m \in Names : dir[m] # i
            /\ <<File(p), Temp>> \in Names /\ i # NoFile
        BY <1>0, <3>1, FileFacts, OpenedFacts
      <3>3. \A n \in Names : dir'[n] = i => n = <<File(p), Temp>>
        BY <1>0, <3>1, <3>2 DEF OneName
      <3>4. /\ handle'[p] = i /\ pc'[p] = "write" /\ piece'[p] = 0 /\ File(p)' = File(p)
        BY <1>0, <2>1, <3>1 DEF Open, File
      <3>5. 0 < Parts
        BY FileAssumption, SMT
      <3> QED
        BY <3>2, <3>3, <3>4, <3>5
    <2>2. CASE Write(p)
      <3>1. /\ pc[p] = "write" /\ dir' = dir /\ File(p)' = File(p)
            /\ piece'[p] = piece[p] + 1
            /\ IF piece[p] + 1 = Parts
               THEN pc'[p] = "remove" /\ handle'[p] = NoFile
               ELSE pc'[p] = pc[p] /\ handle'[p] = handle[p]
        BY <1>0, <2>2 DEF Write, File
      <3>2. piece[p] < Parts /\ piece[p] \in Nat /\ Parts \in Nat
        BY <1>0, <3>1, FileAssumption, SMT DEF HandleInv
      <3>3. piece[p] + 1 # Parts => piece[p] + 1 < Parts
        BY <3>2, SMT
      <3> QED
        BY <1>0, <3>1, <3>3 DEF HandleInv
    <2>3. CASE Begin(p) \/ Remove(p) \/ Move(p) \/ Kill(p)
      <3>1. pc'[p] # "write"
        BY <1>0, <2>3 DEF Begin, Remove, Move, Kill
      <3>2. handle'[p] = NoFile
        <4>1. CASE Kill(p)
          BY <1>0, <4>1 DEF Kill
        <4>2. CASE Begin(p) \/ Remove(p) \/ Move(p)
          <5>1. pc[p] # "write" /\ handle' = handle
            BY <4>2 DEF Begin, Remove, Move
          <5> QED
            BY <1>0, <5>1 DEF HandleInv
        <4> QED
          BY <2>3, <4>1, <4>2
      <3> QED
        BY <3>1, <3>2
    <2> QED
      BY <2>1, <2>2, <2>3 DEF Step
  <1> QED
    BY <1>2, <1>3 DEF HandleInv

LEMMA NextPlaced == Placed /\ [Next]_fvars => Placed'
  <1> SUFFICES ASSUME Placed, [Next]_fvars PROVE Placed'
    OBVIOUS
  <1>1. ASSUME NEW p \in Runs, Step(p) \/ Kill(p)
        PROVE  Placed'
    BY <1>1, TypeStep, OneNameStep, HandleStep DEF Placed
  <1>2. CASE UNCHANGED fvars
    BY <1>2 DEF fvars, Placed, TypeOK, OneName, HandleInv, File
  <1> QED
    BY <1>1, <1>2 DEF Next

\* The types of FileWriter, for any runs and work: among them that a run has a
\* file open exactly while it writes, so that it writes only to files it opened.
THEOREM TypeCorrect == Spec => []TypeOK
  <1>1. Placed => TypeOK
    BY DEF Placed
  <1> QED
    BY InitPlaced, NextPlaced, <1>1, PTL DEF Spec

-----------------------------------------------------------------------------
(* What a step of p does to the names of a file x and what they stand for. *)

LEMMA NameFacts ==
    ASSUME NEW x \in Files
    PROVE  /\ <<x, Temp>> \in Names /\ <<x, Done>> \in Names /\ <<x, Temp>> # <<x, Done>>
           /\ <<x, Temp>>[1] = x /\ <<x, Done>>[1] = x
  BY DEF Names, Temp, Done

\* Nothing, when p generates another file.
LEMMA OtherFile ==
    ASSUME Placed, NEW p \in Runs, Step(p) \/ Kill(p), NEW n \in Names, n[1] # File(p)
    PROVE  dir'[n] = dir[n] /\ (dir[n] # NoFile => data'[dir[n]] = data[dir[n]])
  <1>0. /\ TypeOK /\ OneName /\ HandleInv /\ dir \in [Names -> Inodes \cup {NoFile}]
        /\ data \in [Inodes -> Contents]
    BY DEF Placed, TypeOK
  <1>1. n # <<File(p), Temp>> /\ n # <<File(p), Done>>
    OBVIOUS
  <1>2. CASE Open(p)
    <2>1. PICK i \in Opened(<<File(p), Temp>>) :
            /\ dir' = [dir EXCEPT ![<<File(p), Temp>>] = i]
            /\ data' = [data EXCEPT ![i] = Empty]
      BY <1>2 DEF Open
    <2>2. /\ dir[<<File(p), Temp>>] # NoFile => i = dir[<<File(p), Temp>>]
          /\ dir[<<File(p), Temp>>] = NoFile => dir[n] # i
          /\ <<File(p), Temp>> \in Names
      BY <1>0, <2>1, FileFacts, OpenedFacts
    <2>3. dir[n] # NoFile => dir[n] # i
      BY <1>0, <1>1, <2>2 DEF OneName
    <2> QED
      BY <1>0, <1>1, <2>1, <2>3
  <1>3. CASE Write(p)
    <2>1. dir' = dir /\ pc[p] = "write" /\ \A i \in Inodes : i # handle[p] => data'[i] = data[i]
      BY <1>0, <1>3 DEF Write
    <2>2. dir[n] # handle[p]
      BY <1>0, <2>1 DEF HandleInv
    <2> QED
      BY <1>0, <2>1, <2>2
  <1>4. CASE Begin(p) \/ Kill(p)
    BY <1>4 DEF Begin, Kill
  <1>5. CASE Remove(p)
    BY <1>0, <1>1, <1>5 DEF Remove
  <1>6. CASE Move(p)
    BY <1>0, <1>1, <1>6 DEF Move
  <1> QED
    BY <1>2, <1>3, <1>4, <1>5, <1>6 DEF Step

\* Opening truncates the temporary file and leaves the old one alone.
LEMMA OpenOwn ==
    ASSUME Placed, NEW p \in Runs, Open(p), NEW x \in Files, File(p) = x
    PROVE  /\ dir'[<<x, Temp>>] # NoFile /\ handle'[p] = dir'[<<x, Temp>>]
           /\ piece'[p] = 0 /\ pc'[p] = "write" /\ job' = job
           /\ dir'[<<x, Done>>] = dir[<<x, Done>>]
           /\ dir[<<x, Done>>] # NoFile => data'[dir[<<x, Done>>]] = data[dir[<<x, Done>>]]
  <1>0. /\ TypeOK /\ OneName /\ dir \in [Names -> Inodes \cup {NoFile}]
        /\ data \in [Inodes -> Contents] /\ handle \in [Runs -> Inodes \cup {NoFile}]
        /\ piece \in [Runs -> 0 .. Parts]
        /\ pc \in [Runs -> {"begin", "open", "write", "remove", "move", "success", "error"}]
    BY DEF Placed, TypeOK
  <1>1. PICK i \in Opened(<<x, Temp>>) :
          /\ dir' = [dir EXCEPT ![<<x, Temp>>] = i]
          /\ data' = [data EXCEPT ![i] = Empty]
          /\ handle' = [handle EXCEPT ![p] = i]
    BY DEF Open
  <1>2. /\ dir[<<x, Temp>>] # NoFile => i = dir[<<x, Temp>>]
        /\ dir[<<x, Temp>>] = NoFile => \A m \in Names : dir[m] # i
        /\ i # NoFile
    BY <1>0, <1>1, NameFacts, OpenedFacts
  <1>3. dir[<<x, Done>>] # NoFile => dir[<<x, Done>>] # i
    BY <1>0, <1>2, NameFacts DEF OneName
  <1>4. piece'[p] = 0 /\ pc'[p] = "write" /\ job' = job
    BY <1>0 DEF Open
  <1> QED
    BY <1>0, <1>1, <1>2, <1>3, <1>4, NameFacts

\* Writing adds a piece to the file that is open and leaves the others alone.
LEMMA WriteOwn ==
    ASSUME Placed, NEW p \in Runs, Write(p)
    PROVE  /\ dir' = dir /\ job' = job /\ pc[p] = "write" /\ handle[p] \in Inodes
           /\ piece[p] \in Nat /\ piece'[p] = piece[p] + 1 /\ piece[p] < Parts
           /\ \A i \in Inodes : i # handle[p] => data'[i] = data[i]
           /\ data'[handle[p]].parts = data[handle[p]].parts \cup {piece[p] + 1}
           /\ data'[handle[p]].user =
                 (IF piece[p] = 0 THEN existing[p] ELSE data[handle[p]].user)
           /\ \/ piece[p] + 1 = Parts /\ pc'[p] = "remove"
              \/ pc'[p] = "write" /\ handle'[p] = handle[p]
  <1>0. /\ TypeOK /\ HandleInv /\ data \in [Inodes -> Contents]
        /\ handle \in [Runs -> Inodes \cup {NoFile}] /\ piece \in [Runs -> 0 .. Parts]
        /\ pc \in [Runs -> {"begin", "open", "write", "remove", "move", "success", "error"}]
    BY DEF Placed, TypeOK
  <1>1. dir' = dir /\ job' = job /\ pc[p] = "write" /\ piece'[p] = piece[p] + 1
    BY <1>0 DEF Write
  <1>2. handle[p] \in Inodes /\ piece[p] < Parts
    BY <1>0, <1>1 DEF HandleInv
  <1>3. piece[p] \in Nat /\ (piece[p] + 1 = 1 <=> piece[p] = 0)
    BY <1>0, FileAssumption, SMT
  <1>4. data' = [data EXCEPT ![handle[p]] =
                   [parts |-> data[handle[p]].parts \cup {piece[p] + 1},
                    user |-> IF piece[p] + 1 = 1 THEN existing[p] ELSE data[handle[p]].user]]
    BY DEF Write
  <1>5. \/ (piece[p] + 1 = Parts /\ pc'[p] = "remove")
        \/ (pc'[p] = "write" /\ handle'[p] = handle[p])
    BY <1>0 DEF Write
  <1> QED
    BY <1>0, <1>1, <1>2, <1>3, <1>4, <1>5

\* Moving renames the temporary file, or fails.
LEMMA MoveOwn ==
    ASSUME Placed, NEW p \in Runs, Move(p), NEW x \in Files, File(p) = x
    PROVE  /\ data' = data /\ pc[p] = "move"
           /\ \/ dir' = dir /\ job' = job /\ pc'[p] = "error"
              \/ /\ dir[<<x, Temp>>] # NoFile /\ dir'[<<x, Temp>>] = NoFile
                 /\ dir'[<<x, Done>>] = dir[<<x, Temp>>]
                 /\ \/ job'[p] = job[p] + 1 /\ pc'[p] = "begin"
                    \/ job' = job /\ pc'[p] = "success" /\ ~(job[p] < Len(Work[p]))
  <1>0. /\ dir \in [Names -> Inodes \cup {NoFile}] /\ job \in [Runs -> Nat]
        /\ pc \in [Runs -> {"begin", "open", "write", "remove", "move", "success", "error"}]
    BY DEF Placed, TypeOK
  <1> QED
    BY <1>0, NameFacts DEF Move

LEMMA RemoveOwn ==
    ASSUME Placed, NEW p \in Runs, Remove(p), NEW x \in Files, File(p) = x
    PROVE  /\ data' = data /\ job' = job /\ pc[p] = "remove" /\ pc'[p] = "move"
           /\ dir'[<<x, Done>>] = NoFile /\ dir'[<<x, Temp>>] = dir[<<x, Temp>>]
  <1>0. /\ dir \in [Names -> Inodes \cup {NoFile}]
        /\ pc \in [Runs -> {"begin", "open", "write", "remove", "move", "success", "error"}]
    BY DEF Placed, TypeOK
  <1> QED
    BY <1>0, NameFacts DEF Remove

LEMMA BeginOwn ==
    ASSUME Placed, NEW p \in Runs, Begin(p)
    PROVE  /\ dir' = dir /\ data' = data /\ job' = job /\ pc'[p] = "open"
           /\ existing'[p] = (/\ File(p) \in Skeletons /\ dir[<<File(p), Done>>] # NoFile
                              /\ data[dir[<<File(p), Done>>]].user)
  <1>0. /\ pc \in [Runs -> {"begin", "open", "write", "remove", "move", "success", "error"}]
        /\ existing \in [Runs -> BOOLEAN]
    BY DEF Placed, TypeOK
  <1> QED
    BY <1>0 DEF Begin

LEMMA KillOwn ==
    ASSUME Placed, NEW p \in Runs, Kill(p)
    PROVE  /\ dir' = dir /\ data' = data /\ pc'[p] = "begin" /\ job'[p] = 1
           /\ pc[p] # "success" /\ p \in Fragile
  <1>0. /\ pc \in [Runs -> {"begin", "open", "write", "remove", "move", "success", "error"}]
        /\ job \in [Runs -> Nat]
    BY DEF Placed, TypeOK
  <1> QED
    BY <1>0 DEF Kill

\* Pieces are only taken away from a file where it is opened.
LEMMA PartsGrow ==
    ASSUME Placed, Placed', NEW p \in Runs, Step(p) \/ Kill(p),
           NEW n \in Names, dir[n] # NoFile, dir'[n] = dir[n],
           ~(Open(p) /\ n = <<File(p), Temp>>)
    PROVE  data[dir[n]].parts \subseteq data'[dir[n]].parts
  <1>1. CASE n[1] # File(p)
    BY <1>1, OtherFile
  <1>2. CASE n[1] = File(p) /\ Open(p)
    <2>1. n = <<File(p), Done>> /\ File(p) \in Files
      BY <1>2 DEF Names
    <2> QED
      BY <1>2, <2>1, OpenOwn
  <1>3. CASE Write(p)
    <2>1. dir[n] \in Inodes
      BY DEF Placed, TypeOK
    <2> QED
      BY <1>3, <2>1, WriteOwn
  <1>4. CASE Begin(p) \/ Kill(p) \/ Remove(p) \/ Move(p)
    BY <1>4 DEF Begin, Kill, Remove, Move
  <1> QED
    BY <1>1, <1>2, <1>3, <1>4 DEF Step

LEMMA CompleteKept ==
    ASSUME Placed, Placed', NEW p \in Runs, Step(p) \/ Kill(p),
           NEW n \in Names, Complete(dir[n]), dir'[n] = dir[n],
           ~(Open(p) /\ n = <<File(p), Temp>>)
    PROVE  Complete(dir[n])'
  <1>1. dir[n] # NoFile /\ data[dir[n]].parts = 1 .. Parts
    BY DEF Complete
  <1>2. 1 .. Parts \subseteq data'[dir[n]].parts
    BY <1>1, PartsGrow
  <1>3. dir'[n] \in Inodes /\ data'[dir'[n]].parts \subseteq 1 .. Parts
    BY <1>1 DEF Placed, TypeOK, Contents
  <1> QED
    BY <1>1, <1>2, <1>3 DEF Complete

-----------------------------------------------------------------------------
(* A file that several runs generate.                                      *)

\* The run w has yet to finish the file x.
ToDo(w, x) == pc[w] # "success" /\ \E j \in DOMAIN Work[w] : j >= job[w] /\ Work[w][j] = x

AtWork(w, x) == File(w) = x /\ pc[w] \in {"write", "remove", "move"}

\* w writes the temporary file of x; what it has written is there.
WritesTemp(w, x) ==
    /\ pc[w] = "write" /\ File(w) = x
    /\ handle[w] = dir[<<x, Temp>>]
    /\ 1 .. piece[w] \subseteq data[dir[<<x, Temp>>]].parts

\* A temporary file with pieces missing is being written, or was left behind by
\* a run that has to generate it again.
TempInv ==
    \A x \in Files :
        dir[<<x, Temp>>] # NoFile /\ ~Complete(dir[<<x, Temp>>]) =>
            \E w \in MadeBy(x) : WritesTemp(w, x) \/ (ToDo(w, x) /\ ~AtWork(w, x))

\* A file that is missing or has pieces missing is yet to be finished by a run.
DoneInv ==
    \A x \in Files : Complete(dir[<<x, Done>>]) \/ \E w \in MadeBy(x) : ToDo(w, x)

LEMMA OwnToDo ==
    ASSUME TypeOK, NEW w \in Runs, pc[w] # "success"
    PROVE  ToDo(w, File(w))
  <1>1. job[w] \in DOMAIN Work[w] /\ job[w] >= job[w]
    BY FileFacts, SMT DEF TypeOK
  <1> QED
    BY <1>1 DEF ToDo, File

\* Only moving a file finishes it.
LEMMA ToDoKept ==
    ASSUME Placed, NEW p \in Runs, Step(p) \/ Kill(p), NEW w \in Runs, NEW x \in Files,
           ToDo(w, x), ~(w = p /\ Move(p) /\ File(p) = x /\ dir[<<x, Temp>>] # NoFile)
    PROVE  ToDo(w, x)'
  <1>0. TypeOK /\ File(p) \in Files
    BY FileFacts DEF Placed
  <1>1. CASE w # p
    BY <1>0, <1>1, Others DEF ToDo
  <1>2. PICK j \in DOMAIN Work[w] : j >= job[w] /\ Work[w][j] = x
    BY DEF ToDo
  <1>3. /\ j \in Nat /\ j >= 1 /\ j <= Len(Work[w]) /\ Len(Work[w]) \in Nat
        /\ job[w] \in Nat
    <2>1. DOMAIN Work[w] = 1 .. Len(Work[w]) /\ Len(Work[w]) \in Nat /\ job[w] \in Nat
      BY <1>0, WorkFacts, FileFacts
    <2> QED
      BY <1>2, <2>1, SMT
  <1>4. CASE w = p /\ Kill(p)
    <2>1. job'[w] = 1 /\ pc'[w] = "begin"
      BY <1>4, KillOwn
    <2> QED
      BY <1>2, <1>3, <2>1 DEF ToDo
  <1>5. CASE w = p /\ (Begin(p) \/ Open(p) \/ Write(p) \/ Remove(p))
    <2>1. job' = job
      BY <1>5 DEF Begin, Open, Write, Remove
    <2>2. pc'[p] # "success"
      BY <1>0, <1>5 DEF Begin, Open, Write, Remove, TypeOK
    <2> QED
      BY <1>2, <1>5, <2>1, <2>2 DEF ToDo
  <1>6. CASE w = p /\ Move(p)
    <2>1. CASE job' = job /\ pc'[p] = "error"
      BY <1>2, <1>6, <2>1 DEF ToDo
    <2>2. CASE File(p) # x
      <3>1. j # job[w]
        BY <1>2, <1>6, <2>2 DEF File
      <3>2. j >= job[w] + 1
        BY <1>2, <1>3, <3>1, SMT
      <3>3. job[w] < Len(Work[w])
        BY <1>3, <3>2, SMT
      <3>4. (job'[p] = job[p] + 1 /\ pc'[p] = "begin") \/ (job' = job /\ pc'[p] = "error")
        BY <1>0, <1>6, <3>3, MoveOwn
      <3> QED
        BY <1>2, <1>6, <2>1, <3>2, <3>4 DEF ToDo
    <2>3. CASE File(p) = x
      BY <1>6, <2>1, <2>3, MoveOwn
    <2> QED
      BY <2>2, <2>3
  <1> QED
    BY <1>1, <1>4, <1>5, <1>6 DEF Step

LEMMA TempStep ==
    ASSUME Placed, Placed', TempInv, NEW p \in Runs, Step(p) \/ Kill(p)
    PROVE  TempInv'
  <1> SUFFICES ASSUME NEW x \in Files, dir'[<<x, Temp>>] # NoFile, ~Complete(dir[<<x, Temp>>])'
               PROVE  \E w \in MadeBy(x) :
                         WritesTemp(w, x)' \/ (ToDo(w, x)' /\ ~AtWork(w, x)')
    BY DEF TempInv
  <1> DEFINE t == <<x, Temp>>
  <1>0. TypeOK /\ t \in Names /\ p \in MadeBy(File(p)) /\ t[1] = x
    BY NameFacts, FileFacts DEF Placed
  <1>1. CASE Open(p) /\ File(p) = x
    <2>1. /\ handle'[p] = dir'[t] /\ piece'[p] = 0 /\ pc'[p] = "write" /\ job' = job
      BY <1>1, OpenOwn
    <2>2. 1 .. 0 = {}
      BY SMT
    <2>3. WritesTemp(p, x)'
      BY <1>1, <2>1, <2>2 DEF WritesTemp, File
    <2> QED
      BY <1>0, <1>1, <2>3
  <1>2. CASE ~(Open(p) /\ File(p) = x)
    <2>1. dir'[t] = dir[t]
      <3>1. CASE File(p) # x
        BY <1>0, <3>1, OtherFile
      <3>2. CASE File(p) = x
        <4>1. Begin(p) \/ Write(p) \/ Remove(p) \/ Move(p) \/ Kill(p)
          BY <1>2, <3>2 DEF Step
        <4> QED
          BY <3>2, <4>1, BeginOwn, WriteOwn, RemoveOwn, MoveOwn, KillOwn
      <3> QED
        BY <3>1, <3>2
    <2>2. dir[t] # NoFile /\ ~(Open(p) /\ t = <<File(p), Temp>>)
      BY <1>2, <2>1
    <2>3. ~Complete(dir[t])
      BY <1>0, <2>1, <2>2, CompleteKept
    <2>4. PICK w \in MadeBy(x) : WritesTemp(w, x) \/ (ToDo(w, x) /\ ~AtWork(w, x))
      BY <2>2, <2>3 DEF TempInv
    <2>6. w \in Runs
      BY DEF MadeBy
    <2>7. CASE WritesTemp(w, x) /\ w # p
      <3>1. /\ pc'[w] = pc[w] /\ handle'[w] = handle[w] /\ piece'[w] = piece[w]
            /\ File(w)' = File(w)
        BY <1>0, <2>6, <2>7, Others
      <3>2. data[dir[t]].parts \subseteq data'[dir[t]].parts
        BY <1>0, <2>1, <2>2, PartsGrow
      <3>3. WritesTemp(w, x)'
        BY <2>1, <2>7, <3>1, <3>2 DEF WritesTemp
      <3> QED
        BY <3>3
    <2>8. CASE WritesTemp(w, x) /\ w = p
      <3>1. pc[p] = "write" /\ File(p) = x /\ handle[p] = dir[t]
            /\ 1 .. piece[p] \subseteq data[dir[t]].parts
        BY <2>8 DEF WritesTemp
      <3>2. Write(p) \/ Kill(p)
        BY <3>1 DEF Step, Begin, Open, Remove, Move
      <3>3. CASE Write(p)
        <4>1. /\ piece[p] \in Nat /\ piece'[p] = piece[p] + 1 /\ job' = job
              /\ data'[dir[t]].parts = data[dir[t]].parts \cup {piece[p] + 1}
              /\ \/ piece[p] + 1 = Parts /\ pc'[p] = "remove"
                 \/ pc'[p] = "write" /\ handle'[p] = handle[p]
          BY <3>1, <3>3, WriteOwn
        <4>2. 1 .. piece[p] + 1 = (1 .. piece[p]) \cup {piece[p] + 1}
          BY <4>1, SMT
        <4>3. 1 .. piece[p] + 1 \subseteq data'[dir[t]].parts
          BY <3>1, <4>1, <4>2
        <4>4. CASE piece[p] + 1 = Parts
          <5>0. /\ data' \in [Inodes -> Contents] /\ t \in Names
                /\ dir' \in [Names -> Inodes \cup {NoFile}] /\ dir'[t] # NoFile
            BY <1>0 DEF Placed, TypeOK
          <5>1. dir'[t] \in Inodes /\ data'[dir'[t]].parts \subseteq 1 .. Parts
            BY <5>0 DEF Contents
          <5> QED
            BY <2>1, <2>2, <4>3, <4>4, <5>1 DEF Complete
        <4>5. CASE pc'[p] = "write" /\ handle'[p] = handle[p]
          <5>1. WritesTemp(p, x)'
            BY <2>1, <3>1, <4>1, <4>3, <4>5 DEF WritesTemp, File
          <5> QED
            BY <2>8, <5>1
        <4> QED
          BY <4>1, <4>4, <4>5
      <3>4. CASE Kill(p)
        <4>1. ToDo(p, x)
          BY <1>0, <3>1, OwnToDo
        <4>2. ToDo(p, x)'
          BY <3>1, <4>1, ToDoKept DEF Move
        <4>3. ~AtWork(p, x)'
          BY <3>4, KillOwn DEF AtWork
        <4> QED
          BY <2>8, <4>2, <4>3
      <3> QED
        BY <3>2, <3>3, <3>4
    <2>9. CASE ToDo(w, x) /\ ~AtWork(w, x)
      <3>1. ~(w = p /\ Move(p) /\ File(p) = x /\ dir[t] # NoFile)
        BY <2>9 DEF AtWork, Move
      <3>2. ToDo(w, x)'
        BY <2>6, <2>9, <3>1, ToDoKept
      <3>3. ~AtWork(w, x)'
        <4>1. CASE w # p
          BY <1>0, <2>6, <2>9, <4>1, Others DEF AtWork
        <4>2. CASE w = p /\ (Begin(p) \/ Kill(p))
          BY <4>2, BeginOwn, KillOwn DEF AtWork
        <4>3. CASE w = p /\ Open(p)
          BY <1>2, <4>3 DEF AtWork, Open, File
        <4>4. CASE w = p /\ (Write(p) \/ Remove(p))
          BY <2>9, <4>4 DEF AtWork, Write, Remove, File
        <4>5. CASE w = p /\ Move(p)
          <5>1. pc'[p] \in {"error", "begin", "success"}
            BY <1>0, <4>5, MoveOwn, FileFacts
          <5> QED
            BY <4>5, <5>1 DEF AtWork
        <4> QED
          BY <4>1, <4>2, <4>3, <4>4, <4>5 DEF Step
      <3> QED
        BY <3>2, <3>3
    <2> QED
      BY <2>4, <2>7, <2>8, <2>9
  <1> QED
    BY <1>1, <1>2

LEMMA DoneStep ==
    ASSUME Placed, Placed', TempInv, DoneInv, NEW p \in Runs, Step(p) \/ Kill(p)
    PROVE  DoneInv'
  <1> SUFFICES ASSUME NEW x \in Files, ~Complete(dir[<<x, Done>>])'
               PROVE  \E w \in MadeBy(x) : ToDo(w, x)'
    BY DEF DoneInv
  <1> DEFINE t == <<x, Temp>>
             d == <<x, Done>>
  <1>0. TypeOK /\ OneName /\ t \in Names /\ d \in Names /\ t # d /\ d[1] = x
    BY NameFacts DEF Placed
  <1>1. CASE dir'[d] = dir[d]
    <2>1. ~(Open(p) /\ d = <<File(p), Temp>>)
      BY DEF Temp, Done
    <2>2. ~Complete(dir[d])
      BY <1>0, <1>1, <2>1, CompleteKept
    <2>3. PICK w \in MadeBy(x) : ToDo(w, x)
      BY <2>2 DEF DoneInv
    <2>4. ASSUME Move(p), File(p) = x, dir[t] # NoFile, w = p
          PROVE  ToDo(w, x)'
      <3>1. dir'[d] = dir[t] \/ (job' = job /\ pc'[p] = "error")
        BY <2>4, MoveOwn
      <3>2. dir'[d] # dir[t]
        BY <1>0, <1>1, <2>4 DEF OneName
      <3> QED
        BY <2>3, <2>4, <3>1, <3>2 DEF ToDo
    <2>5. w \in Runs
      BY DEF MadeBy
    <2> QED
      BY <2>3, <2>4, <2>5, ToDoKept
  <1>2. CASE dir'[d] # dir[d]
    <2>1. File(p) = x
      BY <1>0, <1>2, OtherFile
    <2>2. Remove(p) \/ Move(p)
      BY <1>2, <2>1, BeginOwn, OpenOwn, WriteOwn, KillOwn DEF Step
    <2>3. p \in MadeBy(x)
      BY <1>0, <2>1, FileFacts
    <2>4. CASE Remove(p)
      <3>1. pc[p] = "remove"
        BY <2>4 DEF Remove
      <3>2. ToDo(p, x)
        BY <1>0, <2>1, <3>1, OwnToDo
      <3>3. ToDo(p, x)'
        BY <3>1, <3>2, ToDoKept DEF Move
      <3> QED
        BY <2>3, <3>3
    <2>5. CASE Move(p)
      <3>1. data' = data /\ dir'[d] = dir[t] /\ dir[t] # NoFile /\ pc[p] = "move"
        BY <1>2, <2>1, <2>5, MoveOwn
      <3>2. ~Complete(dir[t])
        BY <3>1 DEF Complete
      <3>3. PICK w \in MadeBy(x) : WritesTemp(w, x) \/ (ToDo(w, x) /\ ~AtWork(w, x))
        BY <3>1, <3>2 DEF TempInv
      <3>4. w # p /\ w \in Runs
        BY <2>1, <3>1, <3>3 DEF WritesTemp, AtWork, MadeBy
      <3>5. ToDo(w, x)
        <4>1. CASE WritesTemp(w, x)
          <5>1. pc[w] # "success" /\ File(w) = x
            BY <4>1 DEF WritesTemp
          <5> QED
            BY <1>0, <3>4, <5>1, OwnToDo
        <4> QED
          BY <3>3, <4>1
      <3>6. ToDo(w, x)'
        BY <3>4, <3>5, ToDoKept
      <3> QED
        BY <3>6
    <2> QED
      BY <2>2, <2>4, <2>5
  <1> QED
    BY <1>1, <1>2

SharedInv == Placed /\ TempInv /\ DoneInv

LEMMA InitShared == Init => SharedInv
  <1> SUFFICES ASSUME Init PROVE SharedInv
    OBVIOUS
  <1>1. Placed
    BY InitPlaced
  <1>2. ASSUME NEW x \in Files
        PROVE  dir[<<x, Temp>>] = NoFile
    <2>1. <<x, Temp>> \in Names /\ <<x, Temp>>[2] # Done
      BY NameFacts DEF Temp, Done
    <2> QED
      BY <2>1 DEF Init
  <1>3. ASSUME NEW x \in Files
        PROVE  \E w \in MadeBy(x) : ToDo(w, x)
    <2>1. PICK w \in Runs : \E j \in DOMAIN Work[w] : Work[w][j] = x
      BY DEF Files
    <2>10. PICK j \in DOMAIN Work[w] : Work[w][j] = x
      BY <2>1
    <2>2. j >= 1
      BY <2>1, WorkFacts, SMT
    <2>3. ToDo(w, x)
      BY <2>10, <2>2 DEF ToDo, Init
    <2> QED
      BY <2>10, <2>3 DEF MadeBy
  <1> QED
    BY <1>1, <1>2, <1>3 DEF SharedInv, TempInv, DoneInv

LEMMA NextShared == SharedInv /\ [Next]_fvars => SharedInv'
  <1> SUFFICES ASSUME SharedInv, [Next]_fvars PROVE SharedInv'
    OBVIOUS
  <1>0. Placed'
    BY NextPlaced DEF SharedInv
  <1>1. ASSUME NEW p \in Runs, Step(p) \/ Kill(p)
        PROVE  SharedInv'
    BY <1>0, <1>1, TempStep, DoneStep DEF SharedInv
  <1>2. CASE UNCHANGED fvars
    BY <1>0, <1>2 DEF fvars, SharedInv, TempInv, DoneInv, WritesTemp, ToDo, AtWork, Complete, File
  <1> QED
    BY <1>1, <1>2 DEF Next

\* However many runs generate a file at the same time and are killed on the
\* way: when all of them have reported success, the file is complete.
THEOREM SuccessIsComplete == Spec => []SuccessMeansComplete
  <1>1. SharedInv => SuccessMeansComplete
    BY DEF SharedInv, DoneInv, SuccessMeansComplete, ToDo
  <1> QED
    BY InitShared, NextShared, <1>1, PTL DEF Spec

-----------------------------------------------------------------------------
(* A file that one run generates.                                          *)

Sole(x) == \A v, w \in MadeBy(x) : v = w

\* Nobody else touches the temporary file of the run that generates x.
SoleInv ==
    \A x \in Files, p \in Runs : Sole(x) /\ File(p) = x =>
        /\ pc[p] = "write" => WritesTemp(p, x)
        /\ pc[p] \in {"remove", "move"} => Complete(dir[<<x, Temp>>])

MockInv ==
    \A x \in Files \ Skeletons :
        Sole(x) /\ dir[<<x, Done>>] # NoFile => Complete(dir[<<x, Done>>])

\* The user's code is in the file of this name.
UserIn(n) == dir[n] # NoFile /\ data[dir[n]].user

\* While the run p, which is not killed, generates the skeleton x the user's
\* code is first in the old file, then read, then in the new one as well, and
\* only then is the old file removed.
UserInv ==
    \A x \in Skeletons : \A p \in MadeBy(x) : Sole(x) /\ p \notin Fragile =>
        /\ ~(File(p) = x /\ pc[p] \in {"remove", "move"}) => UserIn(<<x, Done>>)
        /\ File(p) = x /\ pc[p] \in {"open", "write"} => existing[p]
        /\ File(p) = x /\ pc[p] = "write" /\ piece[p] > 0 => UserIn(<<x, Temp>>)
        /\ File(p) = x /\ pc[p] \in {"remove", "move"} => UserIn(<<x, Temp>>)

LEMMA SoleStep ==
    ASSUME Placed, Placed', SoleInv, NEW p \in Runs, Step(p) \/ Kill(p)
    PROVE  SoleInv'
  <1> SUFFICES ASSUME NEW x \in Files, NEW q \in Runs, Sole(x), File(q)' = x
               PROVE  /\ pc'[q] = "write" => WritesTemp(q, x)'
                      /\ pc'[q] \in {"remove", "move"} => Complete(dir[<<x, Temp>>])'
    BY DEF SoleInv, Sole, MadeBy
  <1> DEFINE t == <<x, Temp>>
  <1>0. TypeOK /\ t \in Names /\ t[1] = x /\ p \in MadeBy(File(p)) /\ q \in MadeBy(File(q))
    BY NameFacts, FileFacts DEF Placed
  <1>1. CASE q # p
    <2>1. /\ pc'[q] = pc[q] /\ handle'[q] = handle[q] /\ piece'[q] = piece[q] /\ File(q) = x
      BY <1>0, <1>1, Others
    <2>2. File(p) # x
      BY <1>0, <1>1, <2>1 DEF Sole
    <2>3. dir'[t] = dir[t] /\ (dir[t] # NoFile => data'[dir[t]] = data[dir[t]])
      BY <1>0, <2>2, OtherFile
    <2>4. pc[q] = "write" => handle[q] # NoFile
      BY DEF Placed, HandleInv
    <2> QED
      BY <2>1, <2>3, <2>4 DEF SoleInv, WritesTemp, Complete
  <1>2. CASE q = p /\ File(p) = x
    <2>1. CASE Begin(p) \/ Kill(p)
      BY <1>2, <2>1, BeginOwn, KillOwn
    <2>2. CASE Open(p)
      <3>1. /\ handle'[p] = dir'[t] /\ piece'[p] = 0 /\ pc'[p] = "write"
        BY <1>2, <2>2, OpenOwn
      <3>2. 1 .. 0 = {}
        BY SMT
      <3> QED
        BY <1>2, <3>1, <3>2 DEF WritesTemp
    <2>3. CASE Write(p)
      <3>1. /\ piece[p] \in Nat /\ piece'[p] = piece[p] + 1 /\ dir' = dir
            /\ pc[p] = "write" /\ handle[p] \in Inodes
            /\ data'[handle[p]].parts = data[handle[p]].parts \cup {piece[p] + 1}
            /\ \/ piece[p] + 1 = Parts /\ pc'[p] = "remove"
               \/ pc'[p] = "write" /\ handle'[p] = handle[p]
        BY <2>3, WriteOwn
      <3>2. handle[p] = dir[t] /\ 1 .. piece[p] \subseteq data[dir[t]].parts
        BY <1>2, <3>1 DEF SoleInv, WritesTemp
      <3>3. 1 .. piece[p] + 1 = (1 .. piece[p]) \cup {piece[p] + 1}
        BY <3>1, SMT
      <3>4. 1 .. piece[p] + 1 \subseteq data'[dir[t]].parts
        BY <3>1, <3>2, <3>3
      <3>5. dir'[t] # NoFile /\ data'[dir'[t]].parts \subseteq 1 .. Parts
        BY <3>1, <3>2, InodeFacts DEF Placed, TypeOK, Contents
      <3> QED
        BY <1>2, <3>1, <3>2, <3>4, <3>5 DEF WritesTemp, Complete
    <2>4. CASE Remove(p)
      <3>1. data' = data /\ dir'[t] = dir[t] /\ pc[p] = "remove" /\ pc'[p] = "move"
        BY <1>2, <2>4, RemoveOwn
      <3> QED
        BY <1>2, <3>1 DEF SoleInv, Complete
    <2>5. CASE Move(p)
      <3>1. pc'[p] \in {"error", "begin", "success"}
        BY <1>2, <2>5, MoveOwn
      <3> QED
        BY <1>2, <3>1
    <2> QED
      BY <2>1, <2>2, <2>3, <2>4, <2>5 DEF Step
  <1>3. CASE q = p /\ File(p) # x
    <2>1. job' # job
      BY <1>3 DEF File
    <2>2. Move(p) \/ Kill(p)
      BY <2>1 DEF Step, Begin, Open, Write, Remove
    <2>3. pc'[p] \in {"error", "begin", "success"}
      BY <1>0, <2>2, MoveOwn, KillOwn, FileFacts
    <2> QED
      BY <1>3, <2>3
  <1> QED
    BY <1>1, <1>2, <1>3

LEMMA MockStep ==
    ASSUME Placed, Placed', SoleInv, MockInv, NEW p \in Runs, Step(p) \/ Kill(p)
    PROVE  MockInv'
  <1> SUFFICES ASSUME NEW x \in Files \ Skeletons, Sole(x), dir'[<<x, Done>>] # NoFile
               PROVE  Complete(dir[<<x, Done>>])'
    BY DEF MockInv, Sole, MadeBy
  <1> DEFINE d == <<x, Done>>
  <1>0. d \in Names /\ d[1] = x /\ ~(Open(p) /\ d = <<File(p), Temp>>)
    BY NameFacts DEF Temp, Done
  <1>1. CASE dir'[d] = dir[d]
    <2>1. Complete(dir[d])
      BY <1>1 DEF MockInv
    <2> QED
      BY <1>0, <1>1, <2>1, CompleteKept
  <1>2. CASE dir'[d] # dir[d]
    <2>1. File(p) = x
      BY <1>0, <1>2, OtherFile
    <2>2. Move(p)
      BY <1>2, <2>1, BeginOwn, OpenOwn, WriteOwn, RemoveOwn, KillOwn DEF Step
    <2>3. data' = data /\ pc[p] = "move" /\ dir'[d] = dir[<<x, Temp>>]
      BY <1>2, <2>1, <2>2, MoveOwn
    <2>4. Complete(dir[<<x, Temp>>])
      BY <2>1, <2>3 DEF SoleInv
    <2> QED
      BY <2>3, <2>4 DEF Complete
  <1> QED
    BY <1>1, <1>2

LEMMA UserStep ==
    ASSUME Placed, Placed', SoleInv, UserInv, NEW p \in Runs, Step(p) \/ Kill(p)
    PROVE  UserInv'
  <1> SUFFICES ASSUME NEW x \in Skeletons, NEW q \in MadeBy(x), Sole(x), q \notin Fragile
               PROVE  /\ ~(File(q)' = x /\ pc'[q] \in {"remove", "move"}) => UserIn(<<x, Done>>)'
                      /\ File(q)' = x /\ pc'[q] \in {"open", "write"} => existing'[q]
                      /\ File(q)' = x /\ pc'[q] = "write" /\ piece'[q] > 0 =>
                            UserIn(<<x, Temp>>)'
                      /\ File(q)' = x /\ pc'[q] \in {"remove", "move"} => UserIn(<<x, Temp>>)'
    BY DEF UserInv, Sole, MadeBy
  <1> DEFINE t == <<x, Temp>>
             d == <<x, Done>>
  <1>0. /\ TypeOK /\ OneName /\ t \in Names /\ d \in Names /\ t[1] = x /\ d[1] = x
        /\ t # d /\ x \in Files /\ q \in Runs
        /\ p \in MadeBy(File(p))
    BY NameFacts, FileFacts, FileAssumption DEF Placed, MadeBy
  <1>1. /\ ~(File(q) = x /\ pc[q] \in {"remove", "move"}) => UserIn(d)
        /\ File(q) = x /\ pc[q] \in {"open", "write"} => existing[q]
        /\ File(q) = x /\ pc[q] = "write" /\ piece[q] > 0 => UserIn(t)
        /\ File(q) = x /\ pc[q] \in {"remove", "move"} => UserIn(t)
    BY DEF UserInv
  <1>2. CASE File(p) # x
    <2>1. /\ dir'[t] = dir[t] /\ (dir[t] # NoFile => data'[dir[t]] = data[dir[t]])
          /\ dir'[d] = dir[d] /\ (dir[d] # NoFile => data'[dir[d]] = data[dir[d]])
      BY <1>0, <1>2, OtherFile
    <2>2. (UserIn(t) => UserIn(t)') /\ (UserIn(d) => UserIn(d)')
      BY <2>1 DEF UserIn
    <2>3. CASE q # p
      <3>1. /\ pc'[q] = pc[q] /\ piece'[q] = piece[q] /\ existing'[q] = existing[q]
            /\ File(q)' = File(q)
        BY <1>0, <2>3, Others
      <3> QED
        BY <1>1, <2>2, <3>1
    <2>4. CASE q = p
      <3>1. File(p)' = File(p) \/ pc'[p] \in {"error", "begin", "success"}
        <4>1. CASE Move(p) \/ Kill(p)
          BY <1>0, <4>1, MoveOwn, KillOwn, FileFacts
        <4>2. CASE Begin(p) \/ Open(p) \/ Write(p) \/ Remove(p)
          BY <4>2 DEF Begin, Open, Write, Remove, File
        <4> QED
          BY <4>1, <4>2 DEF Step
      <3> QED
        BY <1>1, <1>2, <2>2, <2>4, <3>1
    <2> QED
      BY <2>3, <2>4
  <1>3. CASE File(p) = x
    <2>0. p = q
      BY <1>0, <1>3 DEF Sole
    <2>1. CASE Begin(p)
      <3>1. /\ dir' = dir /\ data' = data /\ pc'[p] = "open" /\ pc[p] = "begin"
            /\ existing'[p] = (/\ File(p) \in Skeletons /\ dir[<<File(p), Done>>] # NoFile
                               /\ data[dir[<<File(p), Done>>]].user)
        BY <2>1, BeginOwn DEF Begin
      <3>2. UserIn(d)
        BY <1>1, <2>0, <3>1
      <3> QED
        BY <1>3, <2>0, <3>1, <3>2 DEF UserIn
    <2>2. CASE Open(p)
      <3>1. /\ piece'[p] = 0 /\ pc'[p] = "write" /\ pc[p] = "open" /\ existing' = existing
            /\ dir'[d] = dir[d] /\ (dir[d] # NoFile => data'[dir[d]] = data[dir[d]])
        BY <1>0, <1>3, <2>2, OpenOwn DEF Open
      <3>2. UserIn(d) /\ existing[p]
        BY <1>1, <1>3, <2>0, <3>1
      <3>3. UserIn(d)'
        BY <3>1, <3>2 DEF UserIn
      <3>4. ~(0 > 0)
        BY SMT
      <3> QED
        BY <2>0, <3>1, <3>2, <3>3, <3>4
    <2>3. CASE Write(p)
      <3>1. /\ dir' = dir /\ pc[p] = "write" /\ handle[p] \in Inodes
            /\ piece[p] \in Nat
            /\ \A i \in Inodes : i # handle[p] => data'[i] = data[i]
            /\ data'[handle[p]].user =
                  (IF piece[p] = 0 THEN existing[p] ELSE data[handle[p]].user)
            /\ existing' = existing
            /\ pc'[p] \in {"remove", "write"}
        BY <2>3, WriteOwn DEF Write
      <3>2. handle[p] = dir[t]
        BY <1>0, <1>3, <3>1 DEF SoleInv, WritesTemp
      <3>3. UserIn(d) /\ existing[p] /\ (piece[p] > 0 => UserIn(t))
        BY <1>1, <1>3, <2>0, <3>1
      <3>4. piece[p] # 0 => piece[p] > 0
        BY <3>1, SMT
      <3>5. UserIn(t)'
        BY <3>1, <3>2, <3>3, <3>4, InodeFacts DEF UserIn
      <3>6. UserIn(d)'
        <4>1. dir[d] # NoFile /\ dir[d] \in Inodes
          BY <1>0, <3>3 DEF UserIn, TypeOK
        <4>2. dir[d] # dir[t]
          BY <1>0, <4>1 DEF OneName
        <4> QED
          BY <3>1, <3>2, <3>3, <4>1, <4>2 DEF UserIn
      <3> QED
        BY <2>0, <3>1, <3>3, <3>5, <3>6
    <2>4. CASE Remove(p)
      <3>1. data' = data /\ dir'[t] = dir[t] /\ pc[p] = "remove" /\ pc'[p] = "move" /\ job' = job
        BY <1>0, <1>3, <2>4, RemoveOwn
      <3>2. UserIn(t)
        BY <1>1, <1>3, <2>0, <3>1
      <3>3. UserIn(t)' /\ File(p)' = x
        BY <1>3, <3>1, <3>2 DEF UserIn, File
      <3> QED
        BY <2>0, <3>1, <3>3
    <2>5. CASE Move(p)
      <3>1. pc[p] = "move" /\ data' = data
        BY <2>5 DEF Move
      <3>2. UserIn(t)
        BY <1>1, <1>3, <2>0, <3>1
      <3>3. dir'[d] = dir[t] /\ pc'[p] \in {"begin", "success"}
        <4>1. dir[t] # NoFile
          BY <3>2 DEF UserIn
        <4>2. /\ dir' = [dir EXCEPT ![d] = dir[t], ![t] = NoFile]
              /\ \/ pc' = [pc EXCEPT ![p] = "begin"]
                 \/ pc' = [pc EXCEPT ![p] = "success"]
          BY <1>3, <2>5, <4>1 DEF Move
        <4> QED
          BY <1>0, <4>2 DEF TypeOK
      <3>4. UserIn(d)'
        BY <3>1, <3>2, <3>3 DEF UserIn
      <3> QED
        BY <2>0, <3>3, <3>4
    <2>6. CASE Kill(p)
      BY <2>0, <2>6, KillOwn
    <2> QED
      BY <2>1, <2>2, <2>3, <2>4, <2>5, <2>6 DEF Step
  <1> QED
    BY <1>2, <1>3

OwnInv == Placed /\ SoleInv /\ MockInv /\ UserInv

LEMMA InitOwn == Init => OwnInv
  <1> SUFFICES ASSUME Init PROVE OwnInv
    OBVIOUS
  <1>1. PICK old \in [Skeletons -> Inodes] :
          /\ dir = [n \in Names |->
                      IF n[1] \in Skeletons /\ n[2] = Done THEN old[n[1]] ELSE NoFile]
          /\ data = [i \in Inodes |->
                       IF \E a \in Skeletons : old[a] = i
                       THEN [parts |-> {}, user |-> TRUE] ELSE Empty]
    BY DEF Init
  <1>2. \A p \in Runs : pc[p] = "begin"
    BY DEF Init
  <1>3. ASSUME NEW x \in Files
        PROVE  <<x, Done>> \in Names /\ <<x, Done>>[1] = x /\ <<x, Done>>[2] = Done
    BY NameFacts
  <1>4. MockInv
    BY <1>1, <1>3 DEF MockInv
  <1>5. ASSUME NEW x \in Skeletons
        PROVE  UserIn(<<x, Done>>)
    <2>1. dir[<<x, Done>>] = old[x] /\ old[x] \in Inodes
      BY <1>1, <1>3, FileAssumption
    <2>2. data[old[x]].user
      BY <1>1, <2>1
    <2> QED
      BY <2>1, <2>2, InodeFacts DEF UserIn
  <1>6. UserInv
    BY <1>2, <1>5 DEF UserInv, MadeBy
  <1> QED
    BY <1>2, <1>4, <1>6, InitPlaced DEF OwnInv, SoleInv

LEMMA NextOwn == OwnInv /\ [Next]_fvars => OwnInv'
  <1> SUFFICES ASSUME OwnInv, [Next]_fvars PROVE OwnInv'
    OBVIOUS
  <1>0. Placed'
    BY NextPlaced DEF OwnInv
  <1>1. ASSUME NEW p \in Runs, Step(p) \/ Kill(p)
        PROVE  OwnInv'
    BY <1>0, <1>1, SoleStep, MockStep, UserStep DEF OwnInv
  <1>2. CASE UNCHANGED fvars
    BY <1>0, <1>2 DEF fvars, OwnInv, SoleInv, MockInv, UserInv, UserIn, WritesTemp, Complete, File
  <1> QED
    BY <1>1, <1>2 DEF Next

LEMMA NotShared == ASSUME NEW x \in Files, x \notin Shared PROVE Sole(x)
  <1>1. IsFiniteSet(MadeBy(x))
    BY FileAssumption, FS_Subset DEF MadeBy
  <1>2. Cardinality(MadeBy(x)) \in Nat /\ ~(Cardinality(MadeBy(x)) > 1)
    BY <1>1, FS_CardinalityType DEF Shared
  <1> SUFFICES ASSUME NEW v \in MadeBy(x), NEW w \in MadeBy(x), v # w PROVE FALSE
    BY DEF Sole
  <1>3. IsFiniteSet(MadeBy(x) \ {v}) /\ Cardinality(MadeBy(x) \ {v}) = Cardinality(MadeBy(x)) - 1
    BY <1>1, FS_RemoveElement
  <1>4. Cardinality(MadeBy(x) \ {v}) \in Nat
    BY <1>3, FS_CardinalityType
  <1>5. Cardinality(MadeBy(x) \ {v}) = 0
    BY <1>2, <1>3, <1>4, SMT
  <1> QED
    BY <1>3, <1>5, FS_EmptySet

\* A mock that one run generates is never there half written, wherever runs are
\* killed.
THEOREM WholeOrAbsent == Spec => []NeverHalfWritten
  <1>1. OwnInv => NeverHalfWritten
    BY NotShared DEF OwnInv, MockInv, NeverHalfWritten
  <1> QED
    BY InitOwn, NextOwn, <1>1, PTL DEF Spec

\* A skeleton that one run updates, which is not killed, always has the user's
\* code under one of its two names.
THEOREM UserCodeKept == Spec => []KeepsUserCode
  <1>1. OwnInv => KeepsUserCode
    <2> SUFFICES ASSUME OwnInv, NEW x \in Skeletons \ Shared, MadeBy(x) \cap Fragile = {}
                 PROVE  UserIn(<<x, Done>>) \/ UserIn(<<x, Temp>>)
      BY DEF KeepsUserCode, UserIn
    <2>1. x \in Files
      BY FileAssumption
    <2>2. PICK p \in MadeBy(x) : TRUE
      BY <2>1 DEF Files, MadeBy
    <2> QED
      BY <2>1, <2>2, NotShared DEF OwnInv, UserInv
  <1> QED
    BY InitOwn, NextOwn, <1>1, PTL DEF Spec
=============================================================================
