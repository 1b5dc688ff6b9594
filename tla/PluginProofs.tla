---------------------------- MODULE PluginProofs ----------------------------
(***************************************************************************)
(* Proof about PluginLoading: for any threads and plugins, as long as only *)
(* one mutex has been made no thread meets a class without its methods.    *)
(* Several mutexes break the argument at one place, the QED of OneLoader.  *)
(***************************************************************************)
EXTENDS PluginLoading, FiniteSetTheorems, TLAPS

States == {"mutex", "make", "lock", "defined?", "require", "loading", "new", "sort",
           "done", "error"}
Critical == {"defined?", "require", "loading", "new"}

TypeInv ==
    /\ mutex \in Mutexes \cup {None}
    /\ holder \in [Mutexes -> Threads \cup {None}]
    /\ class \in [Plugins -> {"undefined", "begun", "defined"}]
    /\ pc \in [Threads -> States]
    /\ own \in [Threads -> Mutexes \cup {None}]
    /\ next \in [Threads -> Nat]

\* A thread that has work left stands at one of the plugins.
AtPlugin ==
    \A t \in Threads :
        pc[t] \in Critical \cup {"mutex", "make", "lock"} => next[t] \in 1 .. Len(Configured)

\* Every mutex in use was made; a finite number of them were.
MadeInv ==
    /\ IsFiniteSet(made)
    /\ mutex \in made \cup {None}
    /\ \A t \in Threads : pc[t] \in Critical \cup {"lock"} => own[t] \in made \cap Mutexes

\* A thread between lock and unlock holds its mutex.
HoldsOwn == \A t \in Threads : pc[t] \in Critical => holder[own[t]] = t

\* A class is without methods only while a thread is loading it.
BegunIsLoading ==
    \A p \in Plugins :
        class[p] = "begun" => \E t \in Threads : pc[t] = "loading" /\ Plugin(t) = p

PInv ==
    TypeInv /\ AtPlugin /\ MadeInv /\ HoldsOwn /\ BegunIsLoading /\ NeverHalfLoaded

-----------------------------------------------------------------------------
LEMMA ConfiguredFacts ==
    /\ Len(Configured) \in Nat \ {0}
    /\ \A i \in 1 .. Len(Configured) : Configured[i] \in Plugins
  <1>1. Configured \in Seq(Plugins) /\ Configured # <<>>
    BY PluginsAssumption
  <1> QED
    BY <1>1, SMT

LEMMA AtMostOne ==
    ASSUME NEW S, IsFiniteSet(S), Cardinality(S) <= 1, NEW a \in S, NEW b \in S
    PROVE  a = b
  <1> SUFFICES ASSUME a # b PROVE FALSE
    OBVIOUS
  <1>1. IsFiniteSet(S \ {a}) /\ Cardinality(S \ {a}) = Cardinality(S) - 1
    BY FS_RemoveElement
  <1>2. Cardinality(S) \in Nat /\ Cardinality(S \ {a}) \in Nat
    BY <1>1, FS_CardinalityType
  <1>3. Cardinality(S \ {a}) = 0
    BY <1>1, <1>2, SMT
  <1>4. S \ {a} = {}
    BY <1>1, <1>3, FS_EmptySet
  <1> QED
    BY <1>4

\* With one mutex, the thread that is loading a class is the only one that is
\* between lock and unlock.
LEMMA OneLoader ==
    ASSUME PInv, Cardinality(made) <= 1,
           NEW t \in Threads, NEW u \in Threads, pc[t] \in Critical, pc[u] \in Critical
    PROVE  t = u
  <1>1. own[t] \in made /\ own[u] \in made /\ IsFiniteSet(made)
    BY DEF PInv, MadeInv
  <1>2. holder[own[t]] = t /\ holder[own[u]] = u
    BY DEF PInv, HoldsOwn
  <1> QED
    BY <1>1, <1>2, AtMostOne

LEMMA InitPInv == Init => PInv
  <1> SUFFICES ASSUME Init PROVE PInv
    OBVIOUS
  <1>1. TypeInv
    BY DEF Init, TypeInv, States, Mutexes
  <1>2. AtPlugin
    BY ConfiguredFacts DEF Init, AtPlugin
  <1>3. MadeInv
    <2>1. made = {} \/ made = {Before}
      BY DEF Init
    <2>2. IsFiniteSet({}) /\ IsFiniteSet({Before})
      BY FS_EmptySet, FS_Singleton
    <2> QED
      BY <2>1, <2>2 DEF Init, MadeInv, Critical
  <1>4. HoldsOwn /\ BegunIsLoading /\ NeverHalfLoaded
    BY DEF Init, HoldsOwn, BegunIsLoading, NeverHalfLoaded, Critical
  <1> QED
    BY <1>1, <1>2, <1>3, <1>4 DEF PInv

LEMMA TypeStep == ASSUME PInv, NEW t \in Threads, Step(t) PROVE TypeInv'
  <1> USE DEF PInv, TypeInv
  <1>1. CASE ReadMutex(t)
    BY <1>1 DEF ReadMutex, Goes, States
  <1>2. CASE MakeMutex(t)
    BY <1>2 DEF MakeMutex, Goes, States, Mutexes
  <1>3. CASE Lock(t)
    BY <1>3 DEF Lock, Goes, States
  <1>4. CASE IsDefined(t)
    BY <1>4 DEF IsDefined, Goes, States
  <1>5. CASE Require(t)
    BY <1>5 DEF Require, Goes, States
  <1>6. CASE Loaded(t)
    BY <1>6 DEF Loaded, Goes, States
  <1>7. CASE New(t)
    <2>1. /\ pc' \in [Threads -> States] /\ UNCHANGED <<mutex, class, own>>
          /\ holder' = [holder EXCEPT ![own[t]] = None]
          /\ next' = [next EXCEPT ![t] = @ + 1]
      BY <1>7 DEF New, Goes, States, Unlock
    <2>2. next[t] + 1 \in Nat
      BY SMT
    <2>3. next' \in [Threads -> Nat]
      BY <2>1, <2>2
    <2> QED
      BY <2>1, <2>3
  <1>8. CASE Raise(t)
    BY <1>8 DEF Raise, Goes, States, Unlock
  <1>9. CASE Sort(t)
    BY <1>9 DEF Sort, Goes, States
  <1> QED
    BY <1>1, <1>2, <1>3, <1>4, <1>5, <1>6, <1>7, <1>8, <1>9 DEF Step

LEMMA AtPluginStep == ASSUME PInv, NEW t \in Threads, Step(t) PROVE AtPlugin'
  <1>0. /\ pc \in [Threads -> States] /\ next \in [Threads -> Nat] /\ AtPlugin
        /\ Len(Configured) \in Nat \ {0}
    BY ConfiguredFacts DEF PInv, TypeInv
  <1>1. CASE next' = next
    <2>1. \A u \in Threads \ {t} : pc'[u] = pc[u]
      BY <1>0 DEF Step, ReadMutex, MakeMutex, Lock, IsDefined, Require, Loaded, New, Raise,
         Sort, Goes
    <2>2. \/ pc[t] \in Critical \cup {"mutex", "make", "lock"}
          \/ pc'[t] \in {"done", "error"}
      BY <1>0 DEF Step, ReadMutex, MakeMutex, Lock, IsDefined, Require, Loaded, New, Raise,
         Sort, Goes, Critical
    <2> QED
      BY <1>0, <1>1, <2>1, <2>2 DEF AtPlugin, Critical
  <1>2. CASE New(t)
    <2>1. pc[t] = "new" /\ next[t] \in 1 .. Len(Configured)
      BY <1>0, <1>2 DEF New, AtPlugin, Critical
    <2>2. /\ next'[t] = next[t] + 1
          /\ \A u \in Threads \ {t} : next'[u] = next[u] /\ pc'[u] = pc[u]
          /\ next[t] = Len(Configured) => pc'[t] = "sort"
      BY <1>0, <1>2 DEF New, Goes
    <2>3. next[t] # Len(Configured) => next'[t] \in 1 .. Len(Configured)
      BY <1>0, <2>1, <2>2, SMT
    <2> QED
      BY <1>0, <2>2, <2>3 DEF AtPlugin, Critical
  <1> QED
    BY <1>1, <1>2 DEF Step, ReadMutex, MakeMutex, Lock, IsDefined, Require, Loaded, Raise, Sort

LEMMA MadeStep == ASSUME PInv, NEW t \in Threads, Step(t) PROVE MadeInv'
  <1>0. /\ pc \in [Threads -> States] /\ own \in [Threads -> Mutexes \cup {None}]
        /\ mutex \in Mutexes \cup {None} /\ MadeInv
    BY DEF PInv, TypeInv
  <1>1. CASE ReadMutex(t)
    BY <1>0, <1>1 DEF ReadMutex, Goes, MadeInv, Critical
  <1>2. CASE MakeMutex(t)
    <2>1. IsFiniteSet(made')
      BY <1>2, FS_AddElement DEF MakeMutex, PInv, MadeInv
    <2>2. /\ made' = made \cup {t} /\ mutex' = t
          /\ own'[t] = t /\ t \in Mutexes /\ pc'[t] = "lock"
          /\ \A u \in Threads \ {t} : pc'[u] = pc[u] /\ own'[u] = own[u]
      BY <1>0, <1>2 DEF MakeMutex, Goes, Mutexes
    <2> QED
      BY <1>0, <2>1, <2>2 DEF MadeInv, Critical
  <1>3. CASE made' = made /\ mutex' = mutex /\ own' = own
    <2>1. \A u \in Threads \ {t} : pc'[u] = pc[u]
      BY <1>0 DEF Step, ReadMutex, MakeMutex, Lock, IsDefined, Require, Loaded, New, Raise,
         Sort, Goes
    <2>2. CASE ReadMutex(t) \/ MakeMutex(t)
      BY <1>1, <1>2, <2>2
    <2>3. CASE ~(ReadMutex(t) \/ MakeMutex(t))
      <3>1. pc'[t] \in Critical \cup {"lock"} => pc[t] \in Critical \cup {"lock"}
        BY <1>0, <2>3 DEF Step, Lock, IsDefined, Require, Loaded, New, Raise, Sort, Goes,
           Critical
      <3> QED
        BY <1>0, <1>3, <2>1, <3>1 DEF MadeInv
    <2> QED
      BY <2>2, <2>3
  <1> QED
    BY <1>1, <1>2, <1>3 DEF Step, Lock, IsDefined, Require, Loaded, New, Raise, Sort

\* Only the thread itself, which holds its mutex, can let go of it.
LEMMA HoldsStep == ASSUME PInv, NEW t \in Threads, Step(t) PROVE HoldsOwn'
  <1>0. /\ pc \in [Threads -> States] /\ own \in [Threads -> Mutexes \cup {None}]
        /\ holder \in [Mutexes -> Threads \cup {None}] /\ HoldsOwn
        /\ \A u \in Threads : pc[u] \in Critical \cup {"lock"} => own[u] \in Mutexes
    BY DEF PInv, TypeInv, MadeInv
  <1>1. \A u \in Threads \ {t} : pc'[u] = pc[u] /\ own'[u] = own[u]
    BY <1>0 DEF Step, ReadMutex, MakeMutex, Lock, IsDefined, Require, Loaded, New, Raise,
       Sort, Goes
  <1>2. CASE ReadMutex(t) \/ MakeMutex(t) \/ Sort(t)
    <2>1. pc'[t] \notin Critical /\ holder' = holder
      BY <1>0, <1>2 DEF ReadMutex, MakeMutex, Sort, Goes, Critical
    <2> QED
      BY <1>0, <1>1, <2>1 DEF HoldsOwn
  <1>3. CASE Lock(t)
    <2>1. /\ pc[t] = "lock" /\ own' = own /\ holder[own[t]] = None
          /\ holder' = [holder EXCEPT ![own[t]] = t] /\ own[t] \in Mutexes
      BY <1>0, <1>3 DEF Lock, Goes
    <2>2. ASSUME NEW u \in Threads \ {t}, pc[u] \in Critical
          PROVE  own[u] # own[t]
      BY <1>0, <2>1, <2>2, ThreadsAssumption DEF HoldsOwn
    <2> QED
      BY <1>0, <1>1, <2>1, <2>2 DEF HoldsOwn
  <1>4. CASE IsDefined(t) \/ Require(t) \/ Loaded(t)
    <2>1. pc[t] \in Critical /\ holder' = holder /\ own' = own
      BY <1>4 DEF IsDefined, Require, Loaded, Goes, Critical
    <2> QED
      BY <1>0, <1>1, <2>1 DEF HoldsOwn
  <1>5. CASE New(t) \/ Raise(t)
    <2>1. /\ pc[t] \in Critical /\ pc'[t] \notin Critical /\ own' = own
          /\ holder' = [holder EXCEPT ![own[t]] = None]
      BY <1>0, <1>5 DEF New, Raise, Goes, Unlock, Critical
    <2>2. holder[own[t]] = t
      BY <1>0, <2>1 DEF HoldsOwn
    <2>3. ASSUME NEW u \in Threads \ {t}, pc[u] \in Critical
          PROVE  own[u] # own[t]
      BY <1>0, <2>2, <2>3 DEF HoldsOwn
    <2> QED
      BY <1>0, <1>1, <2>1, <2>3 DEF HoldsOwn
  <1> QED
    BY <1>2, <1>3, <1>4, <1>5 DEF Step

LEMMA LoadingStep == ASSUME PInv, NEW t \in Threads, Step(t) PROVE BegunIsLoading'
  <1>0. /\ pc \in [Threads -> States] /\ next \in [Threads -> Nat]
        /\ class \in [Plugins -> {"undefined", "begun", "defined"}] /\ BegunIsLoading
    BY DEF PInv, TypeInv
  <1>1. CASE Loaded(t)
    <2>1. /\ class' = [class EXCEPT ![Plugin(t)] = "defined"] /\ next' = next
          /\ \A u \in Threads \ {t} : pc'[u] = pc[u]
      BY <1>0, <1>1 DEF Loaded, Goes
    <2>2. ASSUME NEW p \in Plugins, class'[p] = "begun"
          PROVE  \E u \in Threads : pc'[u] = "loading" /\ Configured[next'[u]] = p
      <3>1. class[p] = "begun" /\ p # Plugin(t)
        BY <1>0, <2>1, <2>2
      <3>2. PICK u \in Threads : pc[u] = "loading" /\ Plugin(u) = p
        BY <1>0, <3>1 DEF BegunIsLoading
      <3> QED
        BY <2>1, <3>1, <3>2 DEF Plugin
    <2> QED
      BY <2>2 DEF BegunIsLoading, Plugin
  <1>2. CASE Require(t) /\ class[Plugin(t)] = "undefined"
    <2>1. /\ class' = [class EXCEPT ![Plugin(t)] = "begun"] /\ next' = next
          /\ pc'[t] = "loading" /\ pc[t] = "require"
          /\ \A u \in Threads \ {t} : pc'[u] = pc[u]
      BY <1>0, <1>2 DEF Require, Goes
    <2>2. ASSUME NEW p \in Plugins, class'[p] = "begun"
          PROVE  \E u \in Threads : pc'[u] = "loading" /\ Configured[next'[u]] = p
      <3>1. CASE p = Plugin(t)
        BY <2>1, <3>1 DEF Plugin
      <3>2. CASE p # Plugin(t)
        <4>1. class[p] = "begun"
          BY <1>0, <2>1, <2>2, <3>2
        <4>2. PICK u \in Threads : pc[u] = "loading" /\ Plugin(u) = p
          BY <1>0, <4>1 DEF BegunIsLoading
        <4> QED
          BY <2>1, <4>2 DEF Plugin
      <3> QED
        BY <3>1, <3>2
    <2> QED
      BY <2>2 DEF BegunIsLoading, Plugin
  <1>3. CASE ~Loaded(t) /\ ~(Require(t) /\ class[Plugin(t)] = "undefined")
    <2>1. /\ class' = class /\ pc[t] # "loading"
          /\ \A u \in Threads \ {t} : pc'[u] = pc[u] /\ next'[u] = next[u]
      BY <1>0, <1>3 DEF Step, ReadMutex, MakeMutex, Lock, IsDefined, Require, New, Raise,
         Sort, Goes
    <2>2. ASSUME NEW p \in Plugins, class'[p] = "begun"
          PROVE  \E u \in Threads : pc'[u] = "loading" /\ Configured[next'[u]] = p
      <3>1. PICK u \in Threads : pc[u] = "loading" /\ Plugin(u) = p
        BY <1>0, <2>1, <2>2 DEF BegunIsLoading
      <3> QED
        BY <2>1, <3>1 DEF Plugin
    <2> QED
      BY <2>2 DEF BegunIsLoading, Plugin
  <1> QED
    BY <1>1, <1>2, <1>3

LEMMA ErrorStep == ASSUME PInv, NEW t \in Threads, Step(t) PROVE NeverHalfLoaded'
  <1>0. /\ pc \in [Threads -> States] /\ NeverHalfLoaded
        /\ class \in [Plugins -> {"undefined", "begun", "defined"}]
    BY DEF PInv, TypeInv
  <1>1. CASE Raise(t)
    <2>1. made' = made /\ pc[t] = "new" /\ class[Plugin(t)] = "begun"
      BY <1>1 DEF Raise
    <2>2. Plugin(t) \in Plugins
      BY <2>1, ConfiguredFacts DEF PInv, AtPlugin, Critical, Plugin
    <2>3. PICK u \in Threads : pc[u] = "loading"
      BY <2>1, <2>2 DEF PInv, BegunIsLoading
    <2>4. ~(Cardinality(made) <= 1)
      BY <2>1, <2>3, OneLoader DEF Critical
    <2> QED
      BY <2>1, <2>4 DEF NeverHalfLoaded
  <1>2. CASE ~Raise(t)
    <2>1. \A u \in Threads : pc'[u] = "error" => pc[u] = "error"
      BY <1>0, <1>2 DEF Step, ReadMutex, MakeMutex, Lock, IsDefined, Require, Loaded, New,
         Sort, Goes
    <2>2. Cardinality(made') <= 1 => Cardinality(made) <= 1
      <3>1. made' = made \/ made' = made \cup {t}
        BY <1>2 DEF Step, ReadMutex, MakeMutex, Lock, IsDefined, Require, Loaded, New, Sort
      <3>2. IsFiniteSet(made) /\ IsFiniteSet(made \cup {t})
        BY FS_AddElement DEF PInv, MadeInv
      <3>3. Cardinality(made) \in Nat /\ Cardinality(made \cup {t}) \in Nat
        BY <3>2, FS_CardinalityType
      <3>4. Cardinality(made) <= Cardinality(made \cup {t})
        BY <3>2, FS_Subset
      <3> QED
        BY <3>1, <3>3, <3>4, SMT
    <2> QED
      BY <1>0, <2>1, <2>2 DEF NeverHalfLoaded
  <1> QED
    BY <1>1, <1>2

\* While one mutex only was made, no thread meets a class that another is still
\* loading, whatever the threads and the plugins.
THEOREM OneMutexSuffices == Spec => []NeverHalfLoaded
  <1>1. PInv /\ [Next]_plVars => PInv'
    <2> SUFFICES ASSUME PInv, [Next]_plVars PROVE PInv'
      OBVIOUS
    <2>1. ASSUME NEW t \in Threads, Step(t)
          PROVE  PInv'
      BY <2>1, TypeStep, AtPluginStep, MadeStep, HoldsStep, LoadingStep, ErrorStep DEF PInv
    <2>2. CASE UNCHANGED plVars
      BY <2>2 DEF plVars, PInv, TypeInv, AtPlugin, MadeInv, HoldsOwn, BegunIsLoading, Plugin,
         NeverHalfLoaded
    <2> QED
      BY <2>1, <2>2 DEF Next
  <1>2. PInv => NeverHalfLoaded
    BY DEF PInv
  <1> QED
    BY InitPInv, <1>1, <1>2, PTL DEF Spec
=============================================================================
