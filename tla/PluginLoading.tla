--------------------------- MODULE PluginLoading ---------------------------
(***************************************************************************)
(* CMockPluginManager#initialize (lib/cmock_plugin_manager.rb) in several  *)
(* threads of one process, as a build that generates mocks in parallel     *)
(* runs it.  A mutex guards the loading of a plugin, and is itself made by *)
(* the first that asks for it.  Ruby's part is external: requiring a file  *)
(* defines its class first and then the methods, and who requires a file   *)
(* that is being loaded waits.                                             *)
(***************************************************************************)
EXTENDS Naturals, Sequences, FiniteSets

CONSTANTS
    Threads,
    Configured,     \* the plugins, in the order of the configuration
    Priority        \* the priority of each

Plugins == {Configured[i] : i \in DOMAIN Configured}

ASSUME PluginsAssumption ==
    /\ Configured \in Seq(Plugins) /\ Configured # <<>>
    /\ Cardinality(Plugins) = Len(Configured)
    /\ Priority \in [Plugins -> Nat]

None == "none"
Before == "before"      \* made before the threads were started
ASSUME ThreadsAssumption == None \notin Threads
Mutexes == Threads \cup {Before}

VARIABLES
    mutex,      \* the mutex of the class, or None
    holder,     \* who holds a mutex, or None
    class,      \* of each plugin: "undefined", "begun" (no methods yet) or "defined"
    pc,
    own,        \* the mutex each thread has been given
    next,       \* the position of the plugin each thread loads
    plugins,    \* the plugins each thread has
    made        \* history: the mutexes that were made

plVars == <<mutex, holder, class, pc, own, next, plugins, made>>

Plugin(t) == Configured[next[t]]

Init ==
    /\ mutex \in {None, Before}
    /\ made = {mutex} \ {None}
    /\ holder = [m \in Mutexes |-> None]
    /\ class = [p \in Plugins |-> "undefined"]
    /\ pc = [t \in Threads |-> "mutex"]
    /\ own = [t \in Threads |-> None]
    /\ next = [t \in Threads |-> 1]
    /\ plugins = [t \in Threads |-> <<>>]

Goes(t, from, to) == pc[t] = from /\ pc' = [pc EXCEPT ![t] = to]

\* @mutex ||= Mutex.new reads it, and writes it later if there was none.
ReadMutex(t) ==
    /\ Goes(t, "mutex", IF mutex = None THEN "make" ELSE "lock")
    /\ own' = [own EXCEPT ![t] = mutex]
    /\ UNCHANGED <<mutex, holder, class, next, plugins, made>>

MakeMutex(t) ==
    /\ Goes(t, "make", "lock")
    /\ mutex' = t
    /\ own' = [own EXCEPT ![t] = t]
    /\ made' = made \cup {t}
    /\ UNCHANGED <<holder, class, next, plugins>>

\* Mutant: nobody waits.
LockOpen(t) ==
    /\ Goes(t, "lock", "defined?")
    /\ holder' = [holder EXCEPT ![own[t]] = t]
    /\ UNCHANGED <<mutex, class, own, next, plugins, made>>
Lock(t) ==
    /\ Goes(t, "lock", "defined?")
    /\ holder[own[t]] = None
    /\ holder' = [holder EXCEPT ![own[t]] = t]
    /\ UNCHANGED <<mutex, class, own, next, plugins, made>>

IsDefined(t) ==
    /\ Goes(t, "defined?", IF class[Plugin(t)] = "undefined" THEN "require" ELSE "new")
    /\ UNCHANGED <<mutex, holder, class, own, next, plugins, made>>

\* What is loaded already is not loaded again.
Require(t) ==
    /\ pc[t] = "require" /\ class[Plugin(t)] # "begun"
    /\ IF class[Plugin(t)] = "undefined"
       THEN Goes(t, "require", "loading") /\ class' = [class EXCEPT ![Plugin(t)] = "begun"]
       ELSE Goes(t, "require", "new") /\ UNCHANGED class
    /\ UNCHANGED <<mutex, holder, own, next, plugins, made>>

Loaded(t) ==
    /\ Goes(t, "loading", "new")
    /\ class' = [class EXCEPT ![Plugin(t)] = "defined"]
    /\ UNCHANGED <<mutex, holder, own, next, plugins, made>>

Unlock(t) == holder' = [holder EXCEPT ![own[t]] = None]

New(t) ==
    /\ pc[t] = "new" /\ class[Plugin(t)] = "defined"
    /\ Goes(t, "new", IF next[t] = Len(Configured) THEN "sort" ELSE "mutex")
    /\ plugins' = [plugins EXCEPT ![t] = Append(@, Plugin(t))]
    /\ next' = [next EXCEPT ![t] = @ + 1]
    /\ Unlock(t)
    /\ UNCHANGED <<mutex, class, own, made>>

\* Mutant: an error leaves the mutex locked.
RaiseLocked(t) ==
    /\ pc[t] = "new" /\ class[Plugin(t)] = "begun"
    /\ Goes(t, "new", "error")
    /\ UNCHANGED <<mutex, holder, class, own, next, plugins, made>>
\* A class without its methods takes no arguments: "unable to load plugin".
\* synchronize unlocks the mutex.
Raise(t) ==
    /\ pc[t] = "new" /\ class[Plugin(t)] = "begun"
    /\ Goes(t, "new", "error")
    /\ Unlock(t)
    /\ UNCHANGED <<mutex, class, own, next, plugins, made>>

InOrder(s) == \A i, j \in DOMAIN s : i < j => Priority[s[i]] <= Priority[s[j]]

\* sort! leaves the order of equal priorities open.
Sort(t) ==
    /\ Goes(t, "sort", "done")
    /\ \E s \in [DOMAIN plugins[t] -> Plugins] :
         /\ \A p \in Plugins : \E i \in DOMAIN s : s[i] = p
         /\ InOrder(s)
         /\ plugins' = [plugins EXCEPT ![t] = s]
    /\ UNCHANGED <<mutex, holder, class, own, next, made>>

Step(t) ==
    \/ ReadMutex(t) \/ MakeMutex(t) \/ Lock(t) \/ IsDefined(t) \/ Require(t) \/ Loaded(t)
    \/ New(t) \/ Raise(t) \/ Sort(t)

Next == \E t \in Threads : Step(t)

Spec == Init /\ [][Next]_plVars /\ \A t \in Threads : WF_plVars(Step(t))

-----------------------------------------------------------------------------
(* Properties.                                                             *)

\* As long as one mutex only was made (as when CMock has run once before the
\* threads were started), no thread meets a class that is still being loaded.
NeverHalfLoaded == Cardinality(made) <= 1 => \A t \in Threads : pc[t] # "error"

\* However many mutexes were made and whoever fails, every thread ends.
AllEnd == \A t \in Threads : <>(pc[t] \in {"done", "error"})
=============================================================================
