----------------------------- MODULE CppScopes -----------------------------
(***************************************************************************)
(* parse_cpp_functions (lib/cmock_header_parser.rb): which static          *)
(* functions of a C++ header are mocked, and under which namespaces and    *)
(* class.  The text is what import_source leaves of the header, without    *)
(* comments, function bodies and extern "C" {, whose brace it leaves; one  *)
(* brace, label or declaration is a step.  The code sees it cut at         *)
(* semicolons, and of each piece first the braces, then the labels.        *)
(*                                                                         *)
(* History variables: scopes, what C++ knows of the place; begun, a scope  *)
(* was opened; exotic, the header has something the parser does not        *)
(* handle; wanted, what should become of the last declaration.             *)
(***************************************************************************)
EXTENDS Naturals, FiniteSets, Sequences, SequencesExt

CONSTANT MaxScopes      \* bound: scopes inside scopes

VARIABLES
    ns,         \* what the open braces were taken for
    pub,
    labels,     \* of the piece that is being read
    found,      \* what became of the last declaration
    scopes, begun, exotic, wanted

csVars == <<ns, pub, labels, found, scopes, begun, exotic, wanted>>

\* base: a class with a base class.  linkage: extern "C".
Kinds == {"namespace", "class", "base", "anonymous", "linkage"}
IsClass(kind) == kind \in {"class", "base"}

Nothing == [what |-> "nothing", where |-> <<>>]
Mocked(where) == [what |-> "mocked", where |-> where]
Failure == [what |-> "failure", where |-> <<>>]

Init ==
    /\ ns = <<>> /\ pub = FALSE /\ labels = {}
    /\ found = Nothing
    /\ scopes = <<>> /\ begun = FALSE /\ exotic = FALSE /\ wanted = Nothing

\* The elements of s at some of its places, in order.
Picked(s, places) ==
    [i \in 1 .. Cardinality(places) |->
        s[CHOOSE k \in places : Cardinality({j \in places : j <= k}) = i]]

\* The next header.
Anew ==
    /\ found.what # "failure"
    /\ ns' = <<>> /\ pub' = FALSE /\ labels' = {}
    /\ found' = Nothing
    /\ scopes' = <<>> /\ begun' = FALSE /\ exotic' = FALSE /\ wanted' = Nothing

Inner == scopes # <<>>
InClass == Inner /\ IsClass(Last(scopes).kind)
Flag == "private" \notin labels /\ ("public" \in labels \/ pub)
Forget == found' = Nothing /\ wanted' = Nothing

CanOpen(kind) ==
    /\ found.what # "failure" /\ Len(scopes) < MaxScopes
    /\ InClass => IsClass(kind)

\* open: what comes next is for others; late: a class in it has ended private.
Opened(kind) ==
    /\ scopes' = Append(scopes, [kind |-> kind, open |-> kind \in {"namespace", "linkage"},
                                 late |-> FALSE])
    /\ begun' = TRUE
    /\ exotic' = (exotic \/ kind \in {"anonymous", "base"} \/ InClass
                         \/ (kind = "linkage" /\ Inner))
    /\ Forget

\* Mutant: a class begins like a namespace.
OpenPublic(kind) ==
    /\ CanOpen(kind)
    /\ ns' = CASE kind \in {"namespace", "class"} -> Append(ns, kind)
               [] kind = "linkage" -> ns
               [] OTHER -> Append(ns, "{")
    /\ pub' = (kind \in {"namespace", "class"} \/ pub)
    /\ Opened(kind)
    /\ UNCHANGED labels

\* Of a namespace or class the parser sees the name if the brace follows it.
Open(kind) ==
    /\ CanOpen(kind)
    /\ ns' = CASE kind \in {"namespace", "class"} -> Append(ns, kind)
               [] kind = "linkage" -> ns
               [] OTHER -> Append(ns, "{")
    /\ pub' = (kind = "namespace" \/ (kind # "class" /\ pub))
    /\ Opened(kind)
    /\ UNCHANGED labels

\* A class ends with a semicolon, too.  Popping nothing is harmless.
Close ==
    /\ found.what # "failure" /\ Inner
    /\ ns' = IF ns = <<>> THEN ns ELSE Front(ns)
    /\ scopes' = LET ended == InClass /\ ~Last(scopes).open IN
                 [k \in 1 .. Len(scopes) - 1 |-> [scopes[k] EXCEPT !.late = @ \/ ended]]
    /\ IF InClass
       THEN pub' = Flag /\ labels' = {}
       ELSE UNCHANGED <<pub, labels>>
    /\ Forget
    /\ UNCHANGED <<begun, exotic>>

Label(label) ==
    /\ found.what # "failure" /\ InClass
    /\ labels' = labels \cup {label}
    /\ scopes' = [scopes EXCEPT ![Len(scopes)].open = (label = "public")]
    /\ exotic' = (exotic \/ (label = "public" /\ "private" \in labels))
    /\ Forget
    /\ UNCHANGED <<ns, pub, begun>>

\* What C++ says: a member of a class that is not public is not for others,
\* and functions outside of all scopes are left to parse_functions.
Named == Picked(scopes, {k \in DOMAIN scopes : scopes[k].kind # "linkage"})
Wanted ==
    IF Named # <<>> /\ \A k \in DOMAIN scopes : scopes[k].open
    THEN Mocked([k \in DOMAIN Named |-> Named[k].kind]) ELSE Nothing

\* Two more things the parser does not handle: a function of a namespace after
\* a class that has ended private, and one outside of all scopes after a scope.
Late == Named # <<>> /\ Last(Named).late
Free == Named = <<>> /\ begun

\* The innermost scope is asked whether it is a class even if there is none.
Function ==
    /\ found.what # "failure"
    /\ pub' = Flag /\ labels' = {}
    /\ LET tmp == Picked(ns, {k \in DOMAIN ns : ns[k] # "{"}) IN
       found' = IF ~Flag THEN Nothing ELSE IF tmp = <<>> THEN Failure ELSE Mocked(tmp)
    /\ wanted' = Wanted
    /\ exotic' = (exotic \/ Late \/ Free)
    /\ UNCHANGED <<ns, scopes, begun>>

Other ==
    /\ found.what # "failure"
    /\ pub' = Flag /\ labels' = {}
    /\ Forget
    /\ UNCHANGED <<ns, scopes, begun, exotic>>

Next ==
    \/ \E kind \in Kinds : Open(kind)
    \/ Close
    \/ \E label \in {"public", "private"} : Label(label)
    \/ Function
    \/ Other

Spec == Init /\ [][Next]_csVars

-----------------------------------------------------------------------------
(* Properties.                                                             *)

\* Unless the header has something that the parser does not handle, a static
\* function is mocked if and only if it is public in a namespace or class, and
\* it is mocked under the scopes it is in.
FunctionsInScope == exotic \/ found = wanted
=============================================================================
