----------------------------- MODULE Dependencies -----------------------------
(* DependencyGraph: the depth-first search of topological_order(), whose    *)
(* stack of calls is the variable stack, and the jobs ready_to_run() names  *)
(* while jobs complete.  A job may depend on a name nobody configured.      *)
EXTENDS Integers, Sequences, FiniteSets, SequencesExt

CONSTANTS
    Configured,     \* the jobs configured
    Unknown         \* names that are not

Name == Configured \cup Unknown

VARIABLES
    deps,       \* _deps
    roots,      \* the names the loop over _deps has yet to visit
    stack,      \* the calls of visit(): [node, left], left being the deps to visit
    visited, order,
    search,     \* "searching", "done" or "cycle"
    completed   \* the jobs that completed

graphVars == <<deps, roots, stack, visited, order, search, completed>>

(* from_jobs()                                                              *)
Init ==
    /\ deps \in [Configured -> SUBSET Name]
    /\ roots = Configured
    /\ stack = <<>> /\ visited = {} /\ order = <<>>
    /\ search = "searching" /\ completed = {}

-----------------------------------------------------------------------------
(* self._deps.get(node, set())                                              *)
DependenciesOf(n) == IF n \in Configured THEN deps[n] ELSE {}

InStack == {stack[i].node : i \in DOMAIN stack}

(* visit(), had it taken a name on the stack for one visited.               *)
VisitOnlyOnce(n, below) ==
    IF n \in visited \cup InStack
    THEN stack' = below /\ UNCHANGED <<visited, order, search>>
    ELSE /\ stack' = Append(below, [node |-> n, left |-> DependenciesOf(n)])
         /\ UNCHANGED <<visited, order, search>>

(* visit(n), up to its loop, with the caller's frames below.                *)
Visit(n, below) ==
    CASE n \in InStack -> search' = "cycle" /\ UNCHANGED <<stack, visited, order>>
      [] n \notin InStack /\ n \in visited -> stack' = below /\ UNCHANGED <<visited, order, search>>
      [] OTHER -> /\ stack' = Append(below, [node |-> n, left |-> DependenciesOf(n)])
                  /\ UNCHANGED <<visited, order, search>>

(* The loop over _deps, and the loop of the visit on top.                   *)
VisitRoot ==
    /\ search = "searching" /\ stack = <<>>
    /\ \E n \in roots : roots' = roots \ {n} /\ Visit(n, <<>>)
    /\ UNCHANGED <<deps, completed>>

VisitDependency ==
    /\ search = "searching" /\ stack # <<>>
    /\ LET top == Last(stack) IN
       \E d \in top.left :
           Visit(d, [stack EXCEPT ![Len(stack)].left = top.left \ {d}])
    /\ UNCHANGED <<deps, roots, completed>>

(* A visit ends: its node is visited, after all it depends on.              *)
Leave ==
    /\ search = "searching" /\ stack # <<>> /\ Last(stack).left = {}
    /\ visited' = visited \cup {Last(stack).node}
    /\ order' = Append(order, Last(stack).node)
    /\ stack' = Front(stack)
    /\ UNCHANGED <<deps, roots, search, completed>>

(* Every name has been visited, and the order is returned.                  *)
EndSearch ==
    /\ search = "searching" /\ stack = <<>> /\ roots = {}
    /\ search' = "done"
    /\ UNCHANGED <<deps, roots, stack, visited, order, completed>>

(* ready_to_run(completed)                                                  *)
ReadyToRun == {n \in Configured : n \notin completed /\ deps[n] \subseteq completed}

(* A job that is ready runs, and succeeds.                                  *)
Complete ==
    /\ search # "searching"
    /\ \E n \in ReadyToRun : completed' = completed \cup {n}
    /\ UNCHANGED <<deps, roots, stack, visited, order, search>>

Next == VisitRoot \/ VisitDependency \/ Leave \/ EndSearch \/ Complete

-----------------------------------------------------------------------------
Cyclic(S) == S # {} /\ \A n \in S : deps[n] \cap S # {}

Position(n) == CHOOSE i \in DOMAIN order : order[i] = n

(* topological_order() returns every configured job and every name one of   *)
(* them depends on, once, dependencies first; and it reports a cycle only   *)
(* when there is one (job_dependencies.py:37-39).                           *)
OrderIsRight ==
    /\ search = "done" =>
           /\ ToSet(order) = Configured \cup UNION {deps[n] : n \in Configured}
           /\ IsInjective(order)
           /\ \A n \in Configured : \A d \in deps[n] : Position(d) < Position(n)
    /\ search = "cycle" => \E S \in SUBSET Configured : Cyclic(S)

(* ready_to_run() and topological_order() agree: when every name is         *)
(* configured, the first job of the order that has not completed is always  *)
(* ready, so that all get done; and jobs it never names are held back by a  *)
(* cycle or by a name nobody configured (job_dependencies.py:36-70).        *)
ReadyMakesProgress ==
    /\ search = "done" /\ ToSet(order) = Configured =>
           \A i \in DOMAIN order :
               order[i] \notin completed /\ (\A k \in 1..(i - 1) : order[k] \in completed) =>
                   order[i] \in ReadyToRun
    /\ search # "searching" /\ ReadyToRun = {} =>
           \A n \in Configured \ completed :
               \E S \in SUBSET (Configured \ completed) :
                   n \in S /\ \A k \in S : deps[k] \cap (S \cup Unknown) # {}
=============================================================================
