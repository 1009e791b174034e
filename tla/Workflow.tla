------------------------------ MODULE Workflow ------------------------------
(***************************************************************************)
(* A sub agent's workflow: what validate_workflow (factory/dag.py) lets be *)
(* saved, and the worker the factory builds from it (factory/worker.py):   *)
(* skill nodes, human gates, and behind every node a router that follows   *)
(* its edges.                                                              *)
(*                                                                         *)
(* External: the graph library.  The triggered nodes run together, their   *)
(* routers after them; a deferred node waits until nothing else is left to *)
(* run, and then all deferred nodes that were triggered run.               *)
(***************************************************************************)
EXTENDS Naturals, FiniteSets

CONSTANTS
  Node,    \* nodes
  Gate,    \* those of type hitl
  Edge     \* the edges a workflow may have: <<from, to, "next" | "if" | "error">>

VARIABLES
  edges,     \* the workflow
  at,        \* "nodes", "routers", "ended" or "failed"
  frontier,  \* the nodes of this superstep
  deferred,  \* joins triggered and not run yet
  outcome,   \* node -> status of its output
  runs       \* node -> times it ran (2: more than once)

wkvars == <<edges, at, frontier, deferred, outcome, runs>>

To(n, kind)  == {e[2] : e \in {d \in edges : d[1] = n /\ d[3] = kind}}
Incoming(n)  == {e \in edges : e[2] = n}
Successors(n, es) == {e[2] : e \in {d \in es : d[1] = n}}

\* What is behind the nodes ns: the least set that has what their edges lead to, and
\* what its own lead to.
Place == Node \cup {"END"}
Behind(ns, es) ==
  LET closed == {set \in SUBSET Place : \A n \in ns \cup set : Successors(n, es) \subseteq set}
  IN {m \in Place : \A set \in closed : m \in set}

Acyclic(es) == \A n \in Node : n \notin Behind({n}, es)
\* validate_workflow
Valid(es) ==
  /\ Cardinality({e \in es : e[1] = "START"}) = 1
  /\ \A n \in Node : Cardinality({e \in es : e[1] = n /\ e[3] = "error"}) <= 1
  /\ Acyclic(es)
  /\ "END" \in Behind({"START"}, es)

Init ==
  /\ edges \in {es \in SUBSET Edge : Valid(es)}
  /\ frontier = Successors("START", edges) \ {"END"} /\ deferred = {}
  /\ at = IF frontier = {} THEN "ended" ELSE "nodes"
  /\ outcome = [n \in Node |-> "none"]
  /\ runs = [n \in Node |-> 0]

\* run_skill: an inactive skill or an exception gives an error; run_hitl: the verdict.
Outcomes(n) == IF n \in Gate THEN {"ok", "denied"} ELSE {"ok", "error"}

RunNodes ==
  /\ at = "nodes" /\ at' = "routers"
  /\ \E o \in [frontier -> {"ok", "error", "denied"}] :
       /\ \A n \in frontier : o[n] \in Outcomes(n)
       /\ outcome' = [n \in Node |-> IF n \in frontier THEN o[n] ELSE outcome[n]]
  /\ runs' = [n \in Node |-> IF n \in frontier /\ runs[n] < 2 THEN runs[n] + 1 ELSE runs[n]]
  /\ UNCHANGED <<edges, frontier, deferred>>

\* The targets a router may choose: its error edge, END for a denial, or the
\* unconditional edges and one conditional one, which the model picks.
Pick(n) == IF To(n, "if") = {} THEN {{}} ELSE {{t} : t \in To(n, "if")}
Targets(n) ==
  CASE outcome[n] = "error"  -> {To(n, "error")}
    [] outcome[n] = "denied" -> {{"END"}}
    [] outcome[n] = "ok"     -> {To(n, "next") \cup p : p \in Pick(n)}

\* NodeExecutionError: a failed node without an error edge fails the worker.
Fails == \E n \in frontier : outcome[n] = "error" /\ To(n, "error") = {}

\* Mutant of Defers: a join runs with the first branch that reaches it.
NeverDefers(n) == FALSE

\* A node with several incoming edges is deferred (build_worker).
Defers(n) == Cardinality(Incoming(n)) > 1

Goes(triggered) ==
  LET now   == {n \in triggered : ~Defers(n)}
      later == deferred \cup {n \in triggered : Defers(n)}
  IN /\ frontier' = IF now # {} THEN now ELSE later
     /\ deferred' = IF now # {} THEN later ELSE {}
     /\ at' = IF now \cup later = {} THEN "ended" ELSE "nodes"

RunRouters ==
  /\ at = "routers"
  /\ \/ Fails /\ at' = "failed" /\ UNCHANGED <<frontier, deferred>>
     \/ /\ ~Fails
        /\ \E t \in [frontier -> UNION {Targets(n) : n \in frontier}] :
             /\ \A n \in frontier : t[n] \in Targets(n)
             /\ Goes((UNION {t[n] : n \in frontier}) \ {"END"})
  /\ UNCHANGED <<edges, outcome, runs>>

Next == RunNodes \/ RunRouters

Spec == Init /\ [][Next]_wkvars

-----------------------------------------------------------------------------
Joins == {n \in Node : Cardinality(Incoming(n)) > 1}

\* No join waits behind another.
JoinsApart == \A n \in Joins : Behind({n}, edges) \cap Joins = {}

\* "Runs once all reachable upstream branches complete" (build_worker): in a
\* workflow without a join behind a join, no node runs a second time, and when a
\* join runs nothing that leads to it is still to run.
JoinsWait ==
  JoinsApart =>
    /\ \A n \in Node : runs[n] <= 1
    /\ at = "routers" => \A n, m \in frontier : m \notin Behind({n}, edges)
=============================================================================
