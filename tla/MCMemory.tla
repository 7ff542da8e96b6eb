------------------------------ MODULE MCMemory ------------------------------
(***************************************************************************)
(* A small instance of typed memory for TLC.  The keys of a deployment are *)
(* interchangeable.                                                        *)
(***************************************************************************)
EXTENDS Memory, TLC

CONSTANTS k1, k2, k3, t1, t2

Policy(strategy, items, bytes) == [strategy |-> strategy, items |-> items, bytes |-> bytes]

\* Versions, summaries of summaries, and views of all ages.
Notebook == [keys |-> {k1, k2, k3}, types |-> {"note", "summary", "procedure"},
             sizes |-> {1, 2, 3}, policies |-> {Policy("lexical", 2, 6)},
             notes |-> 1, cites |-> TRUE, legacy |-> {FALSE}, widths |-> {}]

\* Open tasks under a budget of one item: an import without a policy overloads
\* the view, maintenance relieves it.
TaskList == [keys |-> {t1, t2}, types |-> {"task"}, sizes |-> {1, 2},
             policies |-> {Policy("none", 0, 0), Policy("balanced", 1, 1),
                           Policy("task_maintenance", 1, 1)},
             notes |-> 2, cites |-> FALSE, legacy |-> {FALSE}, widths |-> {}]

\* Executors with room for one task and for two.
Executors == [keys |-> {t1, t2}, types |-> {"task"}, sizes |-> {1, 2},
              policies |-> {Policy("balanced", 1, 1), Policy("balanced", 2, 3),
                            Policy("task_maintenance", 2, 3)},
              notes |-> 1, cites |-> FALSE, legacy |-> {FALSE}, widths |-> {3}]

\* One task, and proposals that change the legacy memory.
Errand == [keys |-> {t1}, types |-> {"task"}, sizes |-> {1},
           policies |-> {Policy("balanced", 1, 1), Policy("task_maintenance", 1, 1)},
           notes |-> 1, cites |-> FALSE, legacy |-> BOOLEAN, widths |-> {}]

\* Nothing; a legacy key or a query; an executor with little room.
Contexts == {[items |-> 0, bytes |-> 0, room |-> 6], [items |-> 1, bytes |-> 1, room |-> 6],
             [items |-> 0, bytes |-> 0, room |-> 1]}

AllWorkloads == {Notebook, TaskList, Executors, Errand}

Symmetry == Permutations({k1, k2, k3}) \cup Permutations({t1, t2})
=============================================================================
