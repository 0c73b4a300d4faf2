------------------------- MODULE MC_StateExchange -------------------------
(* Small instances of StateExchange: one or two conditionals, a handful of *)
(* worker tasks on the two sides of the channel.                           *)
EXTENDS StateExchange

Task(n, type, c) == [by |-> n, type |-> type, cond |-> c]

\* c1 locks coins of the left side, c2 of the right side.
PayerC == [c \in Conds |-> IF c = "c1" THEN "L" ELSE "R"]

\* L opens and prepays a conditional, which R executes or removes.
SettleTasks ==
    {Task("L", "add", "c1"), Task("L", "commit", "c1"),
     Task("R", "exec", "c1"), Task("R", "rem", "c1")}

\* Both sides change the state at the same time, with actions that may be
\* refused: L opens a conditional while R swaps and rents capacity.
CrossTasks ==
    {Task("L", "add", "c1"), Task("R", "swap", NoCond), Task("R", "rent", NoCond)}

\* A middle node removes a conditional it had forwarded, while its party
\* changes the state too.
ForwardTasks ==
    {Task("L", "add", "c1"), Task("R", "rem", "c1"), Task("L", "inc", NoCond)}

IncTasks == {Task("L", "inc", NoCond), Task("R", "inc", NoCond)}
=============================================================================
