--------------------------- MODULE MCLoginContests ---------------------------
(***************************************************************************)
(* LoginContests on a small instance: two requests at a time.               *)
(***************************************************************************)
EXTENDS LoginContests, TLC

Interchangeable == Permutations(Procs) \cup Permutations(Passwords)

\* A deleted account that no request works on never comes back: of what was
\* observed of it, only that its ID is used up matters from then on.
Living == Existing \cup {who[p] : p \in Procs}

LivingOnly ==
    <<clock, users, roles, pc, who, copy, actor, contested, proved, Rows(born),
      [i \in Ids |-> IF i \in Living THEN born[i] ELSE None],
      {g \in granted : g[1] \in Living}>>
===============================================================================
