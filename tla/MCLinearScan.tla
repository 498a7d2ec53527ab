---------------------------- MODULE MCLinearScan ----------------------------
(* Instance of LinearScan: four intervals over indices 0..6, at most one   *)
(* of them a float, two general registers of which one is callee-saved and *)
(* one float register that no call preserves, as on System V x86-64.       *)
EXTENDS LinearScan

MCClass == {"int", "float"}
MCPool == [int |-> {"rax", "rbx"}, float |-> {"xmm0"}]

Starts == {s \in [1..4 -> 0..3] : s[1] = 0 /\ \A k \in 1..3 : s[k] <= s[k + 1]}
Lengths == [1..4 -> {0, 1, 3}]
Classes == {c \in [1..4 -> MCClass] :
              \A j, k \in 1..4 : c[j] = "float" /\ c[k] = "float" => j = k}
Calls == {{}, {2}, {1, 3}}

MCInputs ==
  {[n |-> 4, start |-> st, end |-> [k \in 1..4 |-> st[k] + len[k]],
    class |-> cl, size |-> [k \in 1..4 |-> IF cl[k] = "int" THEN 8 ELSE 16],
    calls |-> ca] : st \in Starts, len \in Lengths, cl \in Classes, ca \in Calls}
=============================================================================
