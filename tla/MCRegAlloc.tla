----------------------------- MODULE MCRegAlloc -----------------------------
(* Instance of RegAlloc: the inputs of MCLinearScan, with the registers in *)
(* preference order.                                                       *)
EXTENDS RegAlloc

MCClass == {"int", "float"}
MCAllocatable == [int |-> <<"rax", "rbx">>, float |-> <<"xmm0">>]

Starts == {s \in [1..4 -> 0..3] : s[1] = 0 /\ \A k \in 1..3 : s[k] <= s[k + 1]}
Lengths == [1..4 -> {0, 1, 3}]
Classes == {c \in [1..4 -> MCClass] :
              \A j, k \in 1..4 : c[j] = "float" /\ c[k] = "float" => j = k}
Calls == {{}, {2}}

MCInputs ==
  {[n |-> 4, start |-> st, end |-> [k \in 1..4 |-> st[k] + len[k]],
    class |-> cl, size |-> [k \in 1..4 |-> IF cl[k] = "int" THEN 8 ELSE 16],
    calls |-> ca] : st \in Starts, len \in Lengths, cl \in Classes, ca \in Calls}
=============================================================================
