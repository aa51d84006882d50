------------------------------- MODULE FdTable -------------------------------
(***************************************************************************)
(* What the poll table is to the rest of the server: a list of subscribers *)
(* that descriptors join at the end and leave from anywhere, until it is   *)
(* given up as a whole.                                                    *)
(***************************************************************************)
EXTENDS Naturals, Sequences

CONSTANT Fd

VARIABLE table

Without(s, i) == [k \in 1 .. Len(s) - 1 |-> IF k < i THEN s[k] ELSE s[k + 1]]

Init == table = <<>>

Join ==
  \E f \in Fd : /\ \A k \in 1 .. Len(table) : table[k] # f
                /\ table' = Append(table, f)

Leave == \E i \in 1 .. Len(table) : table' = Without(table, i)

GiveUp == table' = <<>>

Next == Join \/ Leave \/ GiveUp

Spec == Init /\ [][Next]_table
==============================================================================
