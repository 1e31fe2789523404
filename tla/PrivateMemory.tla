--------------------------- MODULE PrivateMemory ----------------------------
(***************************************************************************)
(* What thread-local storage promises: every thread has a memory of its    *)
(* own, or none; only the thread itself creates, changes and destroys it;  *)
(* a clone is a copy of the other thread's memory at that moment.          *)
(***************************************************************************)
EXTENDS Naturals

CONSTANTS Threads, Sizes, Values, NoStorage

VARIABLE mem   \* thread -> NoStorage, or its bytes as a function of the offset

None(t) == mem[t] = NoStorage

Init == mem = [t \in Threads |-> NoStorage]

Create(t) ==
  /\ None(t)
  /\ \E n \in Sizes : mem' = [mem EXCEPT ![t] = [i \in 0 .. n - 1 |-> 0]]

Clone(t, target) ==
  /\ None(t)
  /\ ~None(target)
  /\ mem' = [mem EXCEPT ![t] = mem[target]]

\* A write shows itself byte by byte.
Write(t) ==
  /\ ~None(t)
  /\ \E i \in DOMAIN mem[t], v \in Values : mem' = [mem EXCEPT ![t][i] = v]

Destroy(t) == ~None(t) /\ mem' = [mem EXCEPT ![t] = NoStorage]

Next == \E t \in Threads : \/ Create(t) \/ Write(t) \/ Destroy(t)
                           \/ \E target \in Threads : Clone(t, target)

Spec == Init /\ [][Next]_mem
=============================================================================
