----------------------------- MODULE SeqFilter -----------------------------
(***************************************************************************)
(* Removing members from a sequence while keeping the order of the rest:   *)
(* what Vec::remove, VecDeque::remove and the pop_front/push_back rebuild  *)
(* of expire_queue_timeouts do to the queues and in-flight lists of the    *)
(* proxy core.  It is written without recursion, through the increasing    *)
(* enumeration of the indices that stay, so that its properties can be     *)
(* proved (SeqFilterProofs).                                               *)
(***************************************************************************)
EXTENDS Integers, Sequences, FiniteSets

Members(s) == {s[i] : i \in DOMAIN s}

NoRepeats(s) == \A i, j \in DOMAIN s : s[i] = s[j] => i = j

(* f lists the finite set of integers I in increasing order. *)
IsEnumeration(f, I) ==
  /\ \A a, b \in DOMAIN f : a < b => f[a] < f[b]
  /\ \A i \in I : \E a \in DOMAIN f : f[a] = i

Enumeration(I) == CHOOSE f \in [1..Cardinality(I) -> I] : IsEnumeration(f, I)

KeptIndices(s, X) == {i \in DOMAIN s : s[i] \notin X}

Without(s, X) ==
  LET kept == KeptIndices(s, X)
      f    == Enumeration(kept)
  IN  [a \in 1..Cardinality(kept) |-> s[f[a]]]
=============================================================================
