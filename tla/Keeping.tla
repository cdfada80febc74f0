------------------------------- MODULE Keeping -------------------------------
(***************************************************************************)
(* The entries of a sequence that belong to a set, in their order: what is *)
(* left of a queue when messages are cancelled, and what one task gets of  *)
(* all that is sent.  Keep(s, T) is SelectSeq(s, LAMBDA x : x \in T),      *)
(* written out because the proofs reason about its recursion.              *)
(***************************************************************************)
EXTENDS Naturals, Sequences

Keep(s, T) ==
  LET kept[n \in 0 .. Len(s)] ==
        IF n = 0 THEN << >>
        ELSE IF s[n] \in T THEN Append(kept[n - 1], s[n]) ELSE kept[n - 1]
  IN  kept[Len(s)]

\* What is left when these are taken out.
Dropping(s, T) == Keep(s, {s[n] : n \in DOMAIN s} \ T)

\* MessageCancelAll: what is left when the messages with these ids are cancelled.
Without(queue, ids) ==
  Keep(queue, {m \in {queue[n] : n \in DOMAIN queue} : m.id \notin ids})
=============================================================================
