------------------------------- MODULE Lists -------------------------------
(***************************************************************************)
(* A std::list of pointers that holds each of them at most once, as        *)
(* node::children_ and object_dictionary::tick_targets_ do: that they do   *)
(* is an invariant of the modules that use it.                             *)
(***************************************************************************)
EXTENDS Naturals, Sequences

Members(s) == {s[i] : i \in DOMAIN s}

\* remove(o), or remove_if() of one pointer.
Without(s, o) ==
  IF o \in Members(s)
    THEN LET i == CHOOSE i \in DOMAIN s : s[i] = o IN
         SubSeq(s, 1, i - 1) \o SubSeq(s, i + 1, Len(s))
    ELSE s
=============================================================================
