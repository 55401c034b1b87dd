------------------------------- MODULE Cursor -------------------------------
(***************************************************************************)
(* What an iterator of a database promises: it stands on one entry of the  *)
(* database as it was when the iterator was made, one entry per key, or on *)
(* none, and every call moves it by the order of the keys.  Module         *)
(* Iterators implements it.                                                *)
(***************************************************************************)
EXTENDS Integers

CONSTANT Calls   \* what may be called: records with the field op

VARIABLES
  entries,  \* what the iterator shows: a set with one [key, seq] per key
  asked,    \* the call that has not returned, in a set of at most one
  at        \* the entry it stood on when it last returned, or {}

cursorVars == <<entries, asked, at>>

FirstOf(E) == {e \in E : \A x \in E : e.key <= x.key}
LastOf(E)  == {e \in E : \A x \in E : x.key <= e.key}

Answer(call) ==
  CASE call.op = "SeekToFirst" -> FirstOf(entries)
    [] call.op = "SeekToLast" -> LastOf(entries)
    [] call.op = "Seek" -> FirstOf({e \in entries : e.key >= call.key})
    [] call.op = "Next" -> FirstOf({e \in entries : \A c \in at : e.key > c.key})
    [] call.op = "Prev" -> LastOf({e \in entries : \A c \in at : e.key < c.key})

CursorInit == asked = {} /\ at = {}

\* Next and Prev may be called only on an entry.
Ask == \E call \in Calls :
  /\ asked = {}
  /\ call.op \in {"Next", "Prev"} => at # {}
  /\ asked' = {call}
  /\ UNCHANGED <<entries, at>>

Return == \E call \in asked :
  /\ at' = Answer(call)
  /\ asked' = {}
  /\ UNCHANGED entries

CursorNext == Ask \/ Return

CursorSpec == CursorInit /\ [][CursorNext]_cursorVars

=============================================================================
