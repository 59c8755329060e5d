----------------------------- MODULE LsmCursor -----------------------------
(***************************************************************************)
(* What an iterator promises, over one tree or several: it is a cursor     *)
(* over one ordered map.  It stands on a key of the map or past the last   *)
(* one, steps to the next or the previous key, and delivers the value the  *)
(* map has for that key.                                                   *)
(***************************************************************************)
EXTENDS Integers, FiniteSetsExt

CONSTANTS
  End,      \* keys are 1 .. End - 1; End is the place past the last key
  Value,
  None,
  Loose     \* calls that may succeed and still promise nothing

VARIABLES
  items,    \* the map: a value, or None, for each key; it does not change
  at,       \* the key the cursor stands on, or End
  val,      \* the value delivered with it
  ready,    \* FALSE before the first positioning call and after an error
  call,     \* the last call, with the key it was given, or 0
  rc        \* what it returned

cursorVars == <<items, at, val, ready, call, rc>>

Key == 1..(End - 1)
Present == {k \in Key : items[k] # None}

Calls ==
  ({"setup", "begin", "end", "next", "prev"} \X {0})
    \cup ({"lower_bound", "upper_bound", "lookup"} \X Key)
Results == {"ok", "enoent", "found", "absent", "error", "abort"}

\* The least key of the map from k on.
From(k) == Min({j \in Present : j >= k} \cup {End})

ValueAt(k) == IF k = End THEN None ELSE items[k]

Init ==
  /\ items \in [Key -> Value \cup {None}]
  /\ at = End /\ val = None
  /\ ready = FALSE
  /\ call = <<"setup", 0>> /\ rc = "ok"

MoveTo(k, result) ==
  /\ at' = k /\ val' = ValueAt(k)
  /\ ready' = TRUE
  /\ rc' = result
  /\ UNCHANGED items

First == call' = <<"begin", 0>> /\ MoveTo(From(1), "ok")

PastLast == call' = <<"end", 0>> /\ MoveTo(End, "ok")

Seek(k) == call' = <<"lower_bound", k>> /\ MoveTo(From(k), "ok")

\* Past the key k; when it was the last one, that may be reported.
SeekPast(k) ==
  /\ call' = <<"upper_bound", k>>
  /\ \/ MoveTo(From(k + 1), "ok")
     \/ From(k + 1) = End /\ MoveTo(End, "enoent")

Lookup(k) ==
  /\ call' = <<"lookup", k>>
  /\ MoveTo(From(k), IF From(k) = k THEN "found" ELSE "absent")

Next1 ==
  /\ ready
  /\ call' = <<"next", 0>>
  /\ IF at = End THEN MoveTo(End, "enoent")
     ELSE MoveTo(From(at + 1), IF From(at + 1) = End THEN "enoent" ELSE "ok")

Prev1 ==
  /\ ready
  /\ call' = <<"prev", 0>>
  /\ LET below == {k \in Present : k < at}
     IN  IF below = {} THEN MoveTo(at, "enoent") ELSE MoveTo(Max(below), "ok")

\* After an error, or a loose call, the cursor stands anywhere, and goes
\* anywhere until the next positioning call.
Fail ==
  /\ at' \in 1..End /\ val' \in Value \cup {None}
  /\ ready' = FALSE
  /\ call' \in Calls /\ rc' \in Results
  /\ ready => rc' = "error" \/ call'[1] \in Loose
  /\ UNCHANGED items

Next ==
  \/ First \/ PastLast \/ Next1 \/ Prev1 \/ Fail
  \/ \E k \in Key : Seek(k) \/ SeekPast(k) \/ Lookup(k)

Spec == Init /\ [][Next]_cursorVars
=============================================================================
