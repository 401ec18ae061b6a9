--------------------------------- MODULE Pager --------------------------------
(***************************************************************************)
(* What the page of a query command promises to the client that reads it.  *)
(*                                                                         *)
(* A client reads a list in one of three ways.  "advice": as long as a     *)
(* page says it was truncated, ask again with the offset that its last     *)
(* line names.  "raise": as long as it says so, ask again with a larger    *)
(* limit.  "stride": ask for page after page until one is empty.  The list *)
(* may change between two questions.                                       *)
(***************************************************************************)
EXTENDS Naturals, Sequences

VARIABLES
  rows,    \* the answer without limit and offset
  how,     \* the way it is read
  off,     \* the next offset
  lim,     \* the limit
  got,     \* the rows that the client holds
  done,    \* it has stopped asking
  moved    \* the list has changed since the first question

vars == <<rows, how, off, lim, got, done, moved>>

Ways == {"advice", "raise", "stride"}
Row == Nat
Within(from, n) == LET list == rows IN {list[i] : i \in {i \in 1..Len(list) : from < i /\ i <= from + n}}
\* How many rows a page has.
Count == LET n == Len(rows) IN IF n <= off THEN 0 ELSE IF n - off < lim THEN n - off ELSE lim
Truncated == Count >= lim
\* Of a full page a command may say that it was truncated, and it does if rows
\* are left.
Says == {more \in BOOLEAN : (off + Count < Len(rows) => more) /\ (more => Truncated)}

TypeOK == /\ rows \in Seq(Row) /\ how \in Ways /\ off \in Nat /\ lim \in Nat \ {0}
          /\ got \subseteq Row /\ done \in BOOLEAN /\ moved \in BOOLEAN

Init == /\ rows \in Seq(Row) /\ how \in Ways /\ off = 0 /\ lim \in Nat \ {0}
        /\ got = {} /\ done = FALSE /\ moved = FALSE

Advice == /\ how = "advice"
          /\ got' = got \cup Within(off, lim)
          /\ off' = off + Count
          /\ \E more \in Says : done' = ~more
          /\ lim' = lim

Raise == /\ how = "raise"
         /\ got' = Within(0, lim)
         /\ \E more \in Says : done' = ~more /\ lim' \in Nat /\ IF more THEN lim' > lim ELSE lim' = lim
         /\ off' = off

Stride == /\ how = "stride"
          /\ got' = got \cup Within(off, lim)
          /\ off' = off + lim
          /\ done' = (Count = 0)
          /\ lim' = lim

Ask == ~done /\ (Advice \/ Raise \/ Stride) /\ UNCHANGED <<rows, how, moved>>

Change == /\ ~done
          /\ rows' \in Seq(Row)
          /\ moved' = TRUE
          /\ UNCHANGED <<how, off, lim, got, done>>

Next == Ask \/ Change

Spec == Init /\ [][Next]_vars

-----------------------------------------------------------------------------
Whole == {rows[i] : i \in 1..Len(rows)}

\* A client that has stopped holds the whole list and nothing else, whatever
\* the limit, if the list did not change under it; with a raised limit also
\* if it did.  This is what Total, Offset and Truncated in the answer's meta
\* are for.
Complete == done /\ (moved => how = "raise") => got = Whole
=============================================================================
