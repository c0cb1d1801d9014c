----------------------------- MODULE TagStream -----------------------------
(***************************************************************************)
(* A stream between two blocks of the flowgraph, with its tags: the number *)
(* of items written to and read from it, and the tags not yet read, each a *)
(* record with the offset "at" of the item it is on.  The scheduler gives  *)
(* a block the items that are there and the tags on them.                  *)
(***************************************************************************)
EXTENDS Integers

EmptyStream == [written |-> 0, read |-> 0, tags |-> {}]

\* The items a block called now is given.
Available(s) == s.written - s.read

\* The tags on them.
Window(s) == {t \in s.tags : t.at < s.written}

\* The tags on the last item that has any: which of them comes last is open.
LastTags(s) == {t \in Window(s) : \A u \in Window(s) : u.at =< t.at}

\* Slip: the items are not consumed.
Consumed_Not(s, n) == [s EXCEPT !.tags = {t \in @ : t.at >= s.read + n}]

\* n items are consumed.
Consumed(s, n) == [s EXCEPT !.read = @ + n, !.tags = {t \in @ : t.at >= s.read + n}]

\* n items with tags are written.  Tags put on items that have been read already
\* are never seen.
Written(s, n, tags) ==
    [s EXCEPT !.written = @ + n, !.tags = @ \union {t \in tags : t.at >= s.read}]

=============================================================================
