----------------------------- MODULE Pagination -----------------------------
(***************************************************************************)
(* Pages by key set: rows ordered by (time, id), a page after a position,  *)
(* and a cursor that names the list it was issued for.  A cursor's wire    *)
(* form is opaque: here it is the pair it encodes.  A key is a sequence of *)
(* numbers, the time first.                                                *)
(***************************************************************************)
EXTENDS Naturals, Sequences, FiniteSets, SequencesExt

(* compareKeyset: the first number in which two keys differ decides. *)
Before(k, l) ==
  \E i \in 1 .. Len(k) : k[i] < l[i] /\ \A j \in 1 .. i - 1 : k[j] = l[j]

(* The keys after a position, all of them after none. *)
After(keys, position) ==
  IF position = <<>> THEN keys ELSE {k \in keys : Before(position, k)}

InOrderOf(rows) == \A i, j \in 1 .. Len(rows) : i < j => Before(rows[i], rows[j])

(* keysetPage, and the query it stands for: the first keys after a position,
   in order, one more than the limit if there are as many.  The page is given
   as the set of the sequences that are it. *)
KeysetPage(keys, position, limit) ==
  LET found == After(keys, position)
  IN {rows \in BoundedSeq(found, limit + 1) :
        /\ InOrderOf(rows)
        /\ \A k \in found \ ToSet(rows) :
             Len(rows) = limit + 1 /\ \A i \in 1 .. Len(rows) : Before(rows[i], k)}

(* window: the page, and where the next one starts, <<>> if there is none. *)
Window(rows, limit) ==
  IF Len(rows) > limit
  THEN [items |-> SubSeq(rows, 1, limit), next |-> rows[limit]]
  ELSE [items |-> rows, next |-> <<>>]

(* encode. *)
Cursor(scope, position) == [scope |-> scope, position |-> position]

(* Seeded fault: a cursor is taken for whatever list it is presented to. *)
AcceptableAnywhere(cursor, scope) == TRUE

(* decode and request: a cursor is refused unless it was issued for this list. *)
Acceptable(cursor, scope) == cursor.scope = scope

=============================================================================
