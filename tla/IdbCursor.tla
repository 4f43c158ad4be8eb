-------------------------------- MODULE IdbCursor ------------------------------
(***************************************************************************)
(* A cursor of IndexedDB (src/src/api/js/indexeddb.js: IDBCursor,          *)
(* openCursor of a store and of an index) over the rows of a table, as     *)
(* operators from a cursor to the next one.  The rows are found, sorted    *)
(* and thinned out when it is opened; after that it is a place among them. *)
(***************************************************************************)
EXTENDS FiniteSets, Naturals, SequencesExt

CONSTANTS Keys, Values \* the keys of the store; what its index has as keys

ASSUME IdbCursorAssumption ==
         Keys \subseteq Nat \ {0} /\ IsFiniteSet(Keys) /\ Values \subseteq Nat \ {0}

None == 0
NoTable == [k \in {} |-> None]
Present(tbl) == {k \in DOMAIN tbl : tbl[k] # None}

Directions == {"next", "nextunique", "prev", "prevunique"}
IsPrev(dir) == dir \in {"prev", "prevunique"}
IsUnique(dir) == dir \in {"nextunique", "prevunique"}

\* What a row is to a cursor: the key it goes by, and the row's own.
Found(tbl, source, lower) ==
  {item \in {[key |-> IF source = "index" THEN tbl[k] ELSE k, primary |-> k] : k \in Present(tbl)} :
     item.key >= lower}

Ascending(a, b) == a.key < b.key \/ (a.key = b.key /\ a.primary < b.primary)

\* S in the order of before: each stands where as many come before it.
Listed(S, before(_, _)) ==
  [n \in 1 .. Cardinality(S) |-> CHOOSE x \in S : Cardinality({y \in S : before(y, x)}) = n - 1]

\* The first of each run of equal keys.
Unique(items) ==
  LET first == {i \in DOMAIN items : i = 1 \/ items[i].key # items[i - 1].key}
      places == Listed(first, <)
  IN  [n \in DOMAIN places |-> items[places[n]]]

Items(found, dir) ==
  LET sorted == Listed(found, Ascending)
      turned == IF IsPrev(dir) THEN Reverse(sorted) ELSE sorted
  IN  IF IsUnique(dir) THEN Unique(turned) ELSE turned

\* `astray`: it was advanced by a count that is no whole number, which advance()
\* takes; `index` is the place before the one it is at then.  Such counts never add
\* up to a whole one here.  `found` and `told` are history: what there was, and what
\* was shown for which move.
NewCursor(tx, tbl, source, lower, dir) ==
  [tx |-> tx, items |-> Items(Found(tbl, source, lower), dir), index |-> 1, dir |-> dir,
   astray |-> FALSE, found |-> Found(tbl, source, lower), told |-> <<>>]

Stands(c) == c.index <= Len(c.items)
Position(c) == c.items[c.index]
Nothing == [key |-> None, primary |-> None]

\* _resolve(cursor), or null.
Shown(c, key, by) ==
  [c EXCEPT !.told = Append(@, [item |-> IF Stands(c) THEN Position(c) ELSE Nothing,
                                key |-> key, by |-> by])]

\* Mutant: a key that is there is passed over.
ReachedBeyond(c, i, key) == IF IsPrev(c.dir) THEN c.items[i].key < key ELSE c.items[i].key > key

\* Whether continue(key) stops at i.
Reached(c, i, key) == IF IsPrev(c.dir) THEN c.items[i].key <= key ELSE c.items[i].key >= key

\* The least place after the one it is at which continue(key) stops, or the end.
SkipTo(c, key) ==
  LET stops == {i \in c.index + 1 .. Len(c.items) : Reached(c, i, key)}
  IN  IF ~Stands(c) THEN c.index
      ELSE IF stops = {} THEN Len(c.items) + 1
      ELSE CHOOSE i \in stops : \A j \in stops : i <= j

\* Between two items the microtask throws, and the request stays pending.
Arrived(c, key, by) == IF c.astray /\ Stands(c) THEN c ELSE Shown(c, key, by)

\* continue(), continue(key), advance(by); a key is looked for among items only.
Moved(c, key, by) ==
  Arrived([c EXCEPT !.index = IF key = None \/ c.astray THEN @ + by ELSE SkipTo(c, key)],
          key, by)

\* advance() by more than `by` and less than the next whole number.
Strayed(c, by) == Arrived([c EXCEPT !.index = @ + by, !.astray = TRUE], None, by)

-------------------------------------------------------------------------------
(* What a cursor promises, of sets: without sorting, and without an index. *)

\* a comes before b.
Precedes(dir, a, b) == IF IsPrev(dir) THEN Ascending(b, a) ELSE Ascending(a, b)

\* What there is to show: with a unique direction, the first of each key.
ToShow(c) ==
  {item \in c.found :
     IsUnique(c.dir) =>
       \A other \in c.found : Precedes(c.dir, other, item) => other.key # item.key}

\* The items that may follow what was shown before, if what was asked is heeded.
Candidates(c, i) ==
  {item \in ToShow(c) :
     /\ i > 1 => c.told[i - 1].item # Nothing /\ Precedes(c.dir, c.told[i - 1].item, item)
     /\ c.told[i].key # None =>
          item.key = c.told[i].key \/ (IF IsPrev(c.dir) THEN item.key < c.told[i].key
                                       ELSE item.key > c.told[i].key)}

IsNext(c, i) ==
  LET item == c.told[i].item
      before == {other \in Candidates(c, i) : Precedes(c.dir, other, item)}
  IN  IF Cardinality(Candidates(c, i)) < c.told[i].by THEN item = Nothing
      ELSE item \in Candidates(c, i) /\ Cardinality(before) = c.told[i].by - 1

===============================================================================
