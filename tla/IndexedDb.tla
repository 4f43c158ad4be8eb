-------------------------------- MODULE IndexedDb ------------------------------
(***************************************************************************)
(* IndexedDB over SQLite (src/src/api/js/indexeddb.js, indexeddb.cpp): one *)
(* database with one object store.                                         *)
(*                                                                         *)
(* An operation reads or writes the table at once, each write by itself;   *)
(* only its result is told later, by a microtask.  A transaction is a log  *)
(* of how to undo its writes, and two nested microtasks after which it is  *)
(* complete: nothing keeps it from another transaction, or from being used *)
(* when it is over.                                                        *)
(***************************************************************************)
EXTENDS IdbCursor

CONSTANTS MaxCalls, MaxTransactions, MaxCursors \* bounds: of the program's calls, ...

ASSUME IndexedDbAssumption == {MaxCalls, MaxTransactions, MaxCursors} \subseteq Nat

VARIABLES version,    \* in the file: the version, 0 in a new file
          table,      \* ... and the rows of the store, or NoTable
          microtasks, \* the queue
          opens,      \* requests to open the database: what they were told
          txs,        \* transactions
          reqs,       \* requests of the store
          cursors,    \* cursors, each over what its request has found
          calls,      \* calls of the program so far
          rejecting   \* the request whose 'error' is being told, or 0

dbVars == <<version, table, opens>>
vars == <<dbVars, microtasks, txs, reqs, cursors, rejecting, calls>>

Microtask(kind, of) == [kind |-> kind, of |-> of, key |-> None, by |-> 0]
QueueMicrotask(queue, kind, of) == Append(queue, Microtask(kind, of))

-------------------------------------------------------------------------------
(* Rows and the undo log.  An entry has the rows to write back. *)

Row(tbl, k) == IF k \in DOMAIN tbl THEN tbl[k] ELSE None

\* __brokit_idb_put, or _delete for None; without a table nothing is written.
Write(tbl, k, v) == IF tbl = NoTable THEN tbl ELSE [tbl EXCEPT ![k] = v]
Restore(tbl, entry) ==
  [k \in DOMAIN tbl |-> IF k \in DOMAIN entry THEN entry[k] ELSE tbl[k]]

\* Mutant: the oldest first.
UndoneInOrder(tbl, log) == FoldLeft(Restore, tbl, log)

\* _rollback: the newest first.
Undone(tbl, log) == FoldLeft(Restore, tbl, Reverse(log))

\* What is pushed to _undoLog.
Entry(k, v) == [x \in {k} |-> v]

\* put, add, delete, clear, and the reads: the table, what is logged, and whether
\* it throws or the key was there.
Effect(tbl, log, fails) == [table |-> tbl, log |-> log, fails |-> fails]

PutEffect(tbl, k, v) == Effect(Write(tbl, k, v), <<Entry(k, Row(tbl, k))>>, tbl = NoTable)

AddEffect(tbl, k, v) ==
  IF Row(tbl, k) # None THEN Effect(tbl, <<>>, TRUE)
  ELSE Effect(Write(tbl, k, v), <<Entry(k, None)>>, tbl = NoTable)

DeleteEffect(tbl, k) ==
  Effect(Write(tbl, k, None), IF Row(tbl, k) = None THEN <<>> ELSE <<Entry(k, Row(tbl, k))>>, FALSE)

ClearEffect(tbl) ==
  Effect([k \in DOMAIN tbl |-> None], <<[k \in Present(tbl) |-> tbl[k]]>>, FALSE)

\* get, getAll, getAllKeys, count, and those of an index.
ReadEffect(tbl) == Effect(tbl, <<>>, FALSE)

\* put and add, whose value may be nothing for JSON and which tell SQLite's errors:
\* all but the write is done then.
Thrown(effect) == Effect(table, effect.log, TRUE)
WithThrown(effects) == effects \union {Thrown(effect) : effect \in effects}

Puts(k) == WithThrown({PutEffect(table, k, v) : v \in Values})
Adds(k) == WithThrown({AddEffect(table, k, v) : v \in Values})

Effects == {ClearEffect(table), ReadEffect(table)}
             \union UNION {Puts(k) \union Adds(k) \union {DeleteEffect(table, k)} : k \in Keys}

\* The table is not a transaction's own if something else has changed it.
Over(tx) == tx.completed \/ tx.aborted
Disturbed(t) == [u \in DOMAIN txs |->
                  [txs[u] EXCEPT !.alone = @ /\ (IF u = t THEN ~Over(txs[u]) ELSE Over(txs[u]))]]

-------------------------------------------------------------------------------
(* Opening, upgrading and deleting the database. *)

\* open(): a later version is set at once, the upgrade is told later.
Open(requested) ==
  /\ LET o == Len(opens) + 1
         needsUpgrade == requested > version
     IN  /\ opens' = Append(opens, <<>>)
         /\ microtasks' = QueueMicrotask(microtasks, IF needsUpgrade THEN "upgrade" ELSE "opened", o)
         /\ version' = IF needsUpgrade THEN requested ELSE version
  /\ UNCHANGED <<table, txs, reqs, cursors, rejecting>>

\* 'upgradeneeded': the program creates the store.  Success comes after it.
Upgrade(o) ==
  /\ opens' = [opens EXCEPT ![o] = Append(@, "upgradeneeded")]
  /\ table' = IF table = NoTable THEN [k \in Keys |-> None] ELSE table
  /\ microtasks' = QueueMicrotask(Tail(microtasks), "opened", o)
  /\ txs' = IF table = NoTable THEN Disturbed(0) ELSE txs
  /\ UNCHANGED <<version, reqs, cursors, rejecting>>

Opened(o) ==
  /\ opens' = [opens EXCEPT ![o] = Append(@, "success")]
  /\ microtasks' = Tail(microtasks)
  /\ UNCHANGED <<version, table, txs, reqs, cursors, rejecting>>

IsOpen == \E o \in DOMAIN opens : "success" \in Range(opens[o])

\* deleteObjectStore.
DeleteStore == /\ IsOpen /\ table # NoTable
               /\ table' = NoTable
               /\ txs' = Disturbed(0)
               /\ UNCHANGED <<version, microtasks, opens, reqs, cursors, rejecting>>

\* deleteDatabase closes the database under whoever uses it; its own request says
\* nothing.
DeleteDatabase == /\ version > 0
                  /\ version' = 0
                  /\ table' = NoTable
                  /\ txs' = Disturbed(0)
                  /\ UNCHANGED <<microtasks, opens, reqs, cursors, rejecting>>

-------------------------------------------------------------------------------
(* Transactions. *)

\* `alone`, `before`, `restored` and `late` are history.
NewTransaction(mode) ==
  [mode |-> mode, log |-> <<>>, started |-> FALSE, completed |-> FALSE, aborted |-> FALSE,
   told |-> <<>>, before |-> table, restored |-> table, alone |-> TRUE, late |-> FALSE]

Transaction(mode) ==
  /\ IsOpen /\ Len(txs) < MaxTransactions
  /\ txs' = Append(txs, NewTransaction(mode))
  /\ microtasks' = QueueMicrotask(microtasks, "begin", Len(txs) + 1)
  /\ UNCHANGED <<version, table, opens, reqs, cursors, rejecting>>

\* Mutant: one microtask, not two.
BeginOnce(t) ==
  LET over == Over(txs[t])
  IN  /\ txs' = [txs EXCEPT ![t].started = TRUE, ![t].completed = TRUE,
                            ![t].told = IF over THEN @ ELSE Append(@, "complete")]
      /\ microtasks' = Tail(microtasks)
      /\ UNCHANGED <<version, table, opens, reqs, cursors, rejecting>>

Begin(t) ==
  /\ txs' = [txs EXCEPT ![t].started = TRUE]
  /\ microtasks' = QueueMicrotask(Tail(microtasks), "complete", t)
  /\ UNCHANGED <<version, table, opens, reqs, cursors, rejecting>>

Complete(t) ==
  /\ txs' = IF Over(txs[t]) THEN txs
            ELSE [txs EXCEPT ![t].completed = TRUE, ![t].told = Append(@, "complete")]
  /\ microtasks' = Tail(microtasks)
  /\ UNCHANGED <<version, table, opens, reqs, cursors, rejecting>>

\* What abort() and a rejected request have in common.
RolledBack(t) ==
  LET rows == Undone(table, txs[t].log)
  IN  /\ table' = rows
      /\ txs' = [(IF rows = table THEN txs ELSE Disturbed(t)) EXCEPT
                   ![t].log = <<>>, ![t].aborted = TRUE, ![t].completed = TRUE,
                   ![t].restored = rows, ![t].late = @ \/ (txs[t].completed /\ ~txs[t].aborted)]

\* abort(): of a completed transaction as well.
Abort(t) ==
  /\ ~txs[t].aborted
  /\ RolledBack(t)
  /\ microtasks' = QueueMicrotask(microtasks, "abort", t)
  /\ UNCHANGED <<version, opens, reqs, cursors, rejecting>>

\* The microtasks that tell it.
TellAbort(t, types) ==
  /\ txs' = [txs EXCEPT ![t].told = @ \o types]
  /\ microtasks' = Tail(microtasks)
  /\ UNCHANGED <<version, table, opens, reqs, cursors, rejecting>>

-------------------------------------------------------------------------------
(* Requests of the store. *)

\* `early` (history): before the transaction's first microtask.
NewRequest(t, fails) ==
  [tx |-> t, early |-> ~txs[t].started, fails |-> fails, told |-> <<>>]

\* Only a "readwrite" transaction logs; the other one writes as well.
Request(t, effect) ==
  /\ table' = effect.table
  /\ LET others == IF effect.table = table THEN txs ELSE Disturbed(t)
     IN  txs' = IF txs[t].mode = "readwrite" THEN [others EXCEPT ![t].log = @ \o effect.log]
                ELSE [others EXCEPT ![t].alone = @ /\ effect.table = table]
  /\ reqs' = Append(reqs, NewRequest(t, effect.fails))
  /\ microtasks' = QueueMicrotask(microtasks, "request", Len(reqs) + 1)

\* _resolve, or the first half of _reject: 'error', whose listener may do anything.
Settle(r) ==
  /\ reqs' = [reqs EXCEPT ![r].told = Append(@, IF reqs[r].fails THEN "error" ELSE "success")]
  /\ rejecting' = IF reqs[r].fails THEN r ELSE 0
  /\ microtasks' = Tail(microtasks)
  /\ UNCHANGED <<version, table, opens, txs, cursors>>

\* The other half: it takes its transaction with it, if that is not over.
Reject ==
  /\ rejecting # 0
  /\ rejecting' = 0
  /\ LET t == reqs[rejecting].tx
     IN  IF Over(txs[t]) THEN UNCHANGED <<table, txs, microtasks>>
         ELSE RolledBack(t) /\ microtasks' = QueueMicrotask(microtasks, "failed", t)
  /\ UNCHANGED <<version, opens, reqs, cursors>>

-------------------------------------------------------------------------------
(* Cursors. *)

\* openCursor of the store, or of its index: what there is to see is found now.
OpenCursor(t, source, lower, dir) ==
  /\ Len(cursors) < MaxCursors
  /\ cursors' = Append(cursors, NewCursor(t, table, source, lower, dir))
  /\ microtasks' = QueueMicrotask(microtasks, "cursor", Len(cursors) + 1)
  /\ UNCHANGED <<version, table, opens, txs, reqs, rejecting>>

\* continue(), continue(key), advance(count): later.
CursorMoves(c, key, by) ==
  /\ cursors[c].told # <<>>
  /\ cursors[c].items # <<>>
  /\ microtasks' = Append(microtasks, [Microtask("move", c) EXCEPT !.key = key, !.by = by])
  /\ UNCHANGED <<version, table, opens, txs, reqs, cursors, rejecting>>

\* advance(count) of a count that is no whole number.
CursorStrays(c, by) ==
  /\ cursors[c].told # <<>>
  /\ cursors[c].items # <<>>
  /\ microtasks' = Append(microtasks, [Microtask("stray", c) EXCEPT !.by = by])
  /\ UNCHANGED <<version, table, opens, txs, reqs, cursors, rejecting>>

\* The request's success, with the cursor or null, if the microtask gets that far.
TellCursor(c, next) ==
  /\ cursors' = [cursors EXCEPT ![c] = next]
  /\ microtasks' = Tail(microtasks)
  /\ UNCHANGED <<version, table, opens, txs, reqs, rejecting>>

\* update(), delete(): of the row that was shown last.
CursorWrites(c) ==
  /\ cursors[c].told # <<>> /\ Stands(cursors[c])
  /\ LET k == Last(cursors[c].told).item.primary
     IN  \E effect \in Puts(k) \union {DeleteEffect(table, k)} :
           Request(cursors[c].tx, effect)
  /\ UNCHANGED <<version, opens, cursors, rejecting>>

-------------------------------------------------------------------------------
(* Either a new database, or one that is open, with every row or with none. *)
Init ==
  /\ \/ version = 0 /\ table = NoTable /\ opens = <<>>
     \/ /\ version = 1 /\ table \in [Keys -> Values] \union [Keys -> {None}]
        /\ opens = <<<<"success">>>>
  /\ microtasks = <<>> /\ txs = <<>> /\ reqs = <<>> /\ cursors = <<>>
  /\ rejecting = 0 /\ calls = 0

RunMicrotask ==
  /\ microtasks # <<>> /\ rejecting = 0
  /\ LET task == Head(microtasks)
         x == task.of
     IN  \/ task.kind = "upgrade"  /\ Upgrade(x)
         \/ task.kind = "opened"   /\ Opened(x)
         \/ task.kind = "begin"    /\ Begin(x)
         \/ task.kind = "complete" /\ Complete(x)
         \/ task.kind = "abort"    /\ TellAbort(x, <<"abort">>)
         \/ task.kind = "failed"   /\ TellAbort(x, <<"error", "abort">>)
         \/ task.kind = "request"  /\ Settle(x)
         \/ task.kind = "cursor"   /\ TellCursor(x, Shown(cursors[x], None, 1))
         \/ task.kind = "move"     /\ TellCursor(x, Moved(cursors[x], task.key, task.by))
         \/ task.kind = "stray"    /\ TellCursor(x, Strayed(cursors[x], task.by))

\* The program runs in tasks, in listeners, and in microtasks of its own.
Program ==
  \/ \E requested \in 1 .. 2 : Open(requested)
  \/ DeleteStore \/ DeleteDatabase
  \/ \E mode \in {"readonly", "readwrite"} : Transaction(mode)
  \/ \E t \in DOMAIN txs :
       \/ Abort(t)
       \/ /\ \E effect \in Effects : Request(t, effect)
          /\ UNCHANGED <<version, opens, cursors, rejecting>>
       \/ \E source \in {"store", "index"}, lower \in Keys, dir \in Directions :
            OpenCursor(t, source, lower, dir)
  \/ \E c \in DOMAIN cursors :
       \/ \E key \in Keys \union {None} : CursorMoves(c, key, 1)
       \/ CursorMoves(c, None, 2)
       \/ \E by \in {0, 1} : CursorStrays(c, by)
       \/ CursorWrites(c)

Next == \/ (RunMicrotask \/ Reject) /\ UNCHANGED calls
        \/ calls < MaxCalls /\ Program /\ calls' = calls + 1

Spec == Init /\ [][Next]_vars

-------------------------------------------------------------------------------
(* Properties. *)

\* A transaction that aborts, by abort() or by a request's error, leaves the rows
\* as it found them, whatever it did to them and in which order: as long as no
\* other one writes meanwhile, and it is not used, or aborted, when it is over.
Atomic ==
  \A t \in DOMAIN txs :
    txs[t].aborted /\ txs[t].alone /\ ~txs[t].late => txs[t].restored = txs[t].before

\* 'complete' comes after the outcome of every request made along with the
\* transaction, none of which is an error.
CompleteIsLast ==
  \A r \in DOMAIN reqs :
    LET tx == txs[reqs[r].tx]
    IN  reqs[r].early /\ "complete" \in Range(tx.told) => reqs[r].told = <<"success">>

\* A cursor shows, of the rows there were, the next one in its direction that was
\* asked for, each once, and null when there is none, until it goes astray.
CursorWalks ==
  \A c \in DOMAIN cursors :
    ~cursors[c].astray => \A i \in DOMAIN cursors[c].told : IsNext(cursors[c], i)

===============================================================================
