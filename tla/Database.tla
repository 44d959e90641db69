------------------------------ MODULE Database ------------------------------
(***************************************************************************)
(* pkg/db/db.go and pkg/db/dao/repository.go: the registry of database     *)
(* connections with InitDB, GetDB and CloseDB, and what is done with a     *)
(* connection that was got from it: single statements, transactions and    *)
(* walks over a table page by page.  A repository keeps the connection it  *)
(* was built with.                                                         *)
(*                                                                         *)
(* Opening and closing happen outside the registry's lock.  The database   *)
(* behind the connections is one table.  Rows are known by their primary   *)
(* key, which is drawn when a row is inserted; the rows of a transaction   *)
(* appear when it commits.  No query asks for an order: `keyed` says       *)
(* whether this database gives rows in the order of their key unasked.     *)
(* A statement may always fail.                                            *)
(***************************************************************************)
EXTENDS Integers, FiniteSets

CONSTANTS
  Callers,
  Names,       \* connection names
  MaxRetries,  \* attempts to open a connection
  PageSize,
  MaxOpen,     \* MaxOpenConns: statements and transactions at a time
  FirstRows,   \* rows of the table at the start
  MaxConns,    \* bound: connections opened
  MaxRows      \* bound: primary keys drawn

ASSUME DatabaseAssumption ==
  /\ IsFiniteSet(Callers) /\ IsFiniteSet(Names)
  /\ MaxRetries \in Nat \ {0} /\ PageSize \in Nat \ {0} /\ MaxOpen \in Nat \ {0}
  /\ FirstRows \in Nat /\ MaxConns \in Nat /\ MaxRows \in Nat /\ FirstRows <= MaxRows

VARIABLES
  registry,  \* dbConnections: the connection of each name, or None
  conn,      \* "new", "open", "closed", or "dropped": open, and lost sight of
  repo,      \* the connection of each caller's repository, or None
  call,      \* what each caller is doing
  rows,      \* the committed rows
  drawn,     \* primary keys drawn
  keyed,     \* does the database give rows in the order of their key
  slots      \* the callers that keep a connection of each pool busy

vars == <<registry, conn, repo, call, rows, drawn, keyed, slots>>
data == <<rows, drawn, keyed>>

----------------------------------------------------------------------------
None  == 0
Conns == 1..MaxConns
Rows  == 1..MaxRows
Idle  == [at |-> "idle", name |-> "", conn |-> None, n |-> 0, todo |-> {}, new |-> {},
          base |-> {}, met |-> 0, seen |-> [r \in Rows |-> 0], walk |-> FALSE, steady |-> TRUE]

(* The type invariant. *)
TypeOK ==
  /\ registry \in [Names -> Conns \union {None}]
  /\ conn \in [Conns -> {"new", "open", "closed", "dropped"}]
  /\ repo \in [Callers -> Conns \union {None}]
  /\ call \in [Callers ->
       [at : {"idle", "open", "register", "discard", "close", "use", "tx", "page", "done"},
        name : Names \union {""}, conn : Conns \union {None},
        n : Nat,                                \* attempts, or the page
        todo : SUBSET Conns,                    \* connections to close
        new : SUBSET Rows,                      \* rows of the transaction
        base : SUBSET Rows, met : Nat,          \* a walk: the rows counted, how many records
        seen : [Rows -> Nat],                   \* it has been given, and each row how often
        walk : BOOLEAN, steady : BOOLEAN]]      \* is it one; has nothing shifted under it
  /\ rows \subseteq Rows /\ drawn \in 0..MaxRows /\ keyed \in BOOLEAN
  /\ slots \in [Conns -> SUBSET Callers]
  /\ \A c \in Conns : Cardinality(slots[c]) <= MaxOpen

Init ==
  /\ registry = [n \in Names |-> None] /\ conn = [c \in Conns |-> "new"]
  /\ repo = [p \in Callers |-> None] /\ call = [p \in Callers |-> Idle]
  /\ rows = 1..FirstRows /\ drawn = FirstRows /\ keyed \in BOOLEAN
  /\ slots = [c \in Conns |-> {}]

At(p, place) == call[p].at = place
Goes(p, to)  == call' = [call EXCEPT ![p] = to]
Return(p)    == Goes(p, Idle)
Close(c)     == conn' = [conn EXCEPT ![c] = "closed"]
Drop(c)      == conn' = [conn EXCEPT ![c] = "dropped"]

----------------------------------------------------------------------------
(* InitDB: the quick check under the read lock ... *)
CheckName(p, n) ==
  /\ At(p, "idle") /\ registry[n] = None
  /\ Goes(p, [Idle EXCEPT !.at = "open", !.name = n])
  /\ UNCHANGED <<registry, conn, repo, data, slots>>

(* ... the attempts to open a connection, without a lock.  gorm.Open may fail at
   its ping and leave the pool it made to nobody, and so does an error of db.DB()
   after it, which ends the call ... *)
NextTry(p)  == [call[p] EXCEPT !.n = @ + 1]
TryAgain(p) == IF call[p].n + 1 < MaxRetries THEN Goes(p, NextTry(p)) ELSE Return(p)

Open(p) ==
  /\ At(p, "open")
  /\ \/ \E c \in Conns :
          /\ conn[c] = "new" /\ \A d \in Conns : conn[d] = "new" => c <= d
          /\ \/ /\ conn' = [conn EXCEPT ![c] = "open"]
                /\ Goes(p, [call[p] EXCEPT !.at = "register", !.conn = c])
             \/ Drop(c) /\ (TryAgain(p) \/ Return(p))
     \/ TryAgain(p) /\ UNCHANGED conn
  /\ UNCHANGED <<registry, repo, data, slots>>

(* ... and the registration under the lock, with a second look.  The connection
   that comes second is closed after the unlock.
   Mutants: no second look; the connection that comes second is dropped. *)
Untaken(p) == FALSE
Taken(p) == registry[call[p].name] # None
Keeps(p) == Return(p)
Discards(p) == Goes(p, [call[p] EXCEPT !.at = "discard"])

Register(p) ==
  /\ At(p, "register")
  /\ IF Taken(p) THEN Discards(p) /\ UNCHANGED registry
     ELSE registry' = [registry EXCEPT ![call[p].name] = call[p].conn] /\ Return(p)
  /\ UNCHANGED <<conn, repo, data, slots>>

Discard(p) ==
  /\ At(p, "discard") /\ Close(call[p].conn) /\ Return(p)
  /\ UNCHANGED <<registry, repo, data, slots>>

(* CloseDB takes the registry down, then closes what was in it, in any order.  One
   that db.DB() gives an error for is left as it is; an error of Close, which has
   closed the pool all the same, is logged. *)
Detach(p) ==
  /\ At(p, "idle") /\ registry' = [n \in Names |-> None]
  /\ Goes(p, [Idle EXCEPT !.at = "close", !.todo = {registry[n] : n \in Names} \ {None}])
  /\ UNCHANGED <<conn, repo, data, slots>>

CloseNext(p) ==
  /\ At(p, "close")
  /\ IF call[p].todo = {} THEN Return(p) /\ UNCHANGED conn
     ELSE \E c \in call[p].todo : (Close(c) \/ Drop(c)) /\ Goes(p, [call[p] EXCEPT !.todo = @ \ {c}])
  /\ UNCHANGED <<registry, repo, data, slots>>

----------------------------------------------------------------------------
(* NewBaseRepository with what GetDB returned. *)
NewRepository(p, n) ==
  /\ At(p, "idle") /\ registry[n] # None /\ repo' = [repo EXCEPT ![p] = registry[n]]
  /\ UNCHANGED <<registry, conn, call, data, slots>>

(* A function of package db looks the connection up; a method of the repository
   has it.  Bad arguments are refused before anything happens. *)
Use(p) ==
  /\ At(p, "idle")
  /\ \E c \in ({repo[p]} \union {registry[n] : n \in Names}) \ {None} :
       Goes(p, [Idle EXCEPT !.at = "use", !.conn = c])
  /\ UNCHANGED <<registry, conn, repo, data, slots>>

(* A statement of p's connection gets through to the database. *)
Through(p) ==
  LET c == call[p].conn IN conn[c] \in {"open", "dropped"} /\ Cardinality(slots[c]) < MaxOpen

(* It fails, in the database or because the connection is closed. *)
Fails(p) ==
  /\ At(p, "use") \/ At(p, "page")
  /\ Through(p) \/ conn[call[p].conn] = "closed"
  /\ Return(p)
  /\ UNCHANGED <<registry, conn, repo, data, slots>>

(* The table changes.  A walk is disturbed by a row that goes, or that appears
   before another. *)
Change(new, p, to) ==
  LET shifts == (rows \ new) # {} \/ \E r \in new \ rows, s \in rows : r < s IN
  /\ rows' = new
  /\ call' = [q \in Callers |->
                IF q = p THEN to
                ELSE IF shifts /\ call[q].walk THEN [call[q] EXCEPT !.steady = FALSE]
                ELSE call[q]]

(* Create, Save of a new row. *)
Insert(p) == drawn < MaxRows /\ drawn' = drawn + 1 /\ Change(rows \union {drawn'}, p, Idle)

(* Delete, DeleteByID. *)
DeleteRows(p) == \E some \in (SUBSET rows) \ {{}} : Change(rows \ some, p, Idle) /\ UNCHANGED drawn

(* Updates and reads leave the set of rows alone. *)
Look(p) == Return(p) /\ UNCHANGED <<rows, drawn>>

(* The batch methods, Exec and Query are statements of the same three sorts. *)
Statement(p) ==
  /\ At(p, "use") /\ Through(p) /\ (Insert(p) \/ DeleteRows(p) \/ Look(p))
  /\ UNCHANGED <<registry, conn, repo, keyed, slots>>

----------------------------------------------------------------------------
(* ExecuteInTransaction and WithTransaction.  The transaction keeps its
   connection, and goes on if the pool is closed meanwhile. *)
Begin(p) ==
  LET c == call[p].conn IN
  /\ At(p, "use") /\ Through(p) /\ slots' = [slots EXCEPT ![c] = @ \union {p}]
  /\ Goes(p, [call[p] EXCEPT !.at = "tx"])
  /\ UNCHANGED <<registry, conn, repo, data>>

InsertInTx(p) ==
  /\ At(p, "tx") /\ drawn < MaxRows /\ drawn' = drawn + 1
  /\ Goes(p, [call[p] EXCEPT !.new = @ \union {drawn'}])
  /\ UNCHANGED <<registry, conn, repo, rows, keyed, slots>>

Release(p) == slots' = [c \in Conns |-> slots[c] \ {p}]

(* The function returned nil: commit, which may fail and then leaves nothing. *)
Commit(p) ==
  /\ At(p, "tx") /\ Release(p)
  /\ \/ Change(rows \union call[p].new, p, Idle)
     \/ Return(p) /\ UNCHANGED rows
  /\ UNCHANGED <<registry, conn, repo, drawn, keyed>>

(* It returned an error or panicked: rollback. *)
Rollback(p) ==
  /\ At(p, "tx") /\ Return(p) /\ Release(p)
  /\ UNCHANGED <<registry, conn, repo, data>>

----------------------------------------------------------------------------
(* PaginateQuery counts the rows and reads page after page.  FindWithPagination and
   QueryWithPagination count them and read one page, whichever it is. *)
Count(p) ==
  /\ At(p, "use") /\ Through(p)
  /\ \/ Goes(p, [call[p] EXCEPT !.at = "page", !.n = 1, !.walk = TRUE, !.base = rows])
     \/ Goes(p, [call[p] EXCEPT !.at = "page"])
  /\ UNCHANGED <<registry, conn, repo, data, slots>>

(* Limit and Offset: so many rows, of an order that the statement does not name. *)
Places(n) == ((n - 1) * PageSize + 1 .. n * PageSize) \intersect (1..Cardinality(rows))
Place(r)  == Cardinality({s \in rows : s <= r})
Pages(n)  == {page \in SUBSET rows :
                /\ Cardinality(page) = Cardinality(Places(n))
                /\ keyed => page = {r \in rows : Place(r) \in Places(n)}}

(* Mutant of Ends: the page number is advanced first. *)
EndsEarly(n, total) == (n + 1) * PageSize >= total
Ends(n, total) == n * PageSize >= total

ReadPage(p) ==
  /\ At(p, "page") /\ Through(p)
  /\ IF ~call[p].walk THEN Return(p)
     ELSE \E page \in Pages(call[p].n) :
            LET over == page = {} \/ Ends(call[p].n, Cardinality(call[p].base)) IN
            Goes(p, [call[p] EXCEPT
                       !.seen = [r \in Rows |-> IF r \in page THEN @[r] + 1 ELSE @[r]],
                       !.met = @ + Cardinality(page),
                       !.n = @ + 1, !.at = IF over THEN "done" ELSE "page"])
  /\ UNCHANGED <<registry, conn, repo, data, slots>>

Done(p) == At(p, "done") /\ Return(p) /\ UNCHANGED <<registry, conn, repo, data, slots>>

----------------------------------------------------------------------------
InTx(p) == InsertInTx(p) \/ Commit(p) \/ Rollback(p)
OnPool(p) == Statement(p) \/ Begin(p) \/ Count(p) \/ ReadPage(p)
Alone(p) == Open(p) \/ Register(p) \/ Discard(p) \/ CloseNext(p) \/ Done(p)

Next == \E p \in Callers :
  \/ \E n \in Names : CheckName(p, n) \/ NewRepository(p, n)
  \/ Detach(p) \/ Use(p)
  \/ Alone(p) \/ OnPool(p) \/ Fails(p) \/ InTx(p)

Spec == Init /\ [][Next]_vars

----------------------------------------------------------------------------
(* The open connections are those that are registered, and those in the hands of
   the InitDB that opened them or the CloseDB that will close them; the others
   were dropped by an error of gorm.Open or db.DB().  No interleaving of these calls
   leaves a connection open that nobody can close, or closes one that GetDB still
   hands out. *)
InHand(p, c) ==
  \/ (At(p, "register") \/ At(p, "discard")) /\ call[p].conn = c
  \/ At(p, "close") /\ c \in call[p].todo

NoLeak ==
  \A c \in Conns :
    conn[c] = "open" <=> (\E n \in Names : registry[n] = c) \/ (\E p \in Callers : InHand(p, c))

(* A registered connection is never replaced by another: who has asked GetDB for
   it keeps it until CloseDB. *)
NeverReplaced == [][\A n \in Names : registry[n] # None => registry'[n] \in {registry[n], None}]_vars

(* In a database that gives rows in the order of their key, a finished walk has seen
   every row that was there when it counted exactly once, unless a row went or one
   appeared before another meanwhile, as the rows of a transaction do that
   commits late. *)
WalkComplete ==
  \A p \in Callers :
    LET w == call[p] IN
    keyed /\ At(p, "done") /\ w.walk /\ w.steady =>
      \A r \in Rows : w.seen[r] <= 1 /\ (r \in w.base => w.seen[r] = 1)

(* In any database, a finished walk was given as many records as it had counted, and
   at most a page more, unless one of the rows it counted has been deleted. *)
WalkCounts ==
  \A p \in Callers :
    LET w == call[p] IN
    At(p, "done") /\ w.walk /\ w.base \subseteq rows =>
      Cardinality(w.base) <= w.met /\ w.met <= Cardinality(w.base) + PageSize
=============================================================================
