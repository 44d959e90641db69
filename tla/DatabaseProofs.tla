--------------------------- MODULE DatabaseProofs ---------------------------
(***************************************************************************)
(* Proofs about Database, for any number of callers, names, connections    *)
(* and rows.                                                               *)
(*                                                                         *)
(* Every open connection has an owner, and only one: the registry, or one  *)
(* caller that is about to register, discard or close it.  A caller can    *)
(* therefore close what is in its hands without taking it from GetDB.      *)
(* The walk over the pages is proved from how the rank of a row among the  *)
(* others changes.                                                         *)
(***************************************************************************)
EXTENDS Database, FiniteSetTheorems, TLAPS

OneOwner ==
  /\ \A p \in Callers, c \in Conns : InHand(p, c) =>
       conn[c] = "open" /\ \A n \in Names : registry[n] # c
  /\ \A p, q \in Callers, c \in Conns : InHand(p, c) /\ InHand(q, c) => p = q

(* An InitDB under way knows its name, and its connection once it is open. *)
Opening ==
  \A p \in Callers :
    /\ call[p].at \in {"open", "register"} => call[p].name \in Names
    /\ call[p].at \in {"register", "discard"} => call[p].conn \in Conns

DInv == TypeOK /\ NoLeak /\ OneOwner /\ Opening

Calls ==
  [at : {"idle", "open", "register", "discard", "close", "use", "tx", "page", "done"},
   name : Names \union {""}, conn : Conns \union {None}, n : Nat, todo : SUBSET Conns,
   new : SUBSET Rows, base : SUBSET Rows, met : Nat, seen : [Rows -> Nat], walk : BOOLEAN, steady : BOOLEAN]

LEMMA CallsType == TypeOK => call \in [Callers -> Calls]
  BY DEF TypeOK, Calls

LEMMA IdleType == Idle \in Calls
  BY DEF Idle, Calls, None

LEMMA DInit == Init => DInv
<1>. SUFFICES ASSUME Init PROVE DInv
  OBVIOUS
<1>1. call \in [Callers -> Calls]
  BY IdleType DEF Init
<1>2. Cardinality({}) = 0
  BY FS_EmptySet
<1>3. /\ registry \in [Names -> Conns \union {None}] /\ conn \in [Conns -> {"new", "open", "closed", "dropped"}]
      /\ repo \in [Callers -> Conns \union {None}] /\ slots \in [Conns -> SUBSET Callers]
  BY DEF Init
<1>4. rows \subseteq Rows /\ drawn \in 0..MaxRows /\ keyed \in BOOLEAN
  BY DatabaseAssumption DEF Init, Rows
<1>5. \A c \in Conns : Cardinality(slots[c]) <= MaxOpen
  BY <1>2, DatabaseAssumption DEF Init
<1>6. TypeOK
  BY <1>1, <1>3, <1>4, <1>5 DEF TypeOK, Calls
<1>7. \A p \in Callers, c \in Conns : ~InHand(p, c)
  BY DEF Init, InHand, At, Idle
<1>8. Opening
  BY DEF Init, Opening, Idle
<1>9. NoLeak
  BY <1>7 DEF Init, NoLeak, None, Conns
<1>10. OneOwner
  BY <1>7 DEF OneOwner
<1>. QED BY <1>6, <1>8, <1>9, <1>10 DEF DInv

(* What a caller's place in its code says about the connections in its hands. *)
Handless == {"idle", "open", "use", "tx", "page", "done"}

(* A step that leaves registry and connections alone, and hands nobody anything. *)
LEMMA Untouched ==
  ASSUME NoLeak, OneOwner, UNCHANGED <<registry, conn>>,
         \A q \in Callers :
           \/ call[q].at \in Handless /\ call'[q].at \in Handless
           \/ call'[q].at = call[q].at /\ call'[q].conn = call[q].conn /\ call'[q].todo = call[q].todo
  PROVE  NoLeak' /\ OneOwner'
<1>1. ASSUME NEW q \in Callers, NEW c \in Conns PROVE InHand(q, c)' <=> InHand(q, c)
  <2>1. CASE call[q].at \in Handless /\ call'[q].at \in Handless
    BY <2>1 DEF InHand, At, Handless
  <2>2. CASE call'[q].at = call[q].at /\ call'[q].conn = call[q].conn /\ call'[q].todo = call[q].todo
    BY <2>2 DEF InHand, At
  <2>. QED BY <2>1, <2>2
<1>2. NoLeak'
  BY <1>1 DEF NoLeak
<1>3. OneOwner'
  BY <1>1 DEF OneOwner
<1>. QED BY <1>2, <1>3

(* The same when one caller's record is replaced. *)
LEMMA OneGoes ==
  ASSUME TypeOK, NoLeak, OneOwner, UNCHANGED <<registry, conn>>, NEW p \in Callers, NEW to \in Calls,
         Goes(p, to), call[p].at \in Handless, to.at \in Handless
  PROVE  NoLeak' /\ OneOwner'
<1>1. \A q \in Callers : call'[q] = IF q = p THEN to ELSE call[q]
  BY DEF TypeOK, Goes
<1>. QED BY <1>1, Untouched

----------------------------------------------------------------------------
(* Types. *)
Typed ==
  /\ registry \in [Names -> Conns \union {None}] /\ conn \in [Conns -> {"new", "open", "closed", "dropped"}]
  /\ repo \in [Callers -> Conns \union {None}] /\ call \in [Callers -> Calls]
  /\ rows \subseteq Rows /\ drawn \in 0..MaxRows /\ keyed \in BOOLEAN
  /\ slots \in [Conns -> SUBSET Callers] /\ \A c \in Conns : Cardinality(slots[c]) <= MaxOpen

LEMMA TypedIsType == TypeOK <=> Typed
  BY DEF TypeOK, Typed, Calls

LEMMA GoesType ==
  ASSUME Typed, NEW p \in Callers, NEW to \in Calls, Goes(p, to)
  PROVE  call' \in [Callers -> Calls] /\ call'[p] = to /\ \A q \in Callers : q # p => call'[q] = call[q]
  BY DEF Typed, Goes

LEMMA ReturnType ==
  ASSUME Typed, NEW p \in Callers, Return(p)
  PROVE  call' \in [Callers -> Calls] /\ call'[p] = Idle /\ \A q \in Callers : q # p => call'[q] = call[q]
  BY IdleType, GoesType DEF Return

LEMMA CloseType ==
  ASSUME Typed, NEW c \in Conns, Close(c) \/ Drop(c)
  PROVE  conn' \in [Conns -> {"new", "open", "closed", "dropped"}]
  BY DEF Typed, Close, Drop

LEMMA CheckNameType ==
  ASSUME Typed, NEW p \in Callers, NEW n \in Names, CheckName(p, n)
  PROVE  Typed'
<1>1. [Idle EXCEPT !.at = "open", !.name = n] \in Calls
  BY IdleType DEF Calls
<1>2. call' \in [Callers -> Calls]
  BY <1>1, GoesType DEF CheckName
<1>. QED BY <1>2 DEF Typed, CheckName, data

LEMMA NextTryType ==
  ASSUME NEW p \in Callers, call[p] \in Calls
  PROVE  NextTry(p) \in Calls /\ NextTry(p).at = call[p].at
<1>0. call[p].n \in Nat
  BY DEF Calls
<1>1. call[p].n + 1 \in Nat
  BY <1>0
<1>. QED BY <1>1 DEF NextTry, Calls

(* What an attempt does: it opens, it leaves a pool behind, or nothing. *)
Opens(p, c) ==
  /\ conn[c] = "new" /\ conn' = [conn EXCEPT ![c] = "open"]
  /\ Goes(p, [call[p] EXCEPT !.at = "register", !.conn = c])

LEMMA OpenCases ==
  ASSUME NEW p \in Callers, Open(p)
  PROVE  \/ \E c \in Conns : Opens(p, c)
         \/ /\ Goes(p, NextTry(p)) \/ Return(p)
            /\ UNCHANGED conn \/ \E c \in Conns : conn[c] = "new" /\ Drop(c)
BY DEF Open, Opens, TryAgain

LEMMA OpenType ==
  ASSUME Typed, NEW p \in Callers, Open(p)
  PROVE  Typed'
<1>0. call[p] \in Calls
  BY DEF Typed
<1>1. CASE \E c \in Conns : Opens(p, c)
  <2>1. PICK c \in Conns : Opens(p, c)
    BY <1>1
  <2>2. [call[p] EXCEPT !.at = "register", !.conn = c] \in Calls
    BY <1>0 DEF Calls
  <2>3. call' \in [Callers -> Calls]
    BY <2>1, <2>2, GoesType DEF Opens
  <2>. QED BY <2>1, <2>3 DEF Typed, Open, Opens, data
<1>2. CASE /\ Goes(p, NextTry(p)) \/ Return(p)
           /\ UNCHANGED conn \/ \E c \in Conns : conn[c] = "new" /\ Drop(c)
  <2>1. call' \in [Callers -> Calls]
    BY <1>0, <1>2, NextTryType, GoesType, ReturnType
  <2>2. conn' \in [Conns -> {"new", "open", "closed", "dropped"}]
    BY <1>2 DEF Typed, Drop
  <2>. QED BY <2>1, <2>2 DEF Typed, Open, data
<1>. QED BY <1>1, <1>2, OpenCases

LEMMA RegisterType ==
  ASSUME Typed, NEW p \in Callers, Register(p)
  PROVE  Typed'
<1>0. call[p] \in Calls
  BY DEF Typed
<1>1. CASE Discards(p) /\ UNCHANGED registry
  <2>1. [call[p] EXCEPT !.at = "discard"] \in Calls
    BY <1>0 DEF Calls
  <2>2. call' \in [Callers -> Calls]
    BY <1>1, <2>1, GoesType DEF Discards
  <2>. QED BY <1>1, <2>2 DEF Typed, Register, data
<1>2. CASE registry' = [registry EXCEPT ![call[p].name] = call[p].conn] /\ Return(p)
  <2>1. call' \in [Callers -> Calls]
    BY <1>2, ReturnType
  <2>2. registry' \in [Names -> Conns \union {None}]
    BY <1>0, <1>2 DEF Typed, Calls
  <2>. QED BY <2>1, <2>2 DEF Typed, Register, data
<1>. QED BY <1>1, <1>2 DEF Register

LEMMA DetachType ==
  ASSUME Typed, NEW p \in Callers, Detach(p)
  PROVE  Typed'
<1>1. {registry[n] : n \in Names} \ {None} \in SUBSET Conns
  BY DEF Typed
<1>2. [Idle EXCEPT !.at = "close", !.todo = {registry[n] : n \in Names} \ {None}] \in Calls
  BY <1>1, IdleType DEF Calls
<1>3. call' \in [Callers -> Calls]
  BY <1>2, GoesType DEF Detach
<1>4. registry' \in [Names -> Conns \union {None}]
  BY DEF Detach
<1>. QED BY <1>3, <1>4 DEF Typed, Detach, data

LEMMA CloseNextType ==
  ASSUME Typed, NEW p \in Callers, CloseNext(p)
  PROVE  Typed'
<1>0. call[p] \in Calls
  BY DEF Typed
<1>1. CASE Return(p) /\ UNCHANGED conn
  <2>1. call' \in [Callers -> Calls]
    BY <1>1, ReturnType
  <2>. QED BY <1>1, <2>1 DEF Typed, CloseNext, data
<1>2. CASE \E c \in call[p].todo : (Close(c) \/ Drop(c)) /\ Goes(p, [call[p] EXCEPT !.todo = @ \ {c}])
  <2>1. PICK c \in call[p].todo : (Close(c) \/ Drop(c)) /\ Goes(p, [call[p] EXCEPT !.todo = @ \ {c}])
    BY <1>2
  <2>2. [call[p] EXCEPT !.todo = @ \ {c}] \in Calls /\ c \in Conns
    BY <1>0 DEF Calls
  <2>3. call' \in [Callers -> Calls] /\ conn' \in [Conns -> {"new", "open", "closed", "dropped"}]
    BY <2>1, <2>2, GoesType, CloseType
  <2>. QED BY <2>3 DEF Typed, CloseNext, data
<1>. QED BY <1>1, <1>2 DEF CloseNext

(* The callers that use a connection. *)
LEMMA ChangeType ==
  ASSUME Typed, NEW new \in SUBSET Rows, NEW p \in Callers, NEW to \in Calls, Change(new, p, to)
  PROVE  /\ rows' \subseteq Rows /\ call' \in [Callers -> Calls] /\ call'[p] = to
         /\ \A q \in Callers \ {p} : /\ call'[q].at = call[q].at /\ call'[q].conn = call[q].conn
                                     /\ call'[q].todo = call[q].todo /\ call'[q].name = call[q].name
<1>1. \A q \in Callers : call[q] \in Calls
  BY DEF Typed
<1>2. \A q \in Callers : [call[q] EXCEPT !.steady = FALSE] \in Calls
  BY <1>1 DEF Calls
<1>3. PICK shifts \in BOOLEAN :
        call' = [q \in Callers |-> IF q = p THEN to
                                   ELSE IF shifts /\ call[q].walk THEN [call[q] EXCEPT !.steady = FALSE]
                                   ELSE call[q]]
  BY DEF Change
<1>4. call' \in [Callers -> Calls]
  BY <1>1, <1>2, <1>3
<1>5. \A q \in Callers \ {p} : call'[q] = call[q] \/ call'[q] = [call[q] EXCEPT !.steady = FALSE]
  BY <1>3
<1>6. \A q \in Callers \ {p} : /\ call'[q].at = call[q].at /\ call'[q].conn = call[q].conn
                               /\ call'[q].todo = call[q].todo /\ call'[q].name = call[q].name
  BY <1>1, <1>5 DEF Calls
<1>. QED BY <1>3, <1>4, <1>6 DEF Change

LEMMA UseType ==
  ASSUME Typed, NEW p \in Callers, Use(p)
  PROVE  Typed'
<1>1. PICK c \in ({repo[p]} \union {registry[n] : n \in Names}) \ {None} :
        Goes(p, [Idle EXCEPT !.at = "use", !.conn = c])
  BY DEF Use
<1>2. c \in Conns
  BY DEF Typed
<1>3. [Idle EXCEPT !.at = "use", !.conn = c] \in Calls
  BY <1>2, IdleType DEF Calls
<1>4. call' \in [Callers -> Calls]
  BY <1>1, <1>3, GoesType
<1>. QED BY <1>4 DEF Typed, Use, data

LEMMA StatementType ==
  ASSUME Typed, NEW p \in Callers, Statement(p)
  PROVE  Typed'
<1>1. CASE Insert(p)
  <2>1. drawn' \in Rows /\ drawn' \in 0..MaxRows
    BY <1>1, DatabaseAssumption DEF Typed, Insert, Rows
  <2>2. rows \union {drawn'} \in SUBSET Rows
    BY <2>1 DEF Typed
  <2>3. rows' \subseteq Rows /\ call' \in [Callers -> Calls]
    BY <1>1, <2>2, IdleType, ChangeType DEF Insert
  <2>. QED BY <2>1, <2>3 DEF Typed, Statement
<1>2. CASE DeleteRows(p)
  <2>1. PICK some \in (SUBSET rows) \ {{}} : Change(rows \ some, p, Idle) /\ UNCHANGED drawn
    BY <1>2 DEF DeleteRows
  <2>2. rows \ some \in SUBSET Rows
    BY DEF Typed
  <2>3. rows' \subseteq Rows /\ call' \in [Callers -> Calls]
    BY <2>1, <2>2, IdleType, ChangeType
  <2>. QED BY <2>1, <2>3 DEF Typed, Statement
<1>3. CASE Look(p)
  <2>1. call' \in [Callers -> Calls]
    BY <1>3, ReturnType DEF Look
  <2>. QED BY <1>3, <2>1 DEF Typed, Statement, Look
<1>. QED BY <1>1, <1>2, <1>3 DEF Statement

LEMMA BeginType ==
  ASSUME Typed, NEW p \in Callers, Begin(p)
  PROVE  Typed'
<1>0. call[p] \in Calls
  BY DEF Typed
<1>1. [call[p] EXCEPT !.at = "tx"] \in Calls
  BY <1>0 DEF Calls
<1>2. call' \in [Callers -> Calls]
  BY <1>1, GoesType DEF Begin
<1>3. slots' \in [Conns -> SUBSET Callers]
  BY DEF Typed, Begin
<1>4. ASSUME NEW c \in Conns PROVE Cardinality(slots'[c]) <= MaxOpen
  <2>1. CASE c = call[p].conn
    <3>1. IsFiniteSet(slots[c]) /\ slots'[c] = slots[c] \union {p} /\ Cardinality(slots[c]) < MaxOpen
      BY <2>1, DatabaseAssumption, FS_Subset DEF Typed, Begin, Through
    <3>2. Cardinality(slots[c]) \in Nat
      BY <3>1, FS_CardinalityType
    <3>3. Cardinality(slots[c] \union {p}) \in {Cardinality(slots[c]), Cardinality(slots[c]) + 1}
      BY <3>1, FS_AddElement
    <3>. QED BY <3>1, <3>2, <3>3, DatabaseAssumption
  <2>2. CASE c # call[p].conn
    BY <2>2 DEF Typed, Begin
  <2>. QED BY <2>1, <2>2
<1>. QED BY <1>2, <1>3, <1>4 DEF Typed, Begin, data

LEMMA ReleaseType ==
  ASSUME Typed, NEW p \in Callers, Release(p)
  PROVE  slots' \in [Conns -> SUBSET Callers] /\ \A c \in Conns : Cardinality(slots'[c]) <= MaxOpen
<1>1. ASSUME NEW c \in Conns PROVE Cardinality(slots'[c]) <= MaxOpen
  <2>1. IsFiniteSet(slots[c]) /\ slots'[c] \subseteq slots[c] /\ Cardinality(slots[c]) <= MaxOpen
    BY DatabaseAssumption, FS_Subset DEF Typed, Release
  <2>2. Cardinality(slots'[c]) <= Cardinality(slots[c]) /\ IsFiniteSet(slots'[c])
    BY <2>1, FS_Subset
  <2>. QED BY <2>1, <2>2, FS_CardinalityType, DatabaseAssumption
<1>. QED BY <1>1 DEF Typed, Release

LEMMA InTxType ==
  ASSUME Typed, NEW p \in Callers, InTx(p)
  PROVE  Typed'
<1>0. call[p] \in Calls
  BY DEF Typed
<1>1. CASE InsertInTx(p)
  <2>1. drawn' \in Rows /\ drawn' \in 0..MaxRows
    BY <1>1, DatabaseAssumption DEF Typed, InsertInTx, Rows
  <2>2. [call[p] EXCEPT !.new = @ \union {drawn'}] \in Calls
    BY <1>0, <2>1 DEF Calls
  <2>3. call' \in [Callers -> Calls]
    BY <1>1, <2>2, GoesType DEF InsertInTx
  <2>. QED BY <1>1, <2>1, <2>3 DEF Typed, InsertInTx
<1>2. CASE Commit(p)
  <2>1. slots' \in [Conns -> SUBSET Callers] /\ \A c \in Conns : Cardinality(slots'[c]) <= MaxOpen
    BY <1>2, ReleaseType DEF Commit
  <2>2. rows \union call[p].new \in SUBSET Rows
    BY <1>0 DEF Typed, Calls
  <2>3. rows' \subseteq Rows /\ call' \in [Callers -> Calls]
    <3>1. CASE Change(rows \union call[p].new, p, Idle)
      BY <3>1, <2>2, IdleType, ChangeType
    <3>2. CASE Return(p) /\ UNCHANGED rows
      BY <3>2, ReturnType DEF Typed
    <3>. QED BY <1>2, <3>1, <3>2 DEF Commit
  <2>. QED BY <1>2, <2>1, <2>3 DEF Typed, Commit
<1>3. CASE Rollback(p)
  <2>1. slots' \in [Conns -> SUBSET Callers] /\ \A c \in Conns : Cardinality(slots'[c]) <= MaxOpen
    BY <1>3, ReleaseType DEF Rollback
  <2>2. call' \in [Callers -> Calls]
    BY <1>3, ReturnType DEF Rollback
  <2>. QED BY <1>3, <2>1, <2>2 DEF Typed, Rollback, data
<1>. QED BY <1>1, <1>2, <1>3 DEF InTx

LEMMA RowsFinite ==
  ASSUME NEW S \in SUBSET Rows
  PROVE  IsFiniteSet(S) /\ Cardinality(S) \in Nat
<1>1. IsFiniteSet(Rows)
  BY DatabaseAssumption, FS_Interval DEF Rows
<1>. QED BY <1>1, FS_Subset, FS_CardinalityType

(* A walk after one more page. *)
Turned(p, page, place) ==
  [call[p] EXCEPT !.seen = [r \in Rows |-> IF r \in page THEN call[p].seen[r] + 1 ELSE call[p].seen[r]],
                  !.met = call[p].met + Cardinality(page), !.n = call[p].n + 1, !.at = place]

Over(p, page) == page = {} \/ Ends(call[p].n, Cardinality(call[p].base))

LEMMA PageTurned ==
  ASSUME NEW p \in Callers, ReadPage(p)
  PROVE  \/ ~call[p].walk /\ Return(p)
         \/ /\ call[p].walk
            /\ \E page \in Pages(call[p].n), place \in {"done", "page"} :
                 /\ Goes(p, Turned(p, page, place))
                 /\ place = IF Over(p, page) THEN "done" ELSE "page"
BY DEF ReadPage, Turned, Over

LEMMA WalkType ==
  ASSUME Typed, NEW p \in Callers, Count(p) \/ ReadPage(p) \/ Done(p) \/ Fails(p) \/ Discard(p)
  PROVE  Typed'
<1>0. call[p] \in Calls
  BY DEF Typed
<1>1. CASE Count(p)
  <2>1. [call[p] EXCEPT !.at = "page", !.n = 1, !.walk = TRUE, !.base = rows] \in Calls
    BY <1>0 DEF Calls, Typed
  <2>2. [call[p] EXCEPT !.at = "page"] \in Calls
    BY <1>0 DEF Calls
  <2>3. call' \in [Callers -> Calls]
    BY <1>1, <2>1, <2>2, GoesType DEF Count
  <2>. QED BY <1>1, <2>3 DEF Typed, Count, data
<1>2. CASE ReadPage(p)
  <2>0. call[p].n \in Nat /\ call[p].seen \in [Rows -> Nat] /\ call[p].met \in Nat
    BY <1>0 DEF Calls
  <2>1. ASSUME NEW page \in Pages(call[p].n), NEW place \in {"done", "page"}
        PROVE  Turned(p, page, place) \in Calls
    <3>1. page \in SUBSET Rows
      BY DEF Pages, Typed
    <3>2. Cardinality(page) \in Nat
      BY <3>1, RowsFinite
    <3>3. call[p].n + 1 \in Nat /\ call[p].met + Cardinality(page) \in Nat
      BY <2>0, <3>2
    <3>4. [r \in Rows |-> IF r \in page THEN call[p].seen[r] + 1 ELSE call[p].seen[r]] \in [Rows -> Nat]
      BY <2>0
    <3>. QED BY <1>0, <3>3, <3>4 DEF Turned, Calls
  <2>2. Return(p) \/ \E page \in Pages(call[p].n), place \in {"done", "page"} : Goes(p, Turned(p, page, place))
    BY <1>2, PageTurned
  <2>5. call' \in [Callers -> Calls]
    BY <2>1, <2>2, GoesType, ReturnType
  <2>. QED BY <1>2, <2>5 DEF Typed, ReadPage, data
<1>3. CASE Done(p)
  <2>1. call' \in [Callers -> Calls]
    BY <1>3, ReturnType DEF Done
  <2>. QED BY <1>3, <2>1 DEF Typed, Done, data
<1>4. CASE Fails(p)
  <2>1. call' \in [Callers -> Calls]
    BY <1>4, ReturnType DEF Fails
  <2>. QED BY <1>4, <2>1 DEF Typed, Fails, data
<1>5. CASE Discard(p)
  <2>1. call' \in [Callers -> Calls]
    BY <1>5, ReturnType DEF Discard
  <2>2. conn' \in [Conns -> {"new", "open", "closed", "dropped"}]
    BY <1>5 DEF Typed, Discard, Close
  <2>. QED BY <1>5, <2>1, <2>2 DEF Typed, Discard, data
<1>. QED BY <1>1, <1>2, <1>3, <1>4, <1>5

LEMMA TypeStep == TypeOK /\ [Next]_vars => TypeOK'
<1>. SUFFICES ASSUME Typed, [Next]_vars PROVE Typed'
  BY TypedIsType, TypedIsType DEF TypeOK, Typed, Calls
<1>1. ASSUME NEW p \in Callers, NEW n \in Names, NewRepository(p, n) PROVE Typed'
  BY <1>1 DEF Typed, NewRepository, data
<1>2. CASE UNCHANGED vars
  BY <1>2 DEF Typed, vars
<1>3. ASSUME NEW p \in Callers, Alone(p) \/ OnPool(p) \/ Fails(p) \/ InTx(p) PROVE Typed'
  BY <1>3, OpenType, RegisterType, CloseNextType, StatementType, BeginType, InTxType, WalkType
     DEF Alone, OnPool
<1>. QED BY <1>1, <1>2, <1>3, CheckNameType, DetachType, UseType DEF Next

----------------------------------------------------------------------------
(* Ownership. *)
LEMMA HandlessReturn ==
  ASSUME TypeOK, NoLeak, OneOwner, UNCHANGED <<registry, conn>>, NEW p \in Callers, Return(p),
         call[p].at \in Handless
  PROVE  NoLeak' /\ OneOwner'
<1>1. Idle.at \in Handless
  BY DEF Idle, Handless
<1>. QED BY <1>1, IdleType, OneGoes DEF Return

LEMMA ChangeOwners ==
  ASSUME TypeOK, NoLeak, OneOwner, UNCHANGED <<registry, conn>>, NEW p \in Callers,
         NEW new \in SUBSET Rows, Change(new, p, Idle), call[p].at \in Handless
  PROVE  NoLeak' /\ OneOwner'
<1>1. Idle.at \in Handless
  BY DEF Idle, Handless
<1>2. /\ call'[p] = Idle
      /\ \A q \in Callers \ {p} : /\ call'[q].at = call[q].at /\ call'[q].conn = call[q].conn
                                  /\ call'[q].todo = call[q].todo
  BY TypedIsType, IdleType, ChangeType
<1>. QED BY <1>1, <1>2, Untouched

(* What is in hand or open is a connection, not None. *)
LEMMA OpenOwners ==
  ASSUME TypeOK, NoLeak, OneOwner, NEW p \in Callers, Open(p)
  PROVE  NoLeak' /\ OneOwner'
<1>. USE TypedIsType
<1>0. call[p] \in Calls /\ call[p].at = "open" /\ call \in [Callers -> Calls] /\ registry' = registry
  BY CallsType DEF Open, At
<1>1. CASE \E c \in Conns : Opens(p, c)
  <2>1. PICK c \in Conns : /\ conn[c] = "new" /\ conn' = [conn EXCEPT ![c] = "open"]
                           /\ Goes(p, [call[p] EXCEPT !.at = "register", !.conn = c])
    BY <1>1 DEF Opens
  <2>2. /\ call'[p].at = "register" /\ call'[p].conn = c
        /\ \A q \in Callers \ {p} : call'[q] = call[q]
    BY <1>0, <2>1 DEF Goes, Calls
  <2>3. /\ conn'[c] = "open" /\ \A d \in Conns \ {c} : conn'[d] = conn[d]
    BY <2>1 DEF TypeOK
  <2>4. \A n \in Names : registry[n] # c
    BY <2>1 DEF NoLeak, None, Conns
  <2>5. \A q \in Callers : ~InHand(q, c)
    BY <2>1 DEF OneOwner
  <2>6. \A q \in Callers, d \in Conns : InHand(q, d)' <=> InHand(q, d) \/ (q = p /\ d = c)
    BY <1>0, <2>2 DEF InHand, At
  <2>7. NoLeak'
    BY <1>0, <2>3, <2>4, <2>6 DEF NoLeak, TypeOK
  <2>8. OneOwner'
    BY <1>0, <2>3, <2>4, <2>5, <2>6 DEF OneOwner
  <2>. QED BY <2>7, <2>8
<1>2. CASE /\ Goes(p, NextTry(p)) \/ Return(p)
           /\ UNCHANGED conn \/ \E c \in Conns : conn[c] = "new" /\ Drop(c)
  <2>1. /\ call'[p].at \in {"open", "idle"}
        /\ \A q \in Callers \ {p} : call'[q] = call[q]
    <3>1. NextTry(p).at = "open" /\ Idle.at = "idle"
      BY <1>0, NextTryType DEF Idle
    <3>. QED BY <1>0, <1>2, <3>1 DEF Goes, Return
  <2>2. \A q \in Callers, d \in Conns : InHand(q, d)' <=> InHand(q, d)
    BY <1>0, <2>1 DEF InHand, At
  <2>3. \A d \in Conns : /\ conn[d] = "open" <=> conn'[d] = "open"
    BY <1>2 DEF Drop, TypeOK
  <2>. QED BY <1>0, <2>2, <2>3 DEF NoLeak, OneOwner
<1>. QED BY <1>1, <1>2, OpenCases

LEMMA RegisterOwners ==
  ASSUME TypeOK, NoLeak, OneOwner, Opening, NEW p \in Callers, Register(p)
  PROVE  NoLeak' /\ OneOwner'
<1>0. call[p] \in Calls /\ call[p].at = "register" /\ call \in [Callers -> Calls] /\ conn' = conn
  BY CallsType DEF Register, At
<1>1. CASE Discards(p) /\ UNCHANGED registry
  <2>1. /\ call'[p].at = "discard" /\ call'[p].conn = call[p].conn
        /\ \A q \in Callers \ {p} : call'[q] = call[q]
    BY <1>0, <1>1 DEF Discards, Goes, Calls
  <2>2. \A q \in Callers, d \in Conns : InHand(q, d)' <=> InHand(q, d)
    BY <1>0, <2>1 DEF InHand, At
  <2>. QED BY <1>0, <1>1, <2>2 DEF NoLeak, OneOwner
<1>2. CASE /\ ~Taken(p) /\ registry' = [registry EXCEPT ![call[p].name] = call[p].conn]
           /\ Return(p)
  <2>. DEFINE c == call[p].conn
  <2>1. call'[p].at = "idle" /\ \A q \in Callers \ {p} : call'[q] = call[q]
    BY <1>0, <1>2 DEF Return, Goes, Idle
  <2>2. \A q \in Callers, d \in Conns : InHand(q, d)' <=> InHand(q, d) /\ q # p
    BY <1>0, <2>1 DEF InHand, At
  <2>3. \A d \in Conns : InHand(p, d) <=> d = c
    BY <1>0 DEF InHand, At
  <2>4. \A n \in Names : registry'[n] = IF n = call[p].name THEN c ELSE registry[n]
    BY <1>2 DEF TypeOK
  <2>5. registry[call[p].name] = None
    BY <1>2 DEF Taken
  <2>6. c \in Conns /\ call[p].name \in Names
    BY <1>0 DEF Opening
  <2>7. conn[c] = "open"
    BY <2>3, <2>6 DEF OneOwner
  <2>8. NoLeak'
    BY <1>0, <2>2, <2>3, <2>4, <2>5, <2>6, <2>7 DEF NoLeak, None, Conns
  <2>9. OneOwner'
    BY <1>0, <2>2, <2>3, <2>4, <2>6 DEF OneOwner, None, Conns
  <2>. QED BY <2>8, <2>9
<1>. QED BY <1>1, <1>2 DEF Register

LEMMA DiscardOwners ==
  ASSUME TypeOK, NoLeak, OneOwner, Opening, NEW p \in Callers, Discard(p)
  PROVE  NoLeak' /\ OneOwner'
<1>. DEFINE c == call[p].conn
<1>0. call[p].at = "discard" /\ c \in Conns /\ call \in [Callers -> Calls] /\ registry' = registry
  BY CallsType DEF Discard, At, Opening
<1>1. call'[p].at = "idle" /\ \A q \in Callers \ {p} : call'[q] = call[q]
  BY <1>0 DEF Discard, Return, Goes, Idle
<1>2. conn'[c] = "closed" /\ \A d \in Conns \ {c} : conn'[d] = conn[d]
  BY <1>0 DEF Discard, Close, TypeOK
<1>3. InHand(p, c)
  BY <1>0 DEF InHand, At
<1>4. \A q \in Callers, d \in Conns : InHand(q, d)' <=> InHand(q, d) /\ q # p
  BY <1>0, <1>1 DEF InHand, At
<1>5. \A d \in Conns : InHand(p, d) <=> d = c
  BY <1>0 DEF InHand, At
<1>6. \A q \in Callers : InHand(q, c) => q = p
  BY <1>0, <1>3 DEF OneOwner
<1>7. \A n \in Names : registry[n] # c
  BY <1>0, <1>3 DEF OneOwner
<1>8. NoLeak'
  <2>. HIDE DEF c
  <2>. QED BY <1>0, <1>2, <1>4, <1>5, <1>6, <1>7 DEF NoLeak
<1>9. OneOwner'
  BY <1>0, <1>2, <1>4, <1>6 DEF OneOwner
<1>. QED BY <1>8, <1>9

LEMMA DetachOwners ==
  ASSUME TypeOK, NoLeak, OneOwner, NEW p \in Callers, Detach(p)
  PROVE  NoLeak' /\ OneOwner'
<1>. DEFINE mine == {registry[n] : n \in Names} \ {None}
<1>0. call[p].at = "idle" /\ call \in [Callers -> Calls] /\ conn' = conn
  BY CallsType DEF Detach, At
<1>1. /\ call'[p].at = "close" /\ call'[p].todo = mine
      /\ \A q \in Callers \ {p} : call'[q] = call[q]
  BY <1>0 DEF Detach, Goes, Idle
<1>2. \A n \in Names : registry'[n] = None
  BY DEF Detach
<1>3. \A q \in Callers, d \in Conns : InHand(q, d)' <=> InHand(q, d) \/ (q = p /\ d \in mine)
  BY <1>0, <1>1 DEF InHand, At
<1>4. \A d \in Conns : d \in mine <=> \E n \in Names : registry[n] = d
  BY DEF Conns, None
<1>5. NoLeak'
  <2>1. \A d \in Conns, n \in Names : registry'[n] # d
    BY <1>2 DEF Conns, None
  <2>. HIDE DEF mine
  <2>. QED BY <1>0, <1>3, <1>4, <2>1 DEF NoLeak
<1>6. OneOwner'
  BY <1>0, <1>2, <1>3, <1>4 DEF OneOwner, NoLeak, Conns, None
<1>. QED BY <1>5, <1>6

LEMMA CloseNextOwners ==
  ASSUME TypeOK, NoLeak, OneOwner, NEW p \in Callers, CloseNext(p)
  PROVE  NoLeak' /\ OneOwner'
<1>0. call[p] \in Calls /\ call[p].at = "close" /\ call \in [Callers -> Calls] /\ registry' = registry
  BY CallsType DEF CloseNext, At
<1>1. CASE call[p].todo = {} /\ Return(p) /\ UNCHANGED conn
  <2>1. call'[p].at = "idle" /\ \A q \in Callers \ {p} : call'[q] = call[q]
    BY <1>0, <1>1 DEF Return, Goes, Idle
  <2>2. \A q \in Callers, d \in Conns : InHand(q, d)' <=> InHand(q, d)
    BY <1>0, <1>1, <2>1 DEF InHand, At
  <2>. QED BY <1>0, <1>1, <2>2 DEF NoLeak, OneOwner
<1>2. CASE \E c \in call[p].todo : (Close(c) \/ Drop(c)) /\ Goes(p, [call[p] EXCEPT !.todo = @ \ {c}])
  <2>1. PICK c \in call[p].todo : (Close(c) \/ Drop(c)) /\ Goes(p, [call[p] EXCEPT !.todo = @ \ {c}])
    BY <1>2
  <2>2. c \in Conns
    BY <1>0 DEF Calls
  <2>3. /\ call'[p].at = "close" /\ call'[p].todo = call[p].todo \ {c}
        /\ \A q \in Callers \ {p} : call'[q] = call[q]
    BY <1>0, <2>1 DEF Goes, Calls
  <2>4. conn'[c] \in {"closed", "dropped"} /\ \A d \in Conns \ {c} : conn'[d] = conn[d]
    BY <2>1, <2>2 DEF Close, Drop, TypeOK
  <2>5. InHand(p, c)
    BY <1>0 DEF InHand, At
  <2>6. \A q \in Callers, d \in Conns : InHand(q, d)' <=> InHand(q, d) /\ ~(q = p /\ d = c)
    BY <1>0, <2>3 DEF InHand, At
  <2>7. \A q \in Callers : InHand(q, c) => q = p
    BY <2>2, <2>5 DEF OneOwner
  <2>8. \A n \in Names : registry[n] # c
    BY <2>2, <2>5 DEF OneOwner
  <2>9. NoLeak'
    <3>1. ~(\E n \in Names : registry'[n] = c) /\ ~(\E q \in Callers : InHand(q, c)') /\ conn'[c] # "open"
      BY <1>0, <2>2, <2>4, <2>6, <2>7, <2>8
    <3>2. ASSUME NEW d \in Conns \ {c}
          PROVE  conn'[d] = "open" <=> (\E n \in Names : registry'[n] = d) \/ (\E q \in Callers : InHand(q, d)')
      BY <1>0, <2>4, <2>6 DEF NoLeak
    <3>. QED BY <3>1, <3>2 DEF NoLeak
  <2>10. OneOwner'
    BY <1>0, <2>4, <2>6, <2>7 DEF OneOwner
  <2>. QED BY <2>9, <2>10
<1>. QED BY <1>1, <1>2 DEF CloseNext

(* The steps that hand nobody anything. *)
LEMMA OtherOwners ==
  ASSUME TypeOK, NoLeak, OneOwner, NEW p \in Callers,
         \/ \E n \in Names : CheckName(p, n) \/ NewRepository(p, n)
         \/ Use(p) \/ OnPool(p) \/ Fails(p) \/ InTx(p) \/ Done(p)
  PROVE  NoLeak' /\ OneOwner'
<1>0. call[p] \in Calls /\ UNCHANGED <<registry, conn>> /\ Typed
  BY CallsType, TypedIsType DEF CheckName, NewRepository, Use, OnPool, Statement, Begin, Count, ReadPage,
     Fails, InTx, InsertInTx, Commit, Rollback, Done
<1>1. ASSUME NEW n \in Names, CheckName(p, n) PROVE NoLeak' /\ OneOwner'
  <2>1. [Idle EXCEPT !.at = "open", !.name = n] \in Calls
    BY IdleType DEF Calls
  <2>2. [Idle EXCEPT !.at = "open", !.name = n].at \in Handless /\ call[p].at \in Handless
    BY <1>1 DEF Handless, Idle, CheckName, At
  <2>. QED BY <1>0, <1>1, <2>1, <2>2, OneGoes DEF CheckName
<1>2. ASSUME NEW n \in Names, NewRepository(p, n) PROVE NoLeak' /\ OneOwner'
  BY <1>0, <1>2, Untouched DEF NewRepository
<1>3. CASE Use(p)
  <2>1. PICK c \in ({repo[p]} \union {registry[n] : n \in Names}) \ {None} :
          Goes(p, [Idle EXCEPT !.at = "use", !.conn = c])
    BY <1>3 DEF Use
  <2>2. c \in Conns
    BY <1>0 DEF Typed
  <2>3. [Idle EXCEPT !.at = "use", !.conn = c] \in Calls
    BY <2>2, IdleType DEF Calls
  <2>4. [Idle EXCEPT !.at = "use", !.conn = c].at \in Handless /\ call[p].at \in Handless
    BY <1>3 DEF Handless, Idle, Use, At
  <2>. QED BY <1>0, <2>1, <2>3, <2>4, OneGoes
<1>4. CASE Statement(p)
  <2>0. call[p].at \in Handless
    BY <1>4 DEF Statement, At, Handless
  <2>1. CASE Insert(p)
    <3>1. rows \union {drawn'} \in SUBSET Rows
      BY <1>0, <2>1, DatabaseAssumption DEF Typed, Insert, Rows
    <3>. QED BY <1>0, <2>0, <2>1, <3>1, ChangeOwners DEF Insert
  <2>2. CASE DeleteRows(p)
    <3>1. PICK some \in (SUBSET rows) \ {{}} : Change(rows \ some, p, Idle)
      BY <2>2 DEF DeleteRows
    <3>2. rows \ some \in SUBSET Rows
      BY <1>0 DEF Typed
    <3>. QED BY <1>0, <2>0, <3>1, <3>2, ChangeOwners
  <2>3. CASE Look(p)
    BY <1>0, <2>0, <2>3, HandlessReturn DEF Look
  <2>. QED BY <1>4, <2>1, <2>2, <2>3 DEF Statement
<1>5. CASE Begin(p)
  <2>1. [call[p] EXCEPT !.at = "tx"] \in Calls /\ [call[p] EXCEPT !.at = "tx"].at \in Handless
    BY <1>0 DEF Calls, Handless
  <2>2. call[p].at \in Handless
    BY <1>5 DEF Begin, At, Handless
  <2>. QED BY <1>0, <1>5, <2>1, <2>2, OneGoes DEF Begin
<1>6. CASE Count(p) \/ ReadPage(p)
  <2>1. call[p].at \in Handless
    BY <1>6 DEF Count, ReadPage, At, Handless
  <2>2. \A q \in Callers \ {p} : call'[q] = call[q]
    BY <1>0, <1>6 DEF Typed, Count, ReadPage, Goes, Return
  <2>3. call'[p].at \in Handless
    <3>1. call \in [Callers -> Calls] /\ DOMAIN call = Callers
      BY <1>0 DEF Typed
    <3>2. CASE Count(p)
      <4>1. call'[p] = [call[p] EXCEPT !.at = "page", !.n = 1, !.walk = TRUE, !.base = rows]
              \/ call'[p] = [call[p] EXCEPT !.at = "page"]
        BY <3>1, <3>2 DEF Count, Goes
      <4>. QED BY <1>0, <4>1 DEF Calls, Handless
    <3>3. CASE ReadPage(p)
      <4>1. call'[p] = Idle
              \/ \E page \in Pages(call[p].n), place \in {"done", "page"} : call'[p] = Turned(p, page, place)
        <5>1. CASE Return(p)
          BY <3>1, <5>1 DEF Goes, Return
        <5>2. ASSUME NEW page \in Pages(call[p].n), NEW place \in {"done", "page"}, Goes(p, Turned(p, page, place))
              PROVE  call'[p] = Turned(p, page, place)
          BY <3>1, <5>2 DEF Goes
        <5>. QED BY <3>3, <5>1, <5>2, PageTurned
      <4>2. \A page, place : Turned(p, page, place).at = place
        BY <1>0 DEF Turned, Calls
      <4>3. Idle.at \in Handless /\ \A place \in {"done", "page"} : place \in Handless
        BY DEF Idle, Handless
      <4>. QED BY <4>1, <4>2, <4>3
    <3>. QED BY <1>6, <3>2, <3>3
  <2>. QED BY <1>0, <2>1, <2>2, <2>3, Untouched
<1>7. CASE Fails(p) \/ Done(p)
  BY <1>0, <1>7, HandlessReturn DEF Fails, Done, At, Handless
<1>8. CASE InsertInTx(p)
  <2>1. drawn' \in Rows
    BY <1>0, <1>8, DatabaseAssumption DEF Typed, InsertInTx, Rows
  <2>2. [call[p] EXCEPT !.new = @ \union {drawn'}] \in Calls
    BY <1>0, <2>1 DEF Calls
  <2>3. [call[p] EXCEPT !.new = @ \union {drawn'}].at \in Handless /\ call[p].at \in Handless
    BY <1>0, <1>8 DEF Calls, InsertInTx, At, Handless
  <2>. QED BY <1>0, <1>8, <2>2, <2>3, OneGoes DEF InsertInTx
<1>9. CASE Commit(p)
  <2>0. call[p].at \in Handless
    BY <1>9 DEF Commit, At, Handless
  <2>1. rows \union call[p].new \in SUBSET Rows
    BY <1>0 DEF Typed, Calls
  <2>. QED BY <1>0, <1>9, <2>0, <2>1, ChangeOwners, HandlessReturn DEF Commit
<1>10. CASE Rollback(p)
  BY <1>0, <1>10, HandlessReturn DEF Rollback, At, Handless
<1>. QED BY <1>1, <1>2, <1>3, <1>4, <1>5, <1>6, <1>7, <1>8, <1>9, <1>10 DEF OnPool, InTx

(* Opening: only CheckName, Open and Register put a caller into these places. *)
LEMMA OpeningStep ==
  ASSUME TypeOK, Opening, NEW p \in Callers,
         \/ \E n \in Names : CheckName(p, n) \/ NewRepository(p, n)
         \/ Detach(p) \/ Use(p) \/ Alone(p) \/ OnPool(p) \/ Fails(p) \/ InTx(p)
  PROVE  Opening'
<1>. DEFINE Elsewhere == call'[p].at \notin {"open", "register", "discard"}
            Others == \A q \in Callers \ {p} :
                        /\ call'[q].at = call[q].at /\ call'[q].conn = call[q].conn
                        /\ call'[q].name = call[q].name
<1>0. call[p] \in Calls /\ Typed /\ call \in [Callers -> Calls]
  BY CallsType, TypedIsType
<1>1. ASSUME NEW to, Goes(p, to) PROVE call'[p] = to /\ Others
  BY <1>0, <1>1 DEF Goes
<1>2. ASSUME Return(p) PROVE call'[p] = Idle /\ Others
  BY <1>1, <1>2 DEF Return
<1>3. ASSUME NEW new \in SUBSET Rows, Change(new, p, Idle) PROVE call'[p] = Idle /\ Others
  BY <1>0, <1>3, IdleType, ChangeType
<1>4. ASSUME Elsewhere, Others PROVE Opening'
  BY <1>4 DEF Opening
<1>5. ASSUME call'[p] = Idle PROVE Elsewhere
  <2>1. Idle.at = "idle"
    BY DEF Idle
  <2>. QED BY <1>5, <2>1
<1>6. ASSUME NEW n \in Names, CheckName(p, n) PROVE Opening'
  <2>1. call'[p] = [Idle EXCEPT !.at = "open", !.name = n] /\ Others
    BY <1>1, <1>6 DEF CheckName
  <2>2. call'[p].at = "open" /\ call'[p].name = n
    BY <2>1 DEF Idle
  <2>. QED BY <2>1, <2>2 DEF Opening
<1>7. ASSUME NEW n \in Names, NewRepository(p, n) PROVE Opening'
  BY <1>7 DEF NewRepository, Opening
<1>8. CASE Detach(p)
  <2>1. call'[p] = [Idle EXCEPT !.at = "close", !.todo = {registry[n] : n \in Names} \ {None}] /\ Others
    BY <1>1, <1>8 DEF Detach
  <2>2. call'[p].at = "close"
    BY <2>1 DEF Idle
  <2>. QED BY <1>4, <2>1, <2>2
<1>9. CASE Use(p)
  <2>1. PICK c : call'[p] = [Idle EXCEPT !.at = "use", !.conn = c] /\ Others
    BY <1>1, <1>9 DEF Use
  <2>2. call'[p].at = "use"
    BY <2>1 DEF Idle
  <2>. QED BY <1>4, <2>1, <2>2
<1>10. CASE Open(p)
  <2>0. call[p].name \in Names
    BY <1>10 DEF Open, At, Opening
  <2>1. CASE \E c \in Conns : Opens(p, c)
    <3>1. PICK c \in Conns : call'[p] = [call[p] EXCEPT !.at = "register", !.conn = c] /\ Others
      BY <1>1, <2>1 DEF Opens
    <3>2. call'[p].name \in Names /\ call'[p].conn \in Conns
      BY <1>0, <2>0, <3>1 DEF Calls
    <3>. QED BY <3>1, <3>2 DEF Opening
  <2>2. CASE Goes(p, NextTry(p))
    <3>1. call'[p] = [call[p] EXCEPT !.n = call[p].n + 1] /\ Others
      BY <1>1, <2>2 DEF NextTry
    <3>2. call'[p].name \in Names /\ call'[p].at = "open"
      BY <1>0, <1>10, <2>0, <3>1 DEF Calls, Open, At
    <3>. QED BY <3>1, <3>2 DEF Opening
  <2>3. CASE Return(p)
    BY <1>2, <1>4, <1>5, <2>3
  <2>. QED BY <1>10, <2>1, <2>2, <2>3, OpenCases
<1>11. CASE Register(p)
  <2>0. call[p].conn \in Conns
    BY <1>11 DEF Register, At, Opening
  <2>1. CASE Discards(p)
    <3>1. call'[p] = [call[p] EXCEPT !.at = "discard"] /\ Others
      BY <1>1, <2>1 DEF Discards
    <3>2. call'[p].conn \in Conns /\ call'[p].at = "discard"
      BY <1>0, <2>0, <3>1 DEF Calls
    <3>. QED BY <3>1, <3>2 DEF Opening
  <2>2. CASE Return(p)
    BY <1>2, <1>4, <1>5, <2>2
  <2>. QED BY <1>11, <2>1, <2>2 DEF Register
<1>12. CASE CloseNext(p)
  <2>1. CASE Return(p)
    BY <1>2, <1>4, <1>5, <2>1
  <2>2. CASE \E c \in call[p].todo : Goes(p, [call[p] EXCEPT !.todo = @ \ {c}])
    <3>1. PICK c \in call[p].todo : call'[p] = [call[p] EXCEPT !.todo = @ \ {c}] /\ Others
      BY <1>1, <2>2
    <3>2. call'[p].at = "close"
      BY <1>0, <1>12, <3>1 DEF Calls, CloseNext, At
    <3>. QED BY <1>4, <3>1, <3>2
  <2>. QED BY <1>12, <2>1, <2>2 DEF CloseNext
<1>13. CASE Discard(p) \/ Done(p) \/ Fails(p) \/ Rollback(p)
  <2>1. Return(p)
    BY <1>13 DEF Discard, Done, Fails, Rollback
  <2>. QED BY <1>2, <1>4, <1>5, <2>1
<1>14. CASE Statement(p)
  <2>1. CASE Insert(p)
    <3>1. rows \union {drawn'} \in SUBSET Rows
      BY <1>0, <2>1, DatabaseAssumption DEF Typed, Insert, Rows
    <3>. QED BY <1>3, <1>4, <1>5, <2>1, <3>1 DEF Insert
  <2>2. CASE DeleteRows(p)
    <3>1. PICK some \in (SUBSET rows) \ {{}} : Change(rows \ some, p, Idle)
      BY <2>2 DEF DeleteRows
    <3>2. rows \ some \in SUBSET Rows
      BY <1>0 DEF Typed
    <3>. QED BY <1>3, <1>4, <1>5, <3>1, <3>2
  <2>3. CASE Look(p)
    BY <1>2, <1>4, <1>5, <2>3 DEF Look
  <2>. QED BY <1>14, <2>1, <2>2, <2>3 DEF Statement
<1>15. CASE Commit(p)
  <2>1. rows \union call[p].new \in SUBSET Rows
    BY <1>0 DEF Typed, Calls
  <2>. QED BY <1>2, <1>3, <1>4, <1>5, <1>15, <2>1 DEF Commit
<1>16. CASE Begin(p) \/ InsertInTx(p)
  <2>1. PICK new : \/ call'[p] = [call[p] EXCEPT !.at = "tx"] /\ Others
                   \/ /\ call'[p] = [call[p] EXCEPT !.new = new] /\ Others
                      /\ call[p].at = "tx"
    BY <1>1, <1>16 DEF Begin, InsertInTx, At
  <2>2. call'[p].at = "tx" /\ Others
    BY <1>0, <2>1 DEF Calls
  <2>. QED BY <1>4, <2>2
<1>17. CASE Count(p)
  <2>1. \/ call'[p] = [call[p] EXCEPT !.at = "page", !.n = 1, !.walk = TRUE, !.base = rows] /\ Others
        \/ call'[p] = [call[p] EXCEPT !.at = "page"] /\ Others
    BY <1>1, <1>17 DEF Count
  <2>2. call'[p].at = "page" /\ Others
    BY <1>0, <2>1 DEF Calls
  <2>. QED BY <1>4, <2>2
<1>18. CASE ReadPage(p)
  <2>1. CASE Return(p)
    BY <1>2, <1>4, <1>5, <2>1
  <2>2. ASSUME NEW page, NEW place \in {"done", "page"}, Goes(p, Turned(p, page, place))
        PROVE  Opening'
    <3>1. call'[p] = Turned(p, page, place) /\ Others
      BY <1>1, <2>2
    <3>2. Turned(p, page, place).at = place
      BY <1>0 DEF Turned, Calls
    <3>. QED BY <1>4, <3>1, <3>2
  <2>. QED BY <1>18, <2>1, <2>2, PageTurned
<1>. QED BY <1>6, <1>7, <1>8, <1>9, <1>10, <1>11, <1>12, <1>13, <1>14, <1>15, <1>16, <1>17, <1>18
     DEF Alone, OnPool, InTx

----------------------------------------------------------------------------
(* The inductive invariant. *)
LEMMA DNext == DInv /\ [Next]_vars => DInv'
<1>. SUFFICES ASSUME TypeOK, NoLeak, OneOwner, Opening, [Next]_vars PROVE DInv'
  BY DEF DInv
<1>1. TypeOK'
  BY TypeStep
<1>2. CASE UNCHANGED vars
  BY <1>1, <1>2 DEF vars, DInv, NoLeak, OneOwner, Opening, InHand, At
<1>3. ASSUME NEW p \in Callers,
             \/ \E n \in Names : CheckName(p, n) \/ NewRepository(p, n)
             \/ Detach(p) \/ Use(p) \/ Alone(p) \/ OnPool(p) \/ Fails(p) \/ InTx(p)
      PROVE  DInv'
  <2>1. Opening'
    BY <1>3, OpeningStep
  <2>2. NoLeak' /\ OneOwner'
    <3>1. CASE Detach(p)
      BY <3>1, DetachOwners
    <3>2. CASE Alone(p)
      BY <3>2, OpenOwners, RegisterOwners, DiscardOwners, CloseNextOwners, OtherOwners DEF Alone
    <3>. QED BY <1>3, <3>1, <3>2, OtherOwners
  <2>. QED BY <1>1, <2>1, <2>2 DEF DInv
<1>. QED BY <1>2, <1>3 DEF Next

LEMMA DInvariant == Spec => []DInv
<1>1. Init => DInv
  BY DInit
<1>2. DInv /\ [Next]_vars => DInv'
  BY DNext
<1>. QED BY <1>1, <1>2, PTL DEF Spec

(* The values of the registry, of the connections and of the callers stay in their
   types, and no pool has more statements and transactions at a time than
   MaxOpenConns. *)
THEOREM DatabaseTypeCorrect == Spec => []TypeOK
<1>1. DInv => TypeOK
  BY DEF DInv
<1>. QED BY <1>1, DInvariant, PTL

(* However InitDB and CloseDB of any number of goroutines overlap, an open
   connection is registered or about to be closed or registered by the call that
   has it, and GetDB hands out none that is closed. *)
THEOREM NoLeakCorrect == Spec => []NoLeak
<1>1. DInv => NoLeak
  BY DEF DInv
<1>. QED BY <1>1, DInvariant, PTL

(* The second look under the lock: a name's connection stays until CloseDB. *)
THEOREM NeverReplacedCorrect == Spec => NeverReplaced
<1>. DEFINE Kept == \A n \in Names : registry[n] # None => registry'[n] \in {registry[n], None}
<1>1. DInv /\ [Next]_vars => [Kept]_vars
  <2>. SUFFICES ASSUME DInv, Next PROVE Kept
    BY DEF DInv
  <2>1. PICK p \in Callers :
          \/ \E n \in Names : CheckName(p, n) \/ NewRepository(p, n)
          \/ Detach(p) \/ Use(p) \/ Alone(p) \/ OnPool(p) \/ Fails(p) \/ InTx(p)
    BY DEF Next
  <2>2. CASE Detach(p)
    BY <2>2 DEF Detach
  <2>3. CASE Register(p)
    BY <2>3 DEF Register, Taken, DInv, TypeOK
  <2>4. CASE ~Detach(p) /\ ~Register(p)
    <3>1. UNCHANGED registry
      BY <2>1, <2>4 DEF CheckName, NewRepository, Use, Alone, Open, Discard, CloseNext, Done, OnPool,
         Statement, Begin, Count, ReadPage, Fails, InTx, InsertInTx, Commit, Rollback
    <3>. QED BY <3>1
  <2>. QED BY <2>2, <2>3, <2>4
<1>. QED BY <1>1, DInvariant, PTL DEF Spec, NeverReplaced

----------------------------------------------------------------------------
(* A walk's offsets are ranks among the rows. *)
Rank(S, r) == Cardinality({s \in S : s <= r})

(* A rank is a number up to the number of rows, and grows from row to row. *)
LEMMA RankType ==
  ASSUME NEW S \in SUBSET Rows, NEW r \in Rows
  PROVE  /\ Rank(S, r) \in Nat /\ Rank(S, r) <= Cardinality(S)
         /\ r \in S => Rank(S, r) \in 1..Cardinality(S)
<1>. DEFINE B == {s \in S : s <= r}
<1>1. B \in SUBSET Rows /\ B \subseteq S /\ IsFiniteSet(S) /\ IsFiniteSet(B) /\ Cardinality(B) \in Nat
      /\ Cardinality(S) \in Nat
  BY RowsFinite
<1>2. Cardinality(B) <= Cardinality(S)
  BY <1>1, FS_Subset
<1>3. r \in S => B # {}
  BY DatabaseAssumption DEF Rows
<1>4. r \in S => Cardinality(B) # 0
  BY <1>1, <1>3, FS_EmptySet
<1>5. Rank(S, r) = Cardinality(B)
  BY DEF Rank
<1>. HIDE DEF B
<1>. QED BY <1>1, <1>2, <1>4, <1>5

LEMMA RankGrows ==
  ASSUME NEW S \in SUBSET Rows, NEW q \in S, NEW r \in S, q < r
  PROVE  Rank(S, q) < Rank(S, r)
<1>. DEFINE A == {s \in S : s <= q}
            B == {s \in S : s <= r}
<1>0. A \in SUBSET Rows /\ B \in SUBSET Rows
  OBVIOUS
<1>1. IsFiniteSet(A) /\ IsFiniteSet(B)
  BY <1>0, RowsFinite
<1>2. \A s \in S : s \in Int
  BY DatabaseAssumption DEF Rows
<1>3. A \subseteq B /\ r \in B /\ r \notin A
  BY <1>2
<1>4. Cardinality(A) < Cardinality(B)
  <2>. HIDE DEF A, B
  <2>1. A # B
    BY <1>3
  <2>2. Cardinality(A) <= Cardinality(B) /\ Cardinality(A) \in Nat /\ Cardinality(B) \in Nat
    BY <1>1, <1>3, FS_Subset, FS_CardinalityType
  <2>3. Cardinality(A) # Cardinality(B)
    BY <1>1, <1>3, <2>1, FS_Subset
  <2>. QED BY <2>2, <2>3
<1>. QED BY <1>4 DEF Rank

(* Every offset up to the number of rows is the rank of one. *)
LEMMA RankOnto ==
  ASSUME NEW S \in SUBSET Rows, NEW k \in 1..Cardinality(S)
  PROVE  \E r \in S : Rank(S, r) = k
<1>. DEFINE f == [r \in S |-> Rank(S, r)]
            T == 1..Cardinality(S)
<1>0. IsFiniteSet(S) /\ Cardinality(S) \in Nat
  BY RowsFinite
<1>1. f \in [S -> T]
  BY RankType
<1>2. \A q, r \in S : q # r => f[q] # f[r]
  <2>. SUFFICES ASSUME NEW q \in S, NEW r \in S, q # r PROVE f[q] # f[r]
    OBVIOUS
  <2>1. q \in Int /\ r \in Int
    BY DatabaseAssumption DEF Rows
  <2>2. Rank(S, q) \in Nat /\ Rank(S, r) \in Nat
    BY RankType
  <2>3. q < r \/ r < q
    BY <2>1
  <2>4. Rank(S, q) # Rank(S, r)
    BY <2>2, <2>3, RankGrows
  <2>. QED BY <2>4
<1>3. IsFiniteSet(T) /\ Cardinality(T) = Cardinality(S)
  BY <1>0, FS_Interval
<1>. HIDE DEF f
<1>4. f \in Injection(S, T)
  BY <1>1, <1>2 DEF Injection, IsInjective
<1>5. f \in Surjection(S, T)
  BY <1>0, <1>3, <1>4, FS_Injection
<1>6. PICK r \in S : f[r] = k
  BY <1>5 DEF Surjection
<1>. QED BY <1>6 DEF f

(* Rows that come after all others leave the ranks alone. *)
LEMMA RankKept ==
  ASSUME NEW S \in SUBSET Rows, NEW T \in SUBSET Rows, S \subseteq T,
         \A t \in T \ S, s \in S : s < t
  PROVE  /\ \A r \in S : Rank(T, r) = Rank(S, r)
         /\ \A r \in T \ S : Rank(T, r) > Cardinality(S)
<1>0. \A r \in T : r \in Int
  BY DatabaseAssumption DEF Rows
<1>1. ASSUME NEW r \in S PROVE Rank(T, r) = Rank(S, r)
  <2>1. \A s \in T : s <= r => s \in S
    BY <1>0
  <2>2. {s \in T : s <= r} = {s \in S : s <= r}
    BY <2>1
  <2>. QED BY <2>2 DEF Rank
<1>2. ASSUME NEW r \in T \ S PROVE Rank(T, r) > Cardinality(S)
  <2>. DEFINE B == {s \in T : s <= r}
  <2>1. S \subseteq B /\ r \in B /\ B \in SUBSET Rows
    BY <1>0
  <2>2. IsFiniteSet(B)
    BY <2>1, RowsFinite
  <2>3. Cardinality(S) < Cardinality(B)
    <3>. HIDE DEF B
    <3>1. S # B
      BY <2>1, <1>2
    <3>2. Cardinality(S) <= Cardinality(B) /\ Cardinality(S) \in Nat /\ Cardinality(B) \in Nat
      BY <2>1, <2>2, FS_Subset, FS_CardinalityType, RowsFinite
    <3>3. Cardinality(S) # Cardinality(B)
      BY <2>1, <2>2, <3>1, FS_Subset
    <3>. QED BY <3>2, <3>3
  <2>4. Rank(T, r) = Cardinality(B)
    BY DEF Rank
  <2>5. Cardinality(S) \in Nat /\ Cardinality(B) \in Nat
    BY <2>2, RowsFinite, FS_CardinalityType
  <2>. HIDE DEF B
  <2>. QED BY <2>3, <2>4, <2>5
<1>. QED BY <1>1, <1>2

(* The steady walk of a caller through a table in the order of its key.  On its
   way, the rows it has counted are there, before all rows that came later, and
   it has met the rows of the pages behind it once and no others; at its end it has
   met every row it had counted. *)
Underway(w, R) ==
  /\ w.n \in Nat \ {0}
  /\ w.base \subseteq R /\ \A r \in R \ w.base, s \in w.base : s < r
  /\ (w.n - 1) * PageSize <= Cardinality(w.base)
  /\ \A r \in Rows :
       w.seen[r] = IF r \in R /\ Rank(R, r) <= (w.n - 1) * PageSize THEN 1 ELSE 0

Finished(w) == \A r \in Rows : w.seen[r] <= 1 /\ (r \in w.base => w.seen[r] = 1)

(* Any walk, as long as the rows it has counted are there, has been given full pages
   so far. *)
Bounded(w) == Cardinality(w.base) <= w.met /\ w.met <= Cardinality(w.base) + PageSize

Counted(w, R) ==
  w.base \subseteq R =>
    /\ w.at = "page" => /\ w.n \in Nat \ {0} /\ (w.n - 1) * PageSize <= Cardinality(w.base)
                        /\ w.met = (w.n - 1) * PageSize
    /\ w.at = "done" => Bounded(w)

(* Who does not walk has counted and met nothing. *)
Plain(w) == ~w.walk /\ w.met = 0 /\ w.base = {} /\ \A r \in Rows : w.seen[r] = 0

WalkOk(w, R) ==
  IF w.walk THEN /\ w.at \in {"page", "done"} /\ Counted(w, R)
                 /\ keyed /\ w.steady =>
                      (w.at = "page" => Underway(w, R)) /\ (w.at = "done" => Finished(w))
            ELSE Plain(w)

(* Keys are drawn once, so that a row that has gone does not come back, and what is
   still in a transaction has been counted by nobody. *)
Known(w) == w.new \union w.base

Drawn == /\ \A r \in rows : r <= drawn
         /\ \A p \in Callers : \A r \in Known(call[p]) : r <= drawn

Apart == \A p \in Callers : \A r \in call[p].new :
           r \notin rows /\ \A q \in Callers : r \notin call[q].base /\ (p # q => r \notin call[q].new)

Fresh == Drawn /\ Apart

WalkInv == Fresh /\ \A p \in Callers : WalkOk(call[p], rows)

(* A page is as long as the next offset is further on. *)
LEMMA PageStep ==
  ASSUME NEW n \in Nat \ {0}
  PROVE  /\ (n - 1) * PageSize \in Nat /\ n * PageSize \in Nat
         /\ n * PageSize = (n - 1) * PageSize + PageSize
         /\ (n - 1) * PageSize < n * PageSize
<1>1. PageSize \in Nat \ {0}
  BY DatabaseAssumption
<1>2. \A a \in Nat, b \in Nat : a * b \in Nat
  OBVIOUS
<1>3. n - 1 \in Nat
  OBVIOUS
<1>4. (n - 1) * PageSize \in Nat /\ n * PageSize \in Nat
  BY <1>1, <1>2, <1>3
<1>5. \A a \in Int, b \in Int : a * b = (a - 1) * b + b
  OBVIOUS
<1>6. n * PageSize = (n - 1) * PageSize + PageSize
  BY <1>1, <1>5
<1>. QED BY <1>1, <1>4, <1>6

(* Rows that go, or appear before others, disturb every walk; others none. *)
LEMMA WalkChange ==
  ASSUME NEW R \in SUBSET Rows, NEW new \in SUBSET Rows, NEW w \in Calls, Underway(w, R),
         R \subseteq new, \A r \in new \ R, s \in R : s < r
  PROVE  Underway(w, new)
<1>1. Underway(w, R)
  OBVIOUS
<1>2. w.base \subseteq new /\ \A r \in new \ w.base, s \in w.base : s < r
  BY <1>1 DEF Underway
<1>3. (w.n - 1) * PageSize <= Cardinality(w.base) /\ (w.n - 1) * PageSize \in Nat
  BY <1>1, PageStep DEF Underway
<1>4. Cardinality(w.base) <= Cardinality(R) /\ Cardinality(w.base) \in Nat /\ Cardinality(R) \in Nat
  BY <1>1, RowsFinite, FS_Subset DEF Underway
<1>5. ASSUME NEW r \in Rows
      PROVE  w.seen[r] = IF r \in new /\ Rank(new, r) <= (w.n - 1) * PageSize THEN 1 ELSE 0
  <2>1. CASE r \in R
    BY <1>1, <2>1, RankKept DEF Underway
  <2>2. CASE r \in new \ R
    <3>1. Rank(new, r) > Cardinality(R) /\ Rank(new, r) \in Nat
      BY <2>2, RankKept, RankType
    <3>2. ~(Rank(new, r) <= (w.n - 1) * PageSize)
      BY <1>3, <1>4, <3>1
    <3>. QED BY <1>1, <2>2, <3>2 DEF Underway
  <2>3. CASE r \notin new
    BY <1>1, <2>3 DEF Underway
  <2>. QED BY <2>1, <2>2, <2>3
<1>. QED BY <1>1, <1>2, <1>3, <1>5 DEF Underway

LEMMA ChangeWalks ==
  ASSUME TypeOK, WalkInv, NEW new \in SUBSET Rows, NEW p \in Callers, Change(new, p, Idle), keyed' = keyed,
         \A q \in Callers : call[q].base \subseteq new => call[q].base \subseteq rows
  PROVE  /\ \A q \in Callers : WalkOk(call[q], rows)'
         /\ rows' = new /\ call'[p] = Idle
         /\ \A q \in Callers \ {p} : call'[q].new = call[q].new /\ call'[q].base = call[q].base
<1>0. call \in [Callers -> Calls] /\ rows \in SUBSET Rows
  BY CallsType DEF TypeOK
<1>. DEFINE shifts == (rows \ new) # {} \/ \E r \in new \ rows, s \in rows : r < s
<1>1. /\ rows' = new
      /\ call' = [q \in Callers |->
                    IF q = p THEN Idle
                    ELSE IF shifts /\ call[q].walk THEN [call[q] EXCEPT !.steady = FALSE]
                    ELSE call[q]]
  BY DEF Change
<1>2. WalkOk(call[p], rows)'
  <2>1. call'[p] = Idle
    BY <1>1
  <2>2. ~Idle.walk /\ Plain(Idle)
    BY DEF Plain, Idle
  <2>3. WalkOk(Idle, rows')
    BY <2>2 DEF WalkOk
  <2>4. Plain(Idle)' <=> Plain(Idle)
    BY DEF Plain, Idle
  <2>. QED BY <2>1, <2>2 DEF WalkOk, Plain
<1>3. ASSUME NEW q \in Callers, q # p
      PROVE  WalkOk(call[q], rows)' /\ call'[q].new = call[q].new /\ call'[q].base = call[q].base
  <2>1. WalkOk(call[q], rows) /\ call[q] \in Calls
    BY <1>0 DEF WalkInv
  <2>2. CASE shifts /\ call[q].walk
    <3>1. call'[q] = [call[q] EXCEPT !.steady = FALSE]
      BY <1>1, <1>3, <2>2
    <3>2. /\ call'[q].walk /\ ~call'[q].steady /\ call'[q].at = call[q].at /\ call'[q].base = call[q].base
          /\ call'[q].met = call[q].met /\ call'[q].n = call[q].n /\ call'[q].new = call[q].new
      BY <2>1, <2>2, <3>1 DEF Calls
    <3>3. Counted(call[q], rows)'
      BY <1>1, <2>1, <2>2, <3>2 DEF WalkOk, Counted, Bounded
    <3>. QED BY <2>1, <2>2, <3>2, <3>3 DEF WalkOk
  <2>3. CASE ~call[q].walk
    BY <1>1, <1>3, <2>1, <2>3 DEF WalkOk, Plain
  <2>4. CASE ~shifts /\ call[q].walk
    <3>1. call'[q] = call[q]
      BY <1>1, <1>3, <2>4
    <3>2. rows \subseteq new /\ \A r \in new \ rows, s \in rows : ~(r < s) /\ r # s
      BY <2>4
    <3>3. \A r \in Rows : r \in Int
      BY DatabaseAssumption DEF Rows
    <3>4. \A r \in new \ rows, s \in rows : s < r
      BY <1>0, <3>2, <3>3
    <3>5. Underway(call[q], rows) => Underway(call[q], new)
      BY <1>0, <2>1, <3>2, <3>4, WalkChange
    <3>6. Underway(call[q], rows)' <=> Underway(call[q], new)
      BY <1>1, <3>1 DEF Underway, Rank
    <3>7. Counted(call[q], rows)'
      BY <1>1, <2>1, <2>4, <3>1 DEF WalkOk, Counted, Bounded
    <3>. QED BY <1>1, <2>1, <2>4, <3>1, <3>5, <3>6, <3>7 DEF WalkOk, Finished
  <2>. QED BY <2>2, <2>3, <2>4
<1>. QED BY <1>1, <1>2, <1>3

LEMMA DrawnType == TypeOK => drawn \in Nat /\ rows \in SUBSET Rows
<1>1. TypeOK => drawn \in 0..MaxRows /\ rows \in SUBSET Rows
  BY DEF TypeOK
<1>2. MaxRows \in Nat
  BY DatabaseAssumption
<1>. QED BY <1>1, <1>2

(* The three changes. *)
LEMMA DrawnKeys ==
  ASSUME TypeOK, Drawn
  PROVE  /\ \A r \in rows : r \in Nat /\ r <= drawn /\ r # drawn + 1
         /\ \A q \in Callers : \A r \in Known(call[q]) : r \in Nat /\ r <= drawn /\ r # drawn + 1
<1>1. drawn \in Nat /\ \A r \in Rows : r \in Nat
  BY DrawnType DEF Rows
<1>2. rows \subseteq Rows /\ \A q \in Callers : Known(call[q]) \subseteq Rows
  BY CallsType DEF TypeOK, Known, Calls
<1>. QED BY <1>1, <1>2 DEF Drawn

LEMMA InsertWalks ==
  ASSUME TypeOK, WalkInv, NEW p \in Callers, Insert(p), keyed' = keyed
  PROVE  WalkInv'
<1>. DEFINE new == rows \union {drawn'}
<1>0. /\ call \in [Callers -> Calls] /\ rows \in SUBSET Rows /\ drawn \in Nat /\ drawn' = drawn + 1
      /\ drawn' \in Rows /\ Change(new, p, Idle) /\ Drawn /\ Apart
  <2>1. call \in [Callers -> Calls] /\ rows \in SUBSET Rows /\ drawn \in Nat
    BY CallsType, DrawnType
  <2>2. drawn' = drawn + 1 /\ drawn' \in Rows /\ Change(new, p, Idle)
    BY <2>1, DatabaseAssumption DEF Insert, Rows
  <2>. QED BY <2>1, <2>2 DEF WalkInv, Fresh
<1>1. \A q \in Callers : \A r \in Known(call[q]) : r \in Nat /\ r <= drawn /\ r # drawn'
  BY <1>0, DrawnKeys
<1>2. \A q \in Callers : call[q].base \subseteq new => call[q].base \subseteq rows
  BY <1>1 DEF Known
<1>3. new \in SUBSET Rows
  BY <1>0
<1>. HIDE DEF new
<1>4. /\ \A q \in Callers : WalkOk(call[q], rows)'
      /\ rows' = new /\ call'[p] = Idle
      /\ \A q \in Callers \ {p} : call'[q].new = call[q].new /\ call'[q].base = call[q].base
  BY <1>0, <1>2, <1>3, ChangeWalks
<1>5. Idle.new = {} /\ Idle.base = {}
  BY DEF Idle
<1>6. \A q \in Callers : call'[q].new \subseteq call[q].new /\ call'[q].base \subseteq call[q].base
  BY <1>4, <1>5
<1>7. \A q \in Callers : Known(call'[q]) \subseteq Known(call[q]) /\ call[q].new \subseteq Known(call[q])
  BY <1>6 DEF Known
<1>8. Drawn'
  <2>1. \A r \in rows' : r <= drawn'
    BY <1>0, <1>4, DrawnKeys DEF new
  <2>2. ASSUME NEW q \in Callers, NEW r \in Known(call'[q]) PROVE r <= drawn'
    BY <1>0, <1>1, <1>7
  <2>3. \A q \in Callers : Known(call[q])' = Known(call'[q])
    BY DEF Known
  <2>. QED BY <2>1, <2>2, <2>3 DEF Drawn
<1>9. Apart'
  BY <1>0, <1>1, <1>4, <1>6, <1>7 DEF Apart, new
<1>. QED BY <1>4, <1>8, <1>9 DEF WalkInv, Fresh

(* A step after which there are no more rows, and nobody has more. *)
LEMMA FreshStays ==
  ASSUME Fresh, rows' \subseteq rows, drawn' = drawn,
         \A q \in Callers : call'[q].new \subseteq call[q].new /\ call'[q].base \subseteq call[q].base \union rows
  PROVE  Fresh'
<1>1. Drawn /\ Apart
  BY DEF Fresh
<1>2. ASSUME NEW q \in Callers, NEW r \in Known(call'[q]) PROVE r \in Known(call[q]) \/ r \in rows
  BY <1>2 DEF Known
<1>3. \A q \in Callers : Known(call[q])' = Known(call'[q])
  BY DEF Known
<1>4. Drawn'
  BY <1>1, <1>2, <1>3 DEF Drawn
<1>5. Apart'
  BY <1>1 DEF Apart
<1>. QED BY <1>4, <1>5 DEF Fresh

LEMMA DeleteWalks ==
  ASSUME TypeOK, WalkInv, NEW p \in Callers, DeleteRows(p), keyed' = keyed
  PROVE  WalkInv'
<1>1. PICK some \in (SUBSET rows) \ {{}} : Change(rows \ some, p, Idle) /\ drawn' = drawn
  BY DEF DeleteRows
<1>2. rows \ some \in SUBSET Rows /\ \A q \in Callers : call[q].base \subseteq rows \ some => call[q].base \subseteq rows
  BY DEF TypeOK
<1>3. /\ \A q \in Callers : WalkOk(call[q], rows)'
      /\ rows' = rows \ some /\ call'[p] = Idle
      /\ \A q \in Callers \ {p} : call'[q].new = call[q].new /\ call'[q].base = call[q].base
  BY <1>1, <1>2, ChangeWalks
<1>4. Idle.new = {} /\ Idle.base = {}
  BY DEF Idle
<1>5. Fresh'
  BY <1>1, <1>3, <1>4, FreshStays DEF WalkInv
<1>. QED BY <1>3, <1>5 DEF WalkInv

LEMMA CommitWalks ==
  ASSUME TypeOK, WalkInv, NEW p \in Callers, Change(rows \union call[p].new, p, Idle),
         drawn' = drawn, keyed' = keyed
  PROVE  WalkInv'
<1>. DEFINE new == rows \union call[p].new
<1>0. new \in SUBSET Rows /\ Drawn /\ Apart
  BY CallsType DEF TypeOK, Calls, WalkInv, Fresh
<1>2. \A q \in Callers : call[q].base \subseteq new => call[q].base \subseteq rows
  BY <1>0 DEF Apart
<1>. HIDE DEF new
<1>3. /\ \A q \in Callers : WalkOk(call[q], rows)'
      /\ rows' = new /\ call'[p] = Idle
      /\ \A q \in Callers \ {p} : call'[q].new = call[q].new /\ call'[q].base = call[q].base
  BY <1>0, <1>2, ChangeWalks DEF new
<1>4. Idle.new = {} /\ Idle.base = {}
  BY DEF Idle
<1>5. \A q \in Callers : /\ call'[q].new = IF q = p THEN {} ELSE call[q].new
                         /\ call'[q].base = IF q = p THEN {} ELSE call[q].base
  BY <1>3, <1>4
<1>6. Drawn'
  <2>1. \A q \in Callers : Known(call[q])' = Known(call'[q])
    BY DEF Known
  <2>2. \A q \in Callers : Known(call'[q]) \subseteq Known(call[q])
    BY <1>5 DEF Known
  <2>3. \A r \in rows' : r \in rows \/ r \in Known(call[p])
    BY <1>3 DEF Known, new
  <2>. QED BY <1>0, <2>1, <2>2, <2>3 DEF Drawn
<1>7. Apart'
  BY <1>0, <1>3, <1>5 DEF Apart, new
<1>. QED BY <1>3, <1>6, <1>7 DEF WalkInv, Fresh

(* A step that leaves the rows alone and replaces one caller's record. *)
LEMMA OneWalks ==
  ASSUME TypeOK, WalkInv, NEW p \in Callers, NEW to, Goes(p, to), UNCHANGED data, WalkOk(to, rows),
         to.new \subseteq call[p].new, to.base \subseteq call[p].base \union rows
  PROVE  WalkInv'
<1>1. \A q \in Callers : call'[q] = IF q = p THEN to ELSE call[q]
  BY DEF TypeOK, Goes
<1>2. rows' = rows /\ drawn' = drawn /\ keyed' = keyed
  BY DEF data
<1>3. \A q \in Callers : call'[q].new \subseteq call[q].new /\ call'[q].base \subseteq call[q].base \union rows
  BY <1>1
<1>4. Fresh'
  BY <1>2, <1>3, FreshStays DEF WalkInv
<1>5. \A q \in Callers : WalkOk(call'[q], rows)
  BY <1>1 DEF WalkInv
<1>6. \A q \in Callers : WalkOk(call[q], rows)'
  BY <1>2, <1>5 DEF WalkOk, Underway, Rank, Counted, Bounded, Finished, Plain
<1>. QED BY <1>4, <1>6 DEF WalkInv

LEMMA PlainWalks ==
  ASSUME TypeOK, WalkInv, NEW p \in Callers, NEW to, Goes(p, to), UNCHANGED data, Plain(to),
         to.new \subseteq call[p].new
  PROVE  WalkInv'
<1>1. WalkOk(to, rows) /\ to.base = {}
  BY DEF WalkOk, Plain
<1>. QED BY <1>1, OneWalks

LEMMA ReturnWalks ==
  ASSUME TypeOK, WalkInv, NEW p \in Callers, Return(p), UNCHANGED data
  PROVE  WalkInv'
<1>1. Plain(Idle) /\ Idle.new = {}
  BY DEF Plain, Idle
<1>. QED BY <1>1, PlainWalks DEF Return

(* The count starts a walk before the first row. *)
LEMMA CountWalks ==
  ASSUME TypeOK, WalkInv, NEW p \in Callers, Count(p)
  PROVE  WalkInv'
<1>0. call[p] \in Calls /\ rows \in SUBSET Rows /\ UNCHANGED data
  BY CallsType DEF TypeOK, Count
<1>1. Plain(call[p])
  BY DEF WalkInv, WalkOk, Count, At
<1>2. CASE Goes(p, [call[p] EXCEPT !.at = "page"])
  <2>. DEFINE to == [call[p] EXCEPT !.at = "page"]
  <2>1. Plain(to) /\ to.new = call[p].new
    BY <1>0, <1>1 DEF Plain, Calls
  <2>. HIDE DEF to
  <2>. QED BY <1>0, <1>2, <2>1, PlainWalks DEF to
<1>3. CASE Goes(p, [call[p] EXCEPT !.at = "page", !.n = 1, !.walk = TRUE, !.base = rows])
  <2>. DEFINE to == [call[p] EXCEPT !.at = "page", !.n = 1, !.walk = TRUE, !.base = rows]
  <2>1. /\ to.at = "page" /\ to.n = 1 /\ to.walk /\ to.base = rows /\ to.seen = call[p].seen
        /\ to.new = call[p].new /\ to.met = call[p].met
    BY <1>0 DEF Calls
  <2>. HIDE DEF to
  <2>2. (to.n - 1) * PageSize = 0
    <3>1. PageSize \in Nat
      BY DatabaseAssumption
    <3>2. \A b \in Nat : (1 - 1) * b = 0
      OBVIOUS
    <3>. QED BY <2>1, <3>1, <3>2
  <2>3. \A r \in rows : ~(Rank(rows, r) <= 0)
    BY <1>0, RankType
  <2>4. Cardinality(rows) \in Nat
    BY <1>0, RowsFinite
  <2>5. Underway(to, rows)
    BY <1>1, <2>1, <2>2, <2>3, <2>4 DEF Underway, Plain
  <2>6. Counted(to, rows)
    BY <1>1, <2>1, <2>2, <2>4 DEF Counted, Plain
  <2>7. WalkOk(to, rows)
    BY <2>1, <2>5, <2>6 DEF WalkOk
  <2>. QED BY <1>0, <1>3, <2>1, <2>7, OneWalks DEF to
<1>. QED BY <1>2, <1>3 DEF Count

(* A page is full until the rows end. *)
LEMMA PlacesSize ==
  ASSUME rows \in SUBSET Rows, NEW n \in Nat \ {0}
  PROVE  LET a == (n - 1) * PageSize
             b == n * PageSize
             all == Cardinality(rows)
         IN Cardinality(Places(n)) = IF b <= all THEN PageSize ELSE IF a <= all THEN all - a ELSE 0
<1>. DEFINE a == (n - 1) * PageSize
            b == n * PageSize
            all == Cardinality(rows)
            size == IF b <= all THEN PageSize ELSE IF a <= all THEN all - a ELSE 0
<1>1. a \in Nat /\ b \in Nat /\ b = a + PageSize /\ PageSize \in Nat \ {0} /\ all \in Nat
  BY PageStep, RowsFinite, DatabaseAssumption
<1>2. Places(n) = (a + 1 .. b) \intersect (1..all)
  BY DEF Places
<1>. HIDE DEF a, b, all
<1>3. CASE b <= all
  <2>1. Places(n) = a + 1 .. b
    BY <1>1, <1>2, <1>3
  <2>2. Cardinality(a + 1 .. b) = b - (a + 1) + 1
    BY <1>1, FS_Interval
  <2>3. b - (a + 1) + 1 = PageSize
    BY <1>1
  <2>. QED BY <1>3, <2>1, <2>2, <2>3 DEF a, b, all
<1>4. CASE ~(b <= all) /\ a <= all
  <2>1. Places(n) = a + 1 .. all
    BY <1>1, <1>2, <1>4
  <2>2. Cardinality(a + 1 .. all) = IF a + 1 > all THEN 0 ELSE all - (a + 1) + 1
    BY <1>1, FS_Interval
  <2>3. Cardinality(a + 1 .. all) = all - a
    BY <1>1, <1>4, <2>2
  <2>. QED BY <1>4, <2>1, <2>3 DEF a, b, all
<1>5. CASE ~(b <= all) /\ ~(a <= all)
  <2>1. Places(n) = {}
    BY <1>1, <1>2, <1>5
  <2>. QED BY <1>5, <2>1, FS_EmptySet DEF a, b, all
<1>. QED BY <1>3, <1>4, <1>5

(* A page meets the rows between two offsets.  The walk ends when the offset passes
   what it counted, or on an empty page, which no row is behind. *)
LEMMA ReadPageWalks ==
  ASSUME TypeOK, WalkInv, NEW p \in Callers, ReadPage(p)
  PROVE  WalkInv'
<1>0. call[p] \in Calls /\ rows \in SUBSET Rows /\ UNCHANGED data
  BY CallsType DEF TypeOK, ReadPage
<1>1. CASE ~call[p].walk /\ Return(p)
  BY <1>0, <1>1, ReturnWalks
<1>2. CASE call[p].walk
  <2>0. PICK page \in Pages(call[p].n), place \in {"done", "page"} :
          Goes(p, Turned(p, page, place)) /\ place = IF Over(p, page) THEN "done" ELSE "page"
    BY <1>2, PageTurned
  <2>. DEFINE n == call[p].n
              over == page = {} \/ Ends(n, Cardinality(call[p].base))
              seen == [r \in Rows |-> IF r \in page THEN call[p].seen[r] + 1 ELSE call[p].seen[r]]
              to == Turned(p, page, place)
  <2>1. Goes(p, to) /\ page \in SUBSET rows /\ Cardinality(page) = Cardinality(Places(n))
    BY <2>0 DEF Pages
  <2>2. /\ to.at = IF over THEN "done" ELSE "page"
        /\ to.n = n + 1 /\ to.seen = seen /\ to.walk = call[p].walk
        /\ to.steady = call[p].steady /\ to.base = call[p].base
        /\ to.new = call[p].new /\ to.met = call[p].met + Cardinality(page)
    BY <1>0, <2>0 DEF Calls, Turned, Over
  <2>. HIDE DEF to
  <2>3. ASSUME keyed, call[p].steady
        PROVE  (to.at = "page" => Underway(to, rows)) /\ (to.at = "done" => Finished(to))
    <3>1. Underway(call[p], rows)
      BY <1>2, <2>3 DEF WalkInv, WalkOk, ReadPage, At
    <3>2. n \in Nat \ {0} /\ call[p].base \subseteq rows /\ call[p].base \in SUBSET Rows
      BY <1>0, <3>1 DEF Underway
    <3>3. /\ (n - 1) * PageSize \in Nat /\ n * PageSize \in Nat
          /\ (n - 1) * PageSize < n * PageSize /\ (n + 1) - 1 = n
      BY <3>2, PageStep
    <3>4. /\ Cardinality(call[p].base) \in Nat /\ Cardinality(rows) \in Nat
          /\ Cardinality(call[p].base) <= Cardinality(rows)
      BY <1>0, <3>2, RowsFinite, FS_Subset
    <3>5. \A r \in rows : Rank(rows, r) \in 1..Cardinality(rows)
      BY <1>0, RankType
    <3>6. ASSUME NEW r \in Rows
          PROVE  r \in page <=> r \in rows /\ (n - 1) * PageSize < Rank(rows, r)
                                              /\ Rank(rows, r) <= n * PageSize
      <4>0. r \in page <=> r \in rows /\ Rank(rows, r) \in Places(n)
        BY <2>0, <2>3 DEF Pages, Place, Rank
      <4>1. r \in page <=> r \in rows /\ Rank(rows, r) \in (n - 1) * PageSize + 1 .. n * PageSize
        BY <3>5, <4>0 DEF Places
      <4>2. \A a \in Nat, b \in Nat, c \in Nat : c \in a + 1 .. b <=> a < c /\ c <= b
        OBVIOUS
      <4>3. r \in rows => Rank(rows, r) \in Nat
        BY <3>4, <3>5
      <4>. QED BY <3>3, <4>1, <4>2, <4>3
    <3>7. ASSUME NEW r \in Rows
          PROVE  seen[r] = IF r \in rows /\ Rank(rows, r) <= n * PageSize THEN 1 ELSE 0
      <4>1. call[p].seen[r] = IF r \in rows /\ Rank(rows, r) <= (n - 1) * PageSize THEN 1 ELSE 0
        BY <3>1 DEF Underway
      <4>2. seen[r] = IF r \in page THEN call[p].seen[r] + 1 ELSE call[p].seen[r]
        OBVIOUS
      <4>3. r \in rows => Rank(rows, r) \in Nat
        BY <3>4, <3>5
      <4>. HIDE DEF n, seen
      <4>. QED BY <3>3, <3>6, <4>1, <4>2, <4>3
    <3>8. CASE ~over
      <4>1. to.at = "page" /\ n * PageSize <= Cardinality(call[p].base)
        BY <2>2, <3>3, <3>4, <3>8 DEF Ends
      <4>. HIDE DEF n, over, seen
      <4>2. to.n \in Nat \ {0} /\ (to.n - 1) * PageSize = n * PageSize
        BY <2>2, <3>2, <3>3
      <4>. QED BY <2>2, <3>1, <3>7, <4>1, <4>2 DEF Underway
    <3>9. CASE over
      <4>1. to.at = "done"
        BY <2>2, <3>9
      <4>2. ASSUME NEW r \in call[p].base PROVE Rank(rows, r) <= n * PageSize
        <5>1. r \in rows /\ Rank(rows, r) \in 1..Cardinality(rows)
          BY <3>2, <3>5
        <5>2. CASE Ends(n, Cardinality(call[p].base))
          <6>1. \A s \in rows \ call[p].base : r < s
            BY <3>1 DEF Underway
          <6>2. \A s \in rows : s \in Int
            BY <1>0, DatabaseAssumption DEF Rows
          <6>3. Rank(call[p].base, r) = Rank(rows, r)
            BY <1>0, <3>1, <3>2, RankKept DEF Underway
          <6>4. Rank(call[p].base, r) <= Cardinality(call[p].base)
            BY <3>2, RankType
          <6>. QED BY <3>3, <3>4, <5>1, <5>2, <6>3, <6>4 DEF Ends
        <5>3. CASE page = {}
          <6>1. ~((n - 1) * PageSize + 1 \in 1..Cardinality(rows))
            <7>1. SUFFICES ASSUME (n - 1) * PageSize + 1 \in 1..Cardinality(rows) PROVE FALSE
              OBVIOUS
            <7>2. PICK s \in rows : Rank(rows, s) = (n - 1) * PageSize + 1
              BY <1>0, <7>1, RankOnto
            <7>3. s \in page
              BY <1>0, <3>3, <3>6, <7>2
            <7>. QED BY <5>3, <7>3
          <6>2. Cardinality(rows) <= (n - 1) * PageSize
            <7>. HIDE DEF n
            <7>. QED BY <3>3, <3>4, <6>1
          <6>. HIDE DEF n
          <6>. QED BY <3>3, <3>4, <5>1, <6>2
        <5>. QED BY <3>9, <5>2, <5>3
      <4>3. Finished(to)
        <5>. HIDE DEF n, over, seen
        <5>. QED BY <2>2, <3>2, <3>7, <4>2 DEF Finished
      <4>. QED BY <4>1, <4>3
    <3>. QED BY <3>8, <3>9
  <2>4. to.at \in {"page", "done"}
    BY <2>2
  <2>5. Counted(to, rows)
    <3>. SUFFICES ASSUME call[p].base \subseteq rows
                  PROVE  /\ to.at = "page" => /\ to.n \in Nat \ {0} /\ (to.n - 1) * PageSize <= Cardinality(to.base)
                                              /\ to.met = (to.n - 1) * PageSize
                         /\ to.at = "done" => Bounded(to)
      BY <2>2 DEF Counted
    <3>1. /\ n \in Nat \ {0} /\ (n - 1) * PageSize <= Cardinality(call[p].base)
          /\ call[p].met = (n - 1) * PageSize
      BY <1>2 DEF WalkInv, WalkOk, Counted, ReadPage, At
    <3>. DEFINE a == (n - 1) * PageSize
                b == n * PageSize
                all == Cardinality(rows)
                counted == Cardinality(call[p].base)
                size == Cardinality(page)
    <3>2. a \in Nat /\ b \in Nat /\ b = a + PageSize /\ PageSize \in Nat \ {0} /\ (n + 1) - 1 = n
      BY <3>1, PageStep, DatabaseAssumption
    <3>3. counted \in Nat /\ all \in Nat /\ counted <= all
      BY <1>0, RowsFinite, FS_Subset
    <3>4. size = IF b <= all THEN PageSize ELSE IF a <= all THEN all - a ELSE 0
      BY <1>0, <2>1, <3>1, PlacesSize
    <3>5. over <=> size = 0 \/ b >= counted
      <4>1. IsFiniteSet(page)
        BY <1>0, <2>1, RowsFinite
      <4>2. page = {} <=> size = 0
        BY <4>1, FS_EmptySet
      <4>. QED BY <4>2 DEF Ends
    <3>6. a <= counted /\ to.met = a + size
      BY <2>2, <3>1
    <3>7. Cardinality(to.base) = counted /\ (to.n - 1) * PageSize = b /\ to.n \in Nat \ {0}
      BY <2>2, <3>1, <3>2
    <3>. HIDE DEF a, b, all, counted, size, over, n
    <3>8. CASE over
      <4>1. Bounded(to)
        BY <3>2, <3>3, <3>4, <3>5, <3>6, <3>7, <3>8 DEF Bounded
      <4>. QED BY <2>2, <3>8, <4>1
    <3>9. CASE ~over
      <4>1. b <= counted /\ to.met = b
        BY <3>2, <3>3, <3>4, <3>5, <3>6, <3>9
      <4>. QED BY <2>2, <3>7, <3>9, <4>1
    <3>. QED BY <3>8, <3>9
  <2>6. WalkOk(to, rows)
    BY <1>2, <2>2, <2>3, <2>4, <2>5 DEF WalkOk
  <2>. QED BY <1>0, <2>1, <2>2, <2>6, OneWalks
<1>. QED BY <1>1, <1>2, PageTurned

(* A key drawn for a transaction is nobody else's. *)
LEMMA InTxWalks ==
  ASSUME TypeOK, WalkInv, NEW p \in Callers, InsertInTx(p), Plain(call[p])
  PROVE  WalkInv'
<1>. DEFINE to == [call[p] EXCEPT !.new = @ \union {drawn'}]
<1>0. /\ call \in [Callers -> Calls] /\ rows \in SUBSET Rows /\ drawn \in Nat /\ drawn' = drawn + 1
      /\ Goes(p, to) /\ rows' = rows /\ keyed' = keyed /\ Drawn /\ Apart
  <2>1. call \in [Callers -> Calls] /\ rows \in SUBSET Rows /\ drawn \in Nat
    BY CallsType, DrawnType
  <2>2. drawn' = drawn + 1 /\ Goes(p, to) /\ rows' = rows /\ keyed' = keyed
    BY DEF InsertInTx
  <2>. QED BY <2>1, <2>2 DEF WalkInv, Fresh
<1>1. to.new = call[p].new \union {drawn'} /\ to.base = call[p].base /\ Plain(to)
  BY <1>0 DEF Calls, Plain
<1>. HIDE DEF to
<1>2. \A q \in Callers : call'[q] = IF q = p THEN to ELSE call[q]
  BY <1>0 DEF Goes
<1>3. \A q \in Callers : /\ call'[q].new = IF q = p THEN call[p].new \union {drawn'} ELSE call[q].new
                         /\ call'[q].base = call[q].base
  BY <1>1, <1>2
<1>4. drawn' \notin rows /\ \A q \in Callers : drawn' \notin call[q].new /\ drawn' \notin call[q].base
  BY <1>0, DrawnKeys DEF Known
<1>5. Drawn'
  <2>1. \A q \in Callers : Known(call[q])' = Known(call'[q])
    BY DEF Known
  <2>2. \A q \in Callers : \A r \in Known(call'[q]) : r \in Known(call[q]) \/ r = drawn'
    BY <1>3 DEF Known
  <2>. QED BY <1>0, <2>1, <2>2, DrawnKeys DEF Drawn
<1>6. Apart'
  BY <1>0, <1>3, <1>4 DEF Apart
<1>7. Fresh'
  BY <1>5, <1>6 DEF Fresh
<1>8. \A q \in Callers : WalkOk(call'[q], rows)
  BY <1>1, <1>2 DEF WalkInv, WalkOk, Plain
<1>9. \A q \in Callers : WalkOk(call[q], rows)'
  BY <1>0, <1>8 DEF WalkOk, Underway, Rank, Counted, Bounded, Finished, Plain
<1>. QED BY <1>7, <1>9 DEF WalkInv

LEMMA StillWalks ==
  ASSUME WalkInv, UNCHANGED <<call, data>>
  PROVE  WalkInv'
BY DEF WalkInv, Fresh, Drawn, Apart, Known, WalkOk, Underway, Rank, Counted, Bounded, Finished, Plain, data

(* The other steps do not walk. *)
LEMMA WalkStep ==
  ASSUME TypeOK, WalkInv, NEW p \in Callers,
         \/ \E n \in Names : CheckName(p, n) \/ NewRepository(p, n)
         \/ Detach(p) \/ Use(p) \/ Alone(p) \/ OnPool(p) \/ Fails(p) \/ InTx(p)
  PROVE  WalkInv'
<1>0. call[p] \in Calls /\ rows \in SUBSET Rows /\ Typed
  BY CallsType, TypedIsType DEF TypeOK
<1>1. ASSUME call[p].at \notin {"page", "done"} PROVE Plain(call[p])
  BY <1>1 DEF WalkInv, WalkOk
<1>2. ASSUME NEW n \in Names, CheckName(p, n) PROVE WalkInv'
  <2>. DEFINE to == [Idle EXCEPT !.at = "open", !.name = n]
  <2>1. Plain(to) /\ to.new \subseteq call[p].new
    BY DEF Plain, Idle
  <2>. HIDE DEF to
  <2>. QED BY <1>2, <2>1, PlainWalks DEF CheckName, to
<1>3. ASSUME NEW n \in Names, NewRepository(p, n) PROVE WalkInv'
  BY <1>3, StillWalks DEF NewRepository
<1>4. CASE Detach(p)
  <2>. DEFINE to == [Idle EXCEPT !.at = "close", !.todo = {registry[n] : n \in Names} \ {None}]
  <2>1. Plain(to) /\ to.new \subseteq call[p].new
    BY DEF Plain, Idle
  <2>. HIDE DEF to
  <2>. QED BY <1>4, <2>1, PlainWalks DEF Detach, to
<1>5. CASE Use(p)
  <2>1. PICK c : Goes(p, [Idle EXCEPT !.at = "use", !.conn = c])
    BY <1>5 DEF Use
  <2>. DEFINE to == [Idle EXCEPT !.at = "use", !.conn = c]
  <2>2. Plain(to) /\ to.new \subseteq call[p].new
    BY DEF Plain, Idle
  <2>. HIDE DEF to
  <2>. QED BY <1>5, <2>1, <2>2, PlainWalks DEF Use, to
<1>6. CASE Open(p)
  <2>0. Plain(call[p]) /\ UNCHANGED data
    BY <1>1, <1>6 DEF Open, At
  <2>1. ASSUME NEW c \in Conns, Goes(p, [call[p] EXCEPT !.at = "register", !.conn = c]) PROVE WalkInv'
    <3>. DEFINE to == [call[p] EXCEPT !.at = "register", !.conn = c]
    <3>1. Plain(to) /\ to.new \subseteq call[p].new
      BY <1>0, <2>0 DEF Plain, Calls
    <3>. HIDE DEF to
    <3>. QED BY <2>0, <2>1, <3>1, PlainWalks DEF to
  <2>2. ASSUME Goes(p, NextTry(p)) PROVE WalkInv'
    <3>1. Plain(NextTry(p)) /\ NextTry(p).new \subseteq call[p].new
      BY <1>0, <2>0 DEF Plain, Calls, NextTry
    <3>. QED BY <2>0, <2>2, <3>1, PlainWalks
  <2>. QED BY <1>6, <2>0, <2>1, <2>2, OpenCases, ReturnWalks DEF Opens
<1>7. CASE Register(p)
  <2>0. Plain(call[p]) /\ UNCHANGED data
    BY <1>1, <1>7 DEF Register, At
  <2>1. ASSUME Discards(p) PROVE WalkInv'
    <3>. DEFINE to == [call[p] EXCEPT !.at = "discard"]
    <3>1. Plain(to) /\ to.new \subseteq call[p].new
      BY <1>0, <2>0 DEF Plain, Calls
    <3>. HIDE DEF to
    <3>. QED BY <2>0, <2>1, <3>1, PlainWalks DEF Discards, to
  <2>. QED BY <1>7, <2>0, <2>1, ReturnWalks DEF Register
<1>8. CASE CloseNext(p)
  <2>0. Plain(call[p]) /\ UNCHANGED data
    BY <1>1, <1>8 DEF CloseNext, At
  <2>1. ASSUME NEW c, Goes(p, [call[p] EXCEPT !.todo = @ \ {c}]) PROVE WalkInv'
    <3>. DEFINE to == [call[p] EXCEPT !.todo = @ \ {c}]
    <3>1. Plain(to) /\ to.new \subseteq call[p].new
      BY <1>0, <2>0 DEF Plain, Calls
    <3>. HIDE DEF to
    <3>. QED BY <2>0, <2>1, <3>1, PlainWalks DEF to
  <2>. QED BY <1>8, <2>0, <2>1, ReturnWalks DEF CloseNext
<1>9. CASE Discard(p) \/ Done(p) \/ Fails(p) \/ Rollback(p)
  BY <1>9, ReturnWalks DEF Discard, Done, Fails, Rollback
<1>10. CASE Statement(p)
  BY <1>10, InsertWalks, DeleteWalks, ReturnWalks DEF Statement, Look, data
<1>11. CASE Commit(p)
  BY <1>11, CommitWalks, ReturnWalks DEF Commit, data
<1>12. CASE Begin(p)
  <2>. DEFINE to == [call[p] EXCEPT !.at = "tx"]
  <2>0. Plain(call[p])
    BY <1>1, <1>12 DEF Begin, At
  <2>1. Plain(to) /\ to.new \subseteq call[p].new
    BY <1>0, <2>0 DEF Plain, Calls
  <2>. HIDE DEF to
  <2>. QED BY <1>12, <2>1, PlainWalks DEF Begin, to
<1>13. CASE InsertInTx(p)
  BY <1>1, <1>13, InTxWalks DEF InsertInTx, At
<1>. QED BY <1>2, <1>3, <1>4, <1>5, <1>6, <1>7, <1>8, <1>9, <1>10, <1>11, <1>12, <1>13,
            CountWalks, ReadPageWalks DEF Alone, OnPool, InTx

LEMMA WalkNext == TypeOK /\ WalkInv /\ [Next]_vars => WalkInv'
<1>. SUFFICES ASSUME TypeOK, WalkInv, [Next]_vars PROVE WalkInv'
  OBVIOUS
<1>1. CASE UNCHANGED vars
  BY <1>1, StillWalks DEF vars, data
<1>2. CASE Next
  BY <1>2, WalkStep DEF Next
<1>. QED BY <1>1, <1>2

LEMMA WalkInvariant == Spec => []WalkInv
<1>1. Init => WalkInv
  <2>1. WalkOk(Idle, rows) /\ Idle.new = {} /\ Idle.base = {}
    BY DEF WalkOk, Plain, Idle
  <2>2. Init => \A p \in Callers : call[p] = Idle
    BY DEF Init
  <2>3. Init => \A r \in rows : r <= drawn
    BY DatabaseAssumption DEF Init
  <2>4. Init => Fresh
    BY <2>1, <2>2, <2>3 DEF Fresh, Drawn, Apart, Known
  <2>. QED BY <2>1, <2>2, <2>4, Zenon DEF WalkInv
<1>. QED BY <1>1, WalkNext, DatabaseTypeCorrect, PTL DEF Spec

(* In a database that gives rows in the order of their key, PaginateQuery meets every
   row that it counted, and none twice, as long as no row goes and none appears
   before another under it. *)
THEOREM WalkCompleteCorrect == Spec => []WalkComplete
<1>1. WalkInv => WalkComplete
  BY DEF WalkInv, WalkOk, Finished, WalkComplete, At
<1>. QED BY <1>1, WalkInvariant, PTL

(* Whatever the order of the rows, PaginateQuery is given as many records as it has
   counted and at most a page more, unless one that it counted is deleted. *)
THEOREM WalkCountsCorrect == Spec => []WalkCounts
<1>1. WalkInv => WalkCounts
  BY DEF WalkInv, WalkOk, Counted, Bounded, WalkCounts, At
<1>. QED BY <1>1, WalkInvariant, PTL
=============================================================================
