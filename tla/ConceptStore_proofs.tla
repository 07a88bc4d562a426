------------------------- MODULE ConceptStore_proofs -------------------------
(***************************************************************************)
(* That the tables of concepts, terms and edges are sound, for every       *)
(* number of writers, localizers, labels and graphs, and however their     *)
(* statements come between one another.                                    *)
(*                                                                         *)
(* The argument.  A process that looks for a row and finds none locks the  *)
(* gap, and a gap that is locked stays empty of what others write (Clear). *)
(* So the row that it inserts in the end is the only one of its concept    *)
(* and language, in the tables and in all open transactions (OneRowEach),  *)
(* and its insert meets no duplicate.  What a process writes it holds      *)
(* exclusively (Exclusive, LocksOK), so that a count which was read is     *)
(* still the count when it is stored (CountsOK).  And a process that has   *)
(* met what another stored is in a place where it will find it again       *)
(* (ConceptOK): its recovery is by locking reads, and its plain reads see  *)
(* what it has found by plain reads.                                       *)
(*                                                                         *)
(* Each step is looked at three times: what it does (...Facts), what it    *)
(* leaves true of the process that takes it (Own...), and what of the      *)
(* others and of the tables (...Step).                                     *)
(***************************************************************************)
EXTENDS ConceptStore, FiniteSetTheorems, TLAPS

(* Where a process is while it names concepts, and where it has already    *)
(* found out which.                                                        *)
Naming == {"find", "enrich", "create", "lookUp", "preferred", "rename", "insert",
           "recover", "recoverKey", "lockConcept"}
Attaching == {"enrich", "lookUp", "preferred", "rename", "insert"}

(* Writers and localizers are not everywhere.                              *)
Place(p) ==
    IF p \in Writer THEN Naming \cup {"idle", "edge", "bump", "commit"}
    ELSE {"idle", "lookUp", "preferred", "rename", "insert", "commit"}

(* What every transaction has.                                             *)
TxFields == {"snap", "keys", "terms", "edges", "evidence", "locks"}

(* The tables of the processes have an entry for each of them.             *)
ShapeOK ==
    /\ DOMAIN pc = Process /\ DOMAIN at = Process /\ DOMAIN tx = Process
    /\ Norm \subseteq DOMAIN named
    /\ IsFiniteSet(DOMAIN terms)

(* What is there among the local variables, by the place.                  *)
PlaceOK(p) ==
    /\ pc[p] \in Place(p)
    /\ TxFields \subseteq DOMAIN tx[p]
    /\ IsFiniteSet(DOMAIN tx[p].terms)
    /\ pc[p] = "idle" => tx[p] = NoTx
    /\ p \in Localizer /\ pc[p] # "idle" => {"concept", "word", "grade"} \subseteq DOMAIN at[p]
    /\ p \in Writer /\ pc[p] # "idle" =>
         /\ {"graph", "i", "resolved"} \subseteq DOMAIN at[p]
         /\ at[p].graph \in Graphs
    /\ p \in Writer /\ pc[p] \in Naming => at[p].i \in DOMAIN at[p].graph.labels
    /\ p \in Writer /\ pc[p] \in Naming \ {"find"} =>
         /\ {"recovering", "attempt", "save", "concept"} \subseteq DOMAIN at[p]
         /\ at[p].recovering \in BOOLEAN
    /\ p \in Writer /\ pc[p] \in {"enrich", "create"} => ~at[p].recovering
    /\ pc[p] \in {"enrich", "rename"} => "id" \in DOMAIN at[p]
    /\ pc[p] = "enrich" => "read" \in DOMAIN at[p]

(* A nested transaction whose savepoint is still as it was.                *)
Nested(p) ==
    /\ p \in Writer /\ pc[p] \in {"enrich", "create", "lookUp", "preferred"}
    /\ ~at[p].recovering

(* The concepts that are there whatever becomes of the nested transaction. *)
KeysBefore(p) == IF Nested(p) THEN at[p].save.keys ELSE tx[p].keys

(* What plain reads of a transaction see of others.                        *)
Base(p) == IF tx[p].snap = None THEN Tables ELSE tx[p].snap

(* What there is of concepts and rows, stored or one's own, and the row as *)
(* a locking read has it; and the concepts that have an English one.       *)
Keys(p) == keys \cup tx[p].keys
AllIds(p) == DOMAIN terms \cup DOMAIN tx[p].terms
RowAt(p, i) == IF i \in DOMAIN tx[p].terms THEN tx[p].terms[i] ELSE terms[i]
English(p) == {RowAt(p, i).concept : i \in {j \in AllIds(p) : RowAt(p, j).locale = "en"}}

(* A snapshot is of a state of the tables that has been added to.          *)
BaseOK(p) ==
    LET base == Base(p) IN
    /\ base.keys \subseteq keys
    /\ DOMAIN base.terms \subseteq DOMAIN terms
    /\ \A i \in DOMAIN base.terms :
         /\ base.terms[i].concept \in base.keys
         /\ base.terms[i].concept = terms[i].concept
         /\ base.terms[i].locale = terms[i].locale

(* Nothing but a concept is written before the savepoint is given up.      *)
SaveOK(p) ==
    Nested(p) => at[p].save.terms = tx[p].terms /\ at[p].save.keys \subseteq tx[p].keys

(* A row is of a concept that is there.                                    *)
ConceptsOK(p) ==
    \A i \in DOMAIN tx[p].terms : tx[p].terms[i].concept \in keys \cup KeysBefore(p)

(* A row that the transaction wrote has a label it is done with, or a      *)
(* concept that plain reads see.                                           *)
SeenOK(p) ==
    p \in Writer /\ pc[p] \in Naming =>
      \A i \in DOMAIN tx[p].terms :
        \/ \E k \in 1..(at[p].i - 1) : tx[p].terms[i].norm = at[p].graph.labels[k]
        \/ tx[p].terms[i].concept \in Base(p).keys \cup KeysBefore(p)
        \/ pc[p] = "lockConcept" /\ tx[p].terms[i].norm = label(p)
        \/ pc[p] = "rename" /\ i = at[p].id

(* So is what a label was found to be, and it has an English row.          *)
ResolvedOK(p) ==
    p \in Writer /\ pc[p] # "idle" =>
      \A n \in DOMAIN at[p].resolved :
        /\ at[p].resolved[n] \in keys \cup KeysBefore(p)
        /\ at[p].resolved[n] \in English(p)

(* What a process has found out about the concept it is about to name.     *)
ConceptOK(p) ==
    /\ pc[p] \in Attaching \cup {"lockConcept"} => at[p].concept \in Keys(p)
    /\ p \in Writer /\ pc[p] \in Attaching /\ ~at[p].recovering =>
         at[p].concept \in Base(p).keys \cup tx[p].keys
    /\ pc[p] = "create" => at[p].concept = label(p)
    /\ pc[p] = "enrich" =>
         /\ at[p].id \in AllIds(p)
         /\ RowAt(p, at[p].id).concept = at[p].concept
         /\ RowAt(p, at[p].id).locale = "en"
    /\ pc[p] = "rename" =>
         /\ at[p].id \in DOMAIN tx[p].terms
         /\ tx[p].terms[at[p].id].concept = at[p].concept
         /\ tx[p].terms[at[p].id].locale = locale(p)
    /\ pc[p] = "lockConcept" => at[p].concept \in English(p)
    /\ pc[p] = "recover" =>
         \/ label(p) \in Keys(p)
         \/ \E i \in AllIds(p) : /\ Lock("X", Row(i)) \in tx[p].locks
                               /\ RowAt(p, i).norm = label(p)
                               /\ RowAt(p, i).locale = "en"
    /\ pc[p] = "recoverKey" => label(p) \in Keys(p)
    /\ pc[p] = "bump" => edgeOf(p) \in DOMAIN edges \cup DOMAIN tx[p].edges

(* Where a process is about to insert, it holds the gaps, and they are     *)
(* empty of what it has written itself.                                    *)
GapsOK(p) ==
    /\ pc[p] \in {"preferred", "rename", "insert"} =>
         /\ Lock("gap", SurfaceGap(locale(p), norm(p))) \in tx[p].locks
         /\ \A i \in DOMAIN tx[p].terms :
              ~(tx[p].terms[i].locale = locale(p) /\ tx[p].terms[i].norm = norm(p))
    /\ pc[p] = "insert" =>
         /\ Lock("gap", PreferredGap(at[p].concept, locale(p))) \in tx[p].locks
         /\ \A i \in DOMAIN tx[p].terms :
              ~(tx[p].terms[i].locale = locale(p) /\ tx[p].terms[i].concept = at[p].concept)

(* What a process has written, it holds exclusively.                       *)
LocksOK(p) ==
    /\ \A i \in DOMAIN tx[p].terms : Lock("X", Row(i)) \in tx[p].locks
    /\ \A e \in DOMAIN tx[p].edges : Lock("X", Edge(e)) \in tx[p].locks

(* An edge that it has counted is ahead of the table by its evidence.      *)
CountsOK(p) ==
    /\ DOMAIN tx[p].edges = DOMAIN tx[p].evidence
    /\ \A e \in DOMAIN tx[p].edges :
         /\ tx[p].evidence[e] \in Nat
         /\ tx[p].edges[e] = Rows(edges, e) + tx[p].evidence[e]

(* All of this, of one process.                                            *)
Own(p) ==
    /\ PlaceOK(p) /\ BaseOK(p) /\ SaveOK(p) /\ ConceptsOK(p) /\ SeenOK(p)
    /\ ResolvedOK(p) /\ ConceptOK(p) /\ GapsOK(p) /\ LocksOK(p) /\ CountsOK(p)

(* Two processes never hold one row or edge exclusively.                   *)
ExclusiveOK(p, q) ==
    \A a \in tx[p].locks : a.mode = "X" => a \notin tx[q].locks

(* A gap that p has locked stays empty of what others write, and what is   *)
(* stored in it has been written over by p.                                *)
ClearOK(p, q) ==
    \A i \in DOMAIN tx[q].terms :
      /\ Lock("gap", SurfaceGap(tx[q].terms[i].locale, tx[q].terms[i].norm)) \notin tx[p].locks
      /\ Lock("gap", PreferredGap(tx[q].terms[i].concept, tx[q].terms[i].locale)) \notin tx[p].locks

(* And of what is stored.                                                  *)
StoredClearOK(p) ==
    \A i \in DOMAIN terms :
      /\ Lock("gap", SurfaceGap(terms[i].locale, terms[i].norm)) \in tx[p].locks
           => i \in DOMAIN tx[p].terms
      /\ Lock("gap", PreferredGap(terms[i].concept, terms[i].locale)) \notin tx[p].locks

(* Ids are one to one with pairs of a concept and a language, in the       *)
(* tables and in all transactions.                                         *)
Tags(t) == {<<i, t[i].concept, t[i].locale>> : i \in DOMAIN t}
AllTags == Tags(terms) \cup UNION {Tags(tx[q].terms) : q \in Process}
OneRowEach == \A a, b \in AllTags : a[1] = b[1] <=> (a[2] = b[2] /\ a[3] = b[3])

(* The tables.                                                             *)
TablesOK ==
    /\ \A i \in DOMAIN terms : terms[i].concept \in keys
    /\ \A e \in DOMAIN edges : edges[e] \in Nat
    /\ EdgesAreCounted
    /\ NamedInEnglish
    /\ OneRowEach

(* The inductive invariant.                                                *)
AllOwn == \A p \in Process : Own(p)
Exclusive == \A p \in Process : \A q \in Process \ {p} : ExclusiveOK(p, q)
Clear == /\ \A p \in Process : StoredClearOK(p)
         /\ \A p \in Process : \A q \in Process \ {p} : ClearOK(p, q)

IInv == ShapeOK /\ TablesOK /\ AllOwn /\ Exclusive /\ Clear

(* What the operators on tables return.                                    *)
LEMMA UpdatedFacts ==
    ASSUME NEW f, NEW new
    PROVE  /\ DOMAIN Updated(f, new) = DOMAIN f \cup DOMAIN new
           /\ \A x \in DOMAIN new : Updated(f, new)[x] = new[x]
           /\ \A x \in DOMAIN f \ DOMAIN new : Updated(f, new)[x] = f[x]
BY DEF Updated

(* The same of one entry.                                                  *)
LEMMA PutFacts ==
    ASSUME NEW f, NEW x, NEW v
    PROVE  /\ DOMAIN Put(f, x, v) = DOMAIN f \cup {x}
           /\ Put(f, x, v)[x] = v
           /\ \A y \in DOMAIN f \ {x} : Put(f, x, v)[y] = f[y]
BY DEF Put, Updated, Only

(* What a transaction is after some of its fields are set.                 *)
TxIs(p, s, k, t, e, v, l) ==
    /\ TxFields \subseteq DOMAIN tx'[p]
    /\ tx'[p].snap = s /\ tx'[p].keys = k /\ tx'[p].terms = t
    /\ tx'[p].edges = e /\ tx'[p].evidence = v /\ tx'[p].locks = l

(* The other processes keep what is theirs.                                *)
OthersTx(p) == DOMAIN tx' = Process /\ \A q \in Process \ {p} : tx'[q] = tx[q]
LocalIs(p) == DOMAIN at' = Process /\ \A q \in Process \ {p} : at'[q] = at[q]
PcIs(p) == DOMAIN pc' = Process /\ \A q \in Process \ {p} : pc'[q] = pc[q]

(* A transaction can be written to.                                        *)
TxShape(p) == DOMAIN tx = Process /\ TxFields \subseteq DOMAIN tx[p]

(* What a write leaves of the transaction, and of the others.              *)
LEMMA SetsFacts ==
    ASSUME NEW p \in Process, NEW new, TxShape(p), Sets(p, new)
    PROVE  /\ OthersTx(p)
           /\ tx'[p] = Updated(tx[p], new)
           /\ TxFields \subseteq DOMAIN tx'[p]
           /\ \A x \in DOMAIN new : tx'[p][x] = new[x]
           /\ \A x \in DOMAIN tx[p] \ DOMAIN new : tx'[p][x] = tx[p][x]
<1>1. OthersTx(p) /\ tx'[p] = Updated(tx[p], new)
  BY DEF Sets, OthersTx, TxShape
<1> QED BY <1>1 DEF TxShape, Updated

(* A statement that only locks.                                            *)
LEMMA JustLocksTx ==
    ASSUME NEW p \in Process, TxShape(p), JustLocks(p)
    PROVE  /\ OthersTx(p)
           /\ TxIs(p, tx[p].snap, tx[p].keys, tx[p].terms, tx[p].edges,
                   tx[p].evidence, tx[p].locks \cup Taken(p))
<1>1. Sets(p, [locks |-> tx[p].locks \cup Taken(p)])
  BY DEF JustLocks, Locks
<1> QED BY <1>1, SetsFacts DEF TxIs, TxFields, TxShape

(* One that locks a gap.                                                   *)
LEMMA GapTx ==
    ASSUME NEW p \in Process, TxShape(p), NEW on, Gap(p, on)
    PROVE  /\ OthersTx(p)
           /\ TxIs(p, tx[p].snap, tx[p].keys, tx[p].terms, tx[p].edges,
                   tx[p].evidence, tx[p].locks \cup Taken(p) \cup {Lock("gap", on)})
<1>1. Sets(p, [locks |-> tx[p].locks \cup Taken(p) \cup {Lock("gap", on)}])
  BY DEF Gap, Locks
<1> QED BY <1>1, SetsFacts DEF TxIs, TxFields, TxShape

(* One that writes a row.                                                  *)
LEMMA WritesRowTx ==
    ASSUME NEW p \in Process, TxShape(p), NEW i, NEW row, WritesRow(p, i, row)
    PROVE  /\ OthersTx(p)
           /\ TxIs(p, tx[p].snap, tx[p].keys, Put(tx[p].terms, i, row), tx[p].edges,
                   tx[p].evidence, tx[p].locks \cup Taken(p))
<1> DEFINE new == Updated(Locks(p, {}), [terms |-> Put(tx[p].terms, i, row)])
<1>1. Sets(p, new)
  BY DEF WritesRow, Writes
<1>2. /\ DOMAIN new = {"locks", "terms"}
      /\ new.locks = tx[p].locks \cup Taken(p)
      /\ new.terms = Put(tx[p].terms, i, row)
  BY DEF Locks, Updated
<1> HIDE DEF new
<1> QED BY <1>1, <1>2, SetsFacts DEF TxIs, TxFields, TxShape

(* One that adds a concept.                                                *)
LEMMA WritesKeysTx ==
    ASSUME NEW p \in Process, TxShape(p), NEW k, Writes(p, [keys |-> k])
    PROVE  /\ OthersTx(p)
           /\ TxIs(p, tx[p].snap, k, tx[p].terms, tx[p].edges,
                   tx[p].evidence, tx[p].locks \cup Taken(p))
<1> DEFINE new == Updated(Locks(p, {}), [keys |-> k])
<1>1. Sets(p, new)
  BY DEF Writes
<1>2. DOMAIN new = {"locks", "keys"} /\ new.locks = tx[p].locks \cup Taken(p) /\ new.keys = k
  BY DEF Locks, Updated
<1> HIDE DEF new
<1> QED BY <1>1, <1>2, SetsFacts DEF TxIs, TxFields, TxShape

(* One that writes an edge and its evidence.                               *)
LEMMA WritesEdgeTx ==
    ASSUME NEW p \in Process, TxShape(p), NEW e, NEW n, WritesEdge(p, e, n)
    PROVE  /\ OthersTx(p)
           /\ TxIs(p, tx[p].snap, tx[p].keys, tx[p].terms, Put(tx[p].edges, e, n),
                   Put(tx[p].evidence, e, Rows(tx[p].evidence, e) + 1),
                   tx[p].locks \cup Taken(p))
<1> DEFINE more == [edges |-> Put(tx[p].edges, e, n),
                    evidence |-> Put(tx[p].evidence, e, Rows(tx[p].evidence, e) + 1)]
           new == Updated(Locks(p, {}), more)
<1>1. Sets(p, new)
  BY DEF WritesEdge, Writes
<1>2. /\ DOMAIN new = {"locks", "edges", "evidence"}
      /\ new.locks = tx[p].locks \cup Taken(p)
      /\ new.edges = Put(tx[p].edges, e, n)
      /\ new.evidence = Put(tx[p].evidence, e, Rows(tx[p].evidence, e) + 1)
  BY DEF Locks, Updated
<1> HIDE DEF new
<1> QED BY <1>1, <1>2, SetsFacts DEF TxIs, TxFields, TxShape

(* One that takes a snapshot.                                              *)
LEMMA SnapTx ==
    ASSUME NEW p \in Process, TxShape(p), NEW s, Sets(p, [snap |-> s])
    PROVE  /\ OthersTx(p)
           /\ TxIs(p, s, tx[p].keys, tx[p].terms, tx[p].edges, tx[p].evidence, tx[p].locks)
BY SetsFacts DEF TxIs, TxFields, TxShape

(* What the return to the savepoint takes away; locks on it go with it.    *)
Gone(p) == {Key(n) : n \in tx[p].keys \ at[p].save.keys}
           \cup {Row(i) : i \in DOMAIN tx[p].terms
                                \ (DOMAIN at[p].save.terms \cup DOMAIN terms)}
(* The return to the savepoint.                                            *)
LEMMA UndoneTx ==
    ASSUME NEW p \in Process, TxShape(p), Undone(p)
    PROVE  /\ OthersTx(p)
           /\ TxIs(p, tx[p].snap, at[p].save.keys, at[p].save.terms, tx[p].edges,
                   tx[p].evidence,
                   {a \in tx[p].locks \cup Taken(p) : a.on \notin Gone(p)})
<1>1. Sets(p, [keys |-> at[p].save.keys, terms |-> at[p].save.terms,
               locks |-> {a \in tx[p].locks \cup Taken(p) : a.on \notin Gone(p)}])
  BY DEF Undone, Gone
<1> QED BY <1>1, SetsFacts DEF TxIs, TxFields, TxShape

(* A transaction that has not begun is empty.                              *)
LEMMA NoTxFields ==
    /\ TxFields \subseteq DOMAIN NoTx
    /\ NoTx.snap = None /\ NoTx.keys = {} /\ NoTx.locks = {}
    /\ DOMAIN NoTx.terms = {} /\ DOMAIN NoTx.edges = {} /\ DOMAIN NoTx.evidence = {}
BY DEF NoTx, Empty, TxFields

(* The place of a process after a step.                                    *)
LEMMA GotoFacts ==
    ASSUME NEW p \in Process, NEW to, DOMAIN pc = Process, Goto(p, to)
    PROVE  PcIs(p) /\ pc'[p] = to
BY DEF Goto, PcIs

(* Its local variables.                                                    *)
LEMMA LocalFacts ==
    ASSUME NEW p \in Process, NEW new, DOMAIN at = Process, Local(p, new)
    PROVE  /\ LocalIs(p)
           /\ DOMAIN at'[p] = DOMAIN at[p] \cup DOMAIN new
           /\ \A x \in DOMAIN new : at'[p][x] = new[x]
           /\ \A x \in DOMAIN at[p] \ DOMAIN new : at'[p][x] = at[p][x]
<1>1. LocalIs(p) /\ at'[p] = Updated(at[p], new)
  BY DEF Local, LocalIs
<1> QED BY <1>1 DEF Updated

(* What a statement locks, by the place.                                   *)
LEMMA WantsFacts ==
    ASSUME NEW p \in Process
    PROVE  /\ pc[p] = "enrich" =>
                Wants(p) = IF Dirty(p, at[p].read) THEN All("X", {at[p].id}) ELSE {}
           /\ pc[p] = "create" =>
                Wants(p) = {Lock(IF Exists(label(p)) THEN "S" ELSE "X", Key(label(p)))}
           /\ pc[p] \in {"lookUp", "recover"} =>
                Wants(p) = All("X", MetBySurface(locale(p), norm(p)))
           /\ pc[p] = "preferred" => Wants(p) = All("X", MetByConcept(at[p].concept, locale(p)))
           /\ pc[p] = "rename" =>
                Wants(p) = All("S", MetBySurface(locale(p), norm(p)) \ {at[p].id})
                           \cup {Lock("insert", SurfaceGap(locale(p), norm(p)))}
           /\ pc[p] = "insert" =>
                Wants(p) = All("S", MetBySurface(locale(p), norm(p)))
                           \cup {Lock("insert", SurfaceGap(locale(p), norm(p))),
                                 Lock("insert", PreferredGap(at[p].concept, locale(p))),
                                 Lock("S", Key(at[p].concept)), Lock("X", Row(NewId))}
           /\ pc[p] = "recoverKey" =>
                Wants(p) = IF Exists(label(p)) THEN {Lock("X", Key(label(p)))} ELSE {}
           /\ pc[p] = "lockConcept" => Wants(p) = {Lock("X", Key(at[p].concept))}
           /\ pc[p] = "edge" =>
                Wants(p) = {Lock(IF Linked(edgeOf(p)) THEN "S" ELSE "X", Edge(edgeOf(p)))}
                           \cup {Lock("S", Key(c2)) : c2 \in {edgeOf(p)[1], edgeOf(p)[2]}}
           /\ pc[p] = "bump" => Wants(p) = {Lock("X", Edge(edgeOf(p)))}
BY DEF Wants

(* What is granted is not held by another in a mode that clashes.          *)
LEMMA GrantedFacts ==
    ASSUME NEW p \in Process, Granted(p), NEW q \in Process \ {p},
           NEW a \in Wants(p), NEW b \in tx[q].locks
    PROVE  ~Clash(a, b)
BY DEF Granted, WaitsFor

(* Locks are told apart by their modes and by what they are on.            *)
LEMMA LockFacts ==
    /\ \A m, o : Lock(m, o).mode = m /\ Lock(m, o).on = o
    /\ \A m, o, k, r : Lock(m, o) = Lock(k, r) <=> m = k /\ o = r
    /\ \A i, j : Row(i) = Row(j) <=> i = j
    /\ \A i, j : Edge(i) = Edge(j) <=> i = j
    /\ \A i, j : Key(i) = Key(j) <=> i = j
    /\ \A i, j : Row(i) # Key(j) /\ Row(i) # Edge(j) /\ Edge(i) # Key(j)
    /\ \A l, n, k, m : SurfaceGap(l, n) = SurfaceGap(k, m) <=> l = k /\ n = m
    /\ \A l, n, k, m : PreferredGap(l, n) = PreferredGap(k, m) <=> l = k /\ n = m
    /\ \A l, n, k, m : PreferredGap(l, n) # SurfaceGap(k, m)
BY DEF Lock, Row, Edge, Key, SurfaceGap, PreferredGap

(* What is wanted by an exclusive lock is not locked by others; what they  *)
(* hold exclusively is not shared.                                         *)
LEMMA GrantedX ==
    ASSUME NEW p \in Process, Granted(p), NEW q \in Process \ {p}, NEW o
    PROVE  /\ Lock("X", o) \in Wants(p) => Lock("X", o) \notin tx[q].locks
           /\ Lock("S", o) \in Wants(p) => Lock("X", o) \notin tx[q].locks
           /\ Lock("insert", o) \in Wants(p) => Lock("gap", o) \notin tx[q].locks
<1>1. /\ Clash(Lock("X", o), Lock("X", o)) /\ Clash(Lock("S", o), Lock("X", o))
      /\ Clash(Lock("insert", o), Lock("gap", o))
  BY LockFacts DEF Clash
<1> QED BY <1>1, GrantedFacts

(* What locking reads see.                                                 *)
LEMMA CurrentFacts ==
    ASSUME NEW p
    PROVE  /\ Current(p).keys = Keys(p)
           /\ DOMAIN Current(p).terms = AllIds(p)
           /\ \A i \in AllIds(p) : Current(p).terms[i] = RowAt(p, i)
           /\ DOMAIN Current(p).edges = DOMAIN edges \cup DOMAIN tx[p].edges
           /\ \A e \in DOMAIN edges \cup DOMAIN tx[p].edges :
                Current(p).edges[e] = IF e \in DOMAIN tx[p].edges THEN tx[p].edges[e]
                                      ELSE edges[e]
BY DEF Current, Over, Tables, Updated, Keys, AllIds, RowAt

(* What plain reads see.                                                   *)
LEMMA ViewFacts ==
    ASSUME NEW p
    PROVE  /\ View(p).keys = Base(p).keys \cup tx[p].keys
           /\ DOMAIN View(p).terms = DOMAIN Base(p).terms \cup DOMAIN tx[p].terms
           /\ \A i \in DOMAIN View(p).terms :
                View(p).terms[i] = IF i \in DOMAIN tx[p].terms THEN tx[p].terms[i]
                                   ELSE Base(p).terms[i]
<1>1. View(p) = Over(Base(p), tx[p])
  BY DEF View, Base
<1> QED BY <1>1 DEF Over, Updated

(* A locking read meets whatever it can return.                            *)
LEMMA MetFacts ==
    ASSUME NEW p \in Process
    PROVE  /\ \A i \in DOMAIN tx[p].terms :
                /\ i \in MetBySurface(tx[p].terms[i].locale, tx[p].terms[i].norm)
                /\ i \in MetByConcept(tx[p].terms[i].concept, tx[p].terms[i].locale)
           /\ \A i \in DOMAIN terms :
                /\ i \in MetBySurface(terms[i].locale, terms[i].norm)
                /\ i \in MetByConcept(terms[i].concept, terms[i].locale)
<1>1. Tables \in Versions /\ Tables.terms = terms
  BY DEF Versions, Tables
<1>2. [Tables EXCEPT !.terms = tx[p].terms] \in Versions
  BY DEF Versions
<1>3. [Tables EXCEPT !.terms = tx[p].terms].terms = tx[p].terms
  <2>1. "terms" \in DOMAIN Tables
    BY DEF Tables
  <2> QED BY <2>1, Zenon
<1>2a. PICK v \in Versions : v.terms = tx[p].terms
  BY <1>2, <1>3, Zenon
<1>4. \A i \in DOMAIN tx[p].terms :
        /\ i \in MetBySurface(tx[p].terms[i].locale, tx[p].terms[i].norm)
        /\ i \in MetByConcept(tx[p].terms[i].concept, tx[p].terms[i].locale)
  BY <1>2a DEF MetBySurface, MetByConcept, Surface, Preferred
<1>5. \A i \in DOMAIN terms :
        /\ i \in MetBySurface(terms[i].locale, terms[i].norm)
        /\ i \in MetByConcept(terms[i].concept, terms[i].locale)
  BY <1>1 DEF MetBySurface, MetByConcept, Surface, Preferred
<1> QED BY <1>4, <1>5

(* Rows that a locking read returns.                                       *)
FoundRows(p, l, n) == {i \in AllIds(p) : RowAt(p, i).locale = l /\ RowAt(p, i).norm = n}

(* The rows of a concept in a language.                                    *)
ConceptRows(p, c, l) == {i \in AllIds(p) : RowAt(p, i).locale = l /\ RowAt(p, i).concept = c}
(* What the two lookups return, in terms of RowAt.                         *)
LEMMA ReadFacts ==
    ASSUME NEW p \in Process, NEW l, NEW n
    PROVE  /\ Surface(Current(p), l, n) = FoundRows(p, l, n)
           /\ Preferred(Current(p), n, l) = ConceptRows(p, n, l)
           /\ FoundRows(p, l, n) \subseteq MetBySurface(l, n)
           /\ ConceptRows(p, n, l) \subseteq MetByConcept(n, l)
<1>1. Surface(Current(p), l, n) = FoundRows(p, l, n)
  BY CurrentFacts DEF Surface, FoundRows
<1>2. Preferred(Current(p), n, l) = ConceptRows(p, n, l)
  BY CurrentFacts DEF Preferred, ConceptRows
<1> QED BY <1>1, <1>2, MetFacts DEF FoundRows, ConceptRows, AllIds, RowAt

(* What can become of a transaction in one step, in words for the cases    *)
(* below.                                                                  *)
SameTx(p) == TxIs(p, tx[p].snap, tx[p].keys, tx[p].terms, tx[p].edges, tx[p].evidence,
                  tx[p].locks)
OnlyLocks(p, more) == TxIs(p, tx[p].snap, tx[p].keys, tx[p].terms, tx[p].edges,
                           tx[p].evidence, tx[p].locks \cup Taken(p) \cup more)

(* A row is written.                                                       *)
RowWritten(p, i, c, l, n) ==
    \E row : /\ row.concept = c /\ row.locale = l /\ row.norm = n
             /\ TxIs(p, tx[p].snap, tx[p].keys, Put(tx[p].terms, i, row), tx[p].edges,
                     tx[p].evidence, tx[p].locks \cup Taken(p))

(* One that is there already keeps its concept, its language and its       *)
(* label.                                                                  *)
RowKept(p, i) ==
    /\ i \in AllIds(p) /\ Lock("X", Row(i)) \in Wants(p)
    /\ RowWritten(p, i, RowAt(p, i).concept, RowAt(p, i).locale, RowAt(p, i).norm)

(* The others keep everything; and what a process keeps of its own.        *)
Frame(p) == OthersTx(p) /\ LocalIs(p) /\ PcIs(p)
KeepsLocal(p) == at'[p] = at[p]

(* The label is done: the next one, or the edges.                          *)
GoesOn(w, c) ==
    /\ {"graph", "i", "resolved"} \subseteq DOMAIN at'[w]
    /\ at'[w].graph = at[w].graph
    /\ DOMAIN at'[w].resolved = DOMAIN at[w].resolved \cup {label(w)}
    /\ \A n \in DOMAIN at'[w].resolved :
         at'[w].resolved[n] = IF n = label(w) THEN c ELSE at[w].resolved[n]
    /\ \/ /\ pc'[w] = "find"
          /\ at'[w].i = at[w].i + 1 /\ at[w].i < Len(at[w].graph.labels)
       \/ pc'[w] \in {"commit", "edge"}

(* The columns of a row.                                                   *)
LEMMA TermRowFacts ==
    \A c, l, n, t, g : /\ TermRow(c, l, n, t, g).concept = c
                       /\ TermRow(c, l, n, t, g).locale = l
                       /\ TermRow(c, l, n, t, g).norm = n
<1> SUFFICES ASSUME NEW c, NEW l, NEW n, NEW t, NEW g
             PROVE  LET row == TermRow(c, l, n, t, g)
                    IN row.concept = c /\ row.locale = l /\ row.norm = n
  OBVIOUS
<1> QED BY DEF TermRow

(* What a process does that has found the concept of a label.              *)
LEMMA FoundFacts ==
    ASSUME ShapeOK, NEW w \in Process, NEW c, Found(w, c)
    PROVE  LocalIs(w) /\ PcIs(w) /\ GoesOn(w, c)
<1>1. at' = [at EXCEPT ![w] =
        [graph |-> at[w].graph,
         i |-> IF at[w].i < Len(at[w].graph.labels) THEN at[w].i + 1 ELSE 1,
         resolved |-> Put(at[w].resolved, label(w), c)]]
  BY DEF Found
<1>2. LocalIs(w) /\ at'[w] = [graph |-> at[w].graph,
         i |-> IF at[w].i < Len(at[w].graph.labels) THEN at[w].i + 1 ELSE 1,
         resolved |-> Put(at[w].resolved, label(w), c)]
  BY <1>1 DEF LocalIs, ShapeOK
<1>3. /\ {"graph", "i", "resolved"} \subseteq DOMAIN at'[w]
      /\ at'[w].graph = at[w].graph
      /\ at'[w].i = IF at[w].i < Len(at[w].graph.labels) THEN at[w].i + 1 ELSE 1
      /\ at'[w].resolved = Put(at[w].resolved, label(w), c)
  BY <1>2
<1>4. /\ DOMAIN at'[w].resolved = DOMAIN at[w].resolved \cup {label(w)}
      /\ \A n \in DOMAIN at'[w].resolved :
           at'[w].resolved[n] = IF n = label(w) THEN c ELSE at[w].resolved[n]
  BY <1>3 DEF Put, Updated, Only
<1>5. PcIs(w) /\ pc'[w] = IF at[w].i < Len(at[w].graph.labels) THEN "find"
                          ELSE IF kept(at[w].graph) = <<>> THEN "commit" ELSE "edge"
  BY GotoFacts DEF Found, ShapeOK
<1> QED BY <1>2, <1>3, <1>4, <1>5 DEF GoesOn

(* What enrichTerm() leaves as it is.                                      *)
LEMMA EnrichesFacts ==
    ASSUME NEW p \in Process, TxShape(p), NEW i \in AllIds(p), EnrichesLocked(p, i),
           Lock("X", Row(i)) \in Wants(p)
    PROVE  OthersTx(p) /\ RowKept(p, i)
<1>1. PICK row : /\ WritesRow(p, i, row)
                 /\ row.concept = RowAt(p, i).concept /\ row.locale = RowAt(p, i).locale
                 /\ row.norm = RowAt(p, i).norm
  BY CurrentFacts, TermRowFacts DEF EnrichesLocked, Enriched
<1> QED BY <1>1, WritesRowTx DEF RowKept, RowWritten

(* What the facts about single steps are stated under.                     *)
Able(p) == p \in Process /\ ShapeOK /\ PlaceOK(p)

(* It allows writing.                                                      *)
LEMMA AbleTx == ASSUME NEW p, Able(p) PROVE p \in Process /\ TxShape(p)
BY DEF Able, ShapeOK, PlaceOK, TxShape

(* What is kept of the local variables when a label is looked for.         *)
StaysOn(w) ==
    /\ {"graph", "i", "resolved"} \subseteq DOMAIN at'[w]
    /\ at'[w].graph = at[w].graph /\ at'[w].i = at[w].i
    /\ at'[w].resolved = at[w].resolved

(* A graph begins with its first label.                                    *)
LEMMA StartFacts ==
    ASSUME NEW w \in Writer, Able(w), NEW g \in Graphs, Start(w, g)
    PROVE  /\ pc[w] = "idle" /\ pc'[w] = "find" /\ Stored /\ UNCHANGED tx
           /\ LocalIs(w) /\ PcIs(w)
           /\ {"graph", "i", "resolved"} \subseteq DOMAIN at'[w]
           /\ at'[w].graph = g /\ at'[w].i = 1 /\ DOMAIN at'[w].resolved = {}
<1>1. at' = [at EXCEPT ![w] = [graph |-> g, i |-> 1, resolved |-> Empty]]
  BY DEF Start
<1>2. LocalIs(w) /\ at'[w] = [graph |-> g, i |-> 1, resolved |-> Empty]
  BY <1>1 DEF LocalIs, Able, ShapeOK
<1> QED BY <1>2, GotoFacts DEF Start, Able, ShapeOK, Empty

(* A row that a plain read of the label returns.                           *)
Sought(w, i, l) == /\ i \in DOMAIN View(w).terms /\ View(w).terms[i].locale = l
                   /\ View(w).terms[i].norm = label(w)
(* The three ways on from the plain read.                                  *)
LEMMA FindFacts ==
    ASSUME NEW w \in Writer, Able(w), Find(w)
    PROVE  /\ pc[w] = "find" /\ Stored /\ Frame(w)
           /\ TxIs(w, Base(w), tx[w].keys, tx[w].terms, tx[w].edges, tx[w].evidence,
                   tx[w].locks)
           /\ StaysOn(w)
           /\ {"recovering", "attempt", "save", "concept"} \subseteq DOMAIN at'[w]
           /\ at'[w].recovering = FALSE /\ at'[w].save = tx[w]
           /\ \/ \E i : /\ Sought(w, i, "en") /\ pc'[w] = "enrich"
                        /\ {"id", "read"} \subseteq DOMAIN at'[w]
                        /\ at'[w].id = i /\ at'[w].concept = View(w).terms[i].concept
              \/ \E i : /\ Sought(w, i, "es") /\ pc'[w] = "lookUp"
                        /\ at'[w].concept = View(w).terms[i].concept
              \/ pc'[w] = "create" /\ at'[w].concept = label(w)
<1> DEFINE base == [recovering |-> FALSE, attempt |-> 0, save |-> tx[w]]
<1>0. pc[w] = "find" /\ Stored /\ {"graph", "i", "resolved"} \subseteq DOMAIN at[w]
      /\ DOMAIN pc = Process /\ DOMAIN at = Process
  BY DEF Find, Able, PlaceOK, ShapeOK, Naming, Process
<1>1. OthersTx(w) /\ TxIs(w, Base(w), tx[w].keys, tx[w].terms, tx[w].edges,
                          tx[w].evidence, tx[w].locks)
  <2>1. Sets(w, [snap |-> Base(w)])
    BY DEF Find, Base
  <2> QED BY <2>1, SnapTx, AbleTx
<1>2. ASSUME NEW c, Local(w, Updated(base, [concept |-> c])), NEW to, Goto(w, to)
      PROVE  /\ LocalIs(w) /\ PcIs(w) /\ StaysOn(w) /\ pc'[w] = to
             /\ {"recovering", "attempt", "save", "concept"} \subseteq DOMAIN at'[w]
             /\ at'[w].recovering = FALSE /\ at'[w].save = tx[w] /\ at'[w].concept = c
  <2> DEFINE new == Updated(base, [concept |-> c])
  <2>1. /\ DOMAIN new = {"recovering", "attempt", "save", "concept"}
        /\ new.recovering = FALSE /\ new.save = tx[w] /\ new.concept = c
    BY DEF Updated
  <2> HIDE DEF new
  <2>2. Local(w, new)
    BY <1>2 DEF new
  <2>3. /\ LocalIs(w) /\ DOMAIN at'[w] = DOMAIN at[w] \cup DOMAIN new
        /\ \A x \in DOMAIN new : at'[w][x] = new[x]
        /\ \A x \in DOMAIN at[w] \ DOMAIN new : at'[w][x] = at[w][x]
    BY <2>2, <1>0, AbleTx, LocalFacts
  <2> QED BY <1>0, <1>2, AbleTx, <2>1, <2>3, GotoFacts DEF StaysOn
<1>3. ASSUME NEW i, NEW r, NEW c,
             Local(w, Updated(base, [id |-> i, read |-> r, concept |-> c])),
             NEW to, Goto(w, to)
      PROVE  /\ LocalIs(w) /\ PcIs(w) /\ StaysOn(w) /\ pc'[w] = to
             /\ {"recovering", "attempt", "save", "concept"} \subseteq DOMAIN at'[w]
             /\ {"id", "read"} \subseteq DOMAIN at'[w] /\ at'[w].id = i
             /\ at'[w].recovering = FALSE /\ at'[w].save = tx[w] /\ at'[w].concept = c
  <2> DEFINE new == Updated(base, [id |-> i, read |-> r, concept |-> c])
  <2>1. /\ DOMAIN new = {"recovering", "attempt", "save", "id", "read", "concept"}
        /\ new.recovering = FALSE /\ new.save = tx[w] /\ new.concept = c /\ new.id = i
    BY DEF Updated
  <2> HIDE DEF new
  <2>2. Local(w, new)
    BY <1>3 DEF new
  <2>3. /\ LocalIs(w) /\ DOMAIN at'[w] = DOMAIN at[w] \cup DOMAIN new
        /\ \A x \in DOMAIN new : at'[w][x] = new[x]
        /\ \A x \in DOMAIN at[w] \ DOMAIN new : at'[w][x] = at[w][x]
    BY <2>2, <1>0, AbleTx, LocalFacts
  <2> QED BY <1>0, <1>3, AbleTx, <2>1, <2>3, GotoFacts DEF StaysOn
<1> HIDE DEF base
<1>4. \/ \E i : /\ Sought(w, i, "en") /\ Goto(w, "enrich")
                /\ Local(w, Updated(base, [id |-> i, read |-> View(w).terms[i],
                                           concept |-> View(w).terms[i].concept]))
      \/ \E i : /\ Sought(w, i, "es") /\ Goto(w, "lookUp")
                /\ Local(w, Updated(base, [concept |-> View(w).terms[i].concept]))
      \/ Goto(w, "create") /\ Local(w, Updated(base, [concept |-> label(w)]))
  BY DEF Find, Surface, Sought, base
<1>5. CASE \E i : /\ Sought(w, i, "en") /\ Goto(w, "enrich")
                  /\ Local(w, Updated(base, [id |-> i, read |-> View(w).terms[i],
                                             concept |-> View(w).terms[i].concept]))
  <2>1. PICK i : /\ Sought(w, i, "en") /\ Goto(w, "enrich")
                 /\ Local(w, Updated(base, [id |-> i, read |-> View(w).terms[i],
                                            concept |-> View(w).terms[i].concept]))
    BY <1>5
  <2>2. /\ LocalIs(w) /\ PcIs(w) /\ StaysOn(w) /\ pc'[w] = "enrich"
        /\ {"recovering", "attempt", "save", "concept"} \subseteq DOMAIN at'[w]
        /\ {"id", "read"} \subseteq DOMAIN at'[w] /\ at'[w].id = i
        /\ at'[w].recovering = FALSE /\ at'[w].save = tx[w]
        /\ at'[w].concept = View(w).terms[i].concept
    BY <2>1, <1>3
  <2> QED BY <1>0, <1>1, <2>1, <2>2 DEF Frame
<1>6. CASE \E i : /\ Sought(w, i, "es") /\ Goto(w, "lookUp")
                  /\ Local(w, Updated(base, [concept |-> View(w).terms[i].concept]))
  BY <1>0, <1>1, <1>2, <1>6 DEF Frame
<1>7. CASE Goto(w, "create") /\ Local(w, Updated(base, [concept |-> label(w)]))
  BY <1>0, <1>1, <1>2, <1>7 DEF Frame
<1> QED BY <1>4, <1>5, <1>6, <1>7

(* firstOrFail() does not fail for what the process sees.                  *)
LEMMA FoundIfSeenFacts ==
    ASSUME NEW w \in Process, ShapeOK, NEW c \in View(w).keys, FoundIfSeen(w, c)
    PROVE  LocalIs(w) /\ PcIs(w) /\ GoesOn(w, c)
BY FoundFacts DEF FoundIfSeen

(* The row that was found is written, or left alone.                       *)
LEMMA EnrichFacts ==
    ASSUME NEW w \in Writer, Able(w), Enrich(w), at[w].id \in AllIds(w),
           at[w].concept \in View(w).keys
    PROVE  /\ pc[w] = "enrich" /\ Stored /\ Granted(w) /\ Frame(w)
           /\ GoesOn(w, at[w].concept)
           /\ SameTx(w) \/ RowKept(w, at[w].id)
<1>1. LocalIs(w) /\ PcIs(w) /\ GoesOn(w, at[w].concept)
  BY FoundIfSeenFacts, AbleTx DEF Enrich, Able
<1>2. CASE Dirty(w, at[w].read)
  <2>1. PICK row : /\ WritesRow(w, at[w].id, row)
                   /\ row.concept = RowAt(w, at[w].id).concept
                   /\ row.locale = RowAt(w, at[w].id).locale
                   /\ row.norm = RowAt(w, at[w].id).norm
    BY <1>2, CurrentFacts, TermRowFacts DEF Enrich, Enriched
  <2>2. Lock("X", Row(at[w].id)) \in Wants(w)
    BY <1>2, AbleTx, WantsFacts DEF Enrich, All
  <2>3. OthersTx(w) /\ RowKept(w, at[w].id)
    BY <2>1, <2>2, WritesRowTx, AbleTx DEF RowKept, RowWritten
  <2> QED BY <1>1, <2>3 DEF Enrich, Frame
<1>3. CASE ~Dirty(w, at[w].read)
  <2>1. UNCHANGED tx
    BY <1>3 DEF Enrich
  <2> QED BY <1>1, <2>1, AbleTx DEF Enrich, Frame, SameTx, TxIs, OthersTx, TxShape
<1> QED BY <1>2, <1>3

(* A new concept, or a duplicate.                                          *)
LEMMA CreateFacts ==
    ASSUME NEW w \in Writer, Able(w), Create(w)
    PROVE  /\ pc[w] = "create" /\ Stored /\ Granted(w) /\ Frame(w) /\ KeepsLocal(w)
           /\ \/ label(w) \in Keys(w) /\ OnlyLocks(w, {}) /\ pc'[w] = "recover"
              \/ /\ pc'[w] = "lookUp"
                 /\ TxIs(w, tx[w].snap, tx[w].keys \cup {label(w)}, tx[w].terms,
                         tx[w].edges, tx[w].evidence, tx[w].locks \cup Taken(w))
<1>1. /\ pc[w] = "create" /\ Stored /\ Granted(w) /\ UNCHANGED at
      /\ LocalIs(w) /\ KeepsLocal(w)
  BY DEF Create, LocalIs, KeepsLocal, Able, ShapeOK
<1>2. \/ label(w) \in Keys(w) /\ JustLocks(w) /\ Goto(w, "recover")
      \/ Writes(w, [keys |-> tx[w].keys \cup {label(w)}]) /\ Goto(w, "lookUp")
  BY CurrentFacts DEF Create
<1>3. CASE label(w) \in Keys(w) /\ JustLocks(w) /\ Goto(w, "recover")
  BY <1>1, <1>3, JustLocksTx, GotoFacts, AbleTx DEF Frame, OnlyLocks, Able, ShapeOK
<1>4. CASE Writes(w, [keys |-> tx[w].keys \cup {label(w)}]) /\ Goto(w, "lookUp")
  BY <1>1, <1>4, WritesKeysTx, GotoFacts, AbleTx DEF Frame, Able, ShapeOK
<1> QED BY <1>2, <1>3, <1>4

(* How attachPreferredTerm() ends.                                         *)
Attaches(p) ==
    \/ p \in Localizer /\ pc'[p] = "commit" /\ KeepsLocal(p)
    \/ p \in Writer /\ GoesOn(p, at[p].concept)
(* How the attachment ends, by who called it.                              *)
LEMMA AttachedFacts ==
    ASSUME StoreParameters, NEW p \in Process, ShapeOK, Attached(p),
           p \in Writer /\ ~at[p].recovering => at[p].concept \in View(p).keys
    PROVE  LocalIs(p) /\ PcIs(p) /\ Attaches(p)
<1>1. CASE p \in Localizer
  BY <1>1, GotoFacts DEF Attached, Attaches, LocalIs, KeepsLocal, ShapeOK
<1>2. CASE p \notin Localizer /\ at[p].recovering
  BY <1>2, FoundFacts DEF Attached, Attaches, Process
<1>3. CASE p \notin Localizer /\ ~at[p].recovering
  BY <1>3, FoundIfSeenFacts DEF Attached, Attaches, Process
<1> QED BY <1>1, <1>2, <1>3

(* The label is another concept's.                                         *)
OtherOwner(p, i) ==
    \/ /\ p \in Localizer /\ OnlyLocks(p, {}) /\ pc'[p] = "commit" /\ KeepsLocal(p)
    \/ /\ p \in Writer /\ ~at[p].recovering /\ pc'[p] = "recover" /\ KeepsLocal(p)
       /\ TxIs(p, tx[p].snap, at[p].save.keys, at[p].save.terms, tx[p].edges,
               tx[p].evidence, {a \in tx[p].locks \cup Taken(p) : a.on \notin Gone(p)})
    \/ /\ p \in Writer /\ at[p].recovering /\ pc'[p] = "lockConcept" /\ RowKept(p, i)
       /\ StaysOn(p)
       /\ {"recovering", "attempt", "save", "concept"} \subseteq DOMAIN at'[p]
       /\ at'[p].recovering = at[p].recovering
       /\ at'[p].concept = RowAt(p, i).concept
(* The three ways on if it is.                                             *)
LEMMA OwnedFacts ==
    ASSUME StoreParameters, NEW p, Able(p), pc[p] \in Naming \ {"find"},
           NEW i \in AllIds(p), Lock("X", Row(i)) \in Wants(p), OwnedByOther(p, i)
    PROVE  Frame(p) /\ OtherOwner(p, i)
<1>0. p \in Process /\ TxShape(p) /\ ShapeOK
  BY AbleTx DEF Able
<1>1. CASE p \in Localizer
  <2>1. JustLocks(p) /\ Goto(p, "commit") /\ UNCHANGED at
    BY <1>1 DEF OwnedByOther, StoreParameters
  <2> QED BY <2>1, <1>0, <1>1, GotoFacts, JustLocksTx
      DEF Frame, OtherOwner, OnlyLocks, LocalIs, KeepsLocal, ShapeOK
<1>2. CASE p \in Writer /\ ~at[p].recovering
  <2>1. Undone(p) /\ Goto(p, "recover") /\ UNCHANGED at
    BY <1>2 DEF OwnedByOther, StoreParameters
  <2> QED BY <2>1, <1>0, <1>2, GotoFacts, UndoneTx
      DEF Frame, OtherOwner, LocalIs, KeepsLocal, ShapeOK
<1>3. CASE p \in Writer /\ at[p].recovering
  <2>1. /\ EnrichesLocked(p, i) /\ Goto(p, "lockConcept")
        /\ Local(p, [concept |-> RowAt(p, i).concept])
    BY <1>3, CurrentFacts DEF OwnedByOther, StoreParameters
  <2>2. /\ {"graph", "i", "resolved"} \subseteq DOMAIN at[p]
        /\ {"recovering", "attempt", "save", "concept"} \subseteq DOMAIN at[p]
    BY <1>3 DEF Able, PlaceOK, Naming
  <2>3. /\ LocalIs(p) /\ DOMAIN at'[p] = DOMAIN at[p] \cup {"concept"}
        /\ at'[p].concept = RowAt(p, i).concept
        /\ \A x \in DOMAIN at[p] \ {"concept"} : at'[p][x] = at[p][x]
    BY <2>1, <1>0, LocalFacts DEF ShapeOK
  <2>4. OthersTx(p) /\ RowKept(p, i)
    BY <2>1, <1>0, EnrichesFacts
  <2> QED BY <2>1, <2>2, <2>3, <2>4, <1>0, <1>3, GotoFacts
      DEF Frame, OtherOwner, StaysOn, ShapeOK
<1> QED BY <1>0, <1>1, <1>2, <1>3 DEF Process

(* The locking read of a label.                                            *)
LEMMA LookUpFacts ==
    ASSUME StoreParameters, NEW p, Able(p), LookUp(p),
           p \in Writer /\ ~at[p].recovering => at[p].concept \in View(p).keys
    PROVE  /\ pc[p] = "lookUp" /\ Stored /\ Granted(p) /\ Frame(p)
           /\ \/ /\ FoundRows(p, locale(p), norm(p)) = {}
                 /\ OnlyLocks(p, {Lock("gap", SurfaceGap(locale(p), norm(p)))})
                 /\ pc'[p] = "preferred" /\ KeepsLocal(p)
              \/ \E i \in FoundRows(p, locale(p), norm(p)) :
                   \/ /\ RowAt(p, i).concept = at[p].concept
                      /\ RowKept(p, i) /\ Attaches(p)
                   \/ /\ RowAt(p, i).concept # at[p].concept
                      /\ Lock("X", Row(i)) \in Wants(p) /\ OtherOwner(p, i)
<1>0. /\ p \in Process /\ TxShape(p) /\ ShapeOK
      /\ pc[p] = "lookUp" /\ Stored /\ Granted(p)
  BY AbleTx DEF Able, LookUp
<1> DEFINE rows == FoundRows(p, locale(p), norm(p))
<1>1. /\ rows = Surface(Current(p), locale(p), norm(p))
      /\ rows \subseteq MetBySurface(locale(p), norm(p)) /\ rows \subseteq AllIds(p)
  BY <1>0, ReadFacts DEF FoundRows
<1>2. \A i \in rows : Lock("X", Row(i)) \in Wants(p)
  BY <1>0, <1>1, WantsFacts DEF All
<1>3. \/ /\ rows = {} /\ Gap(p, SurfaceGap(locale(p), norm(p)))
         /\ Goto(p, "preferred") /\ UNCHANGED at
      \/ \E i \in rows : IF RowAt(p, i).concept = at[p].concept
                         THEN EnrichesLocked(p, i) /\ Attached(p)
                         ELSE OwnedByOther(p, i)
  BY <1>1, CurrentFacts DEF LookUp
<1>4. CASE rows = {} /\ Gap(p, SurfaceGap(locale(p), norm(p)))
           /\ Goto(p, "preferred") /\ UNCHANGED at
  BY <1>0, <1>4, GapTx, GotoFacts DEF Frame, OnlyLocks, LocalIs, KeepsLocal, ShapeOK
<1>5. ASSUME NEW i \in rows, RowAt(p, i).concept = at[p].concept,
             EnrichesLocked(p, i), Attached(p)
      PROVE  Frame(p) /\ RowKept(p, i) /\ Attaches(p)
  BY <1>0, <1>1, <1>2, <1>5, EnrichesFacts, AttachedFacts DEF Frame
<1>6. ASSUME NEW i \in rows, RowAt(p, i).concept # at[p].concept, OwnedByOther(p, i)
      PROVE  Frame(p) /\ OtherOwner(p, i)
  BY <1>0, <1>1, <1>2, <1>6, OwnedFacts DEF Naming
<1> HIDE DEF rows
<1> QED BY <1>0, <1>2, <1>3, <1>4, <1>5, <1>6 DEF rows

(* The locking read of a concept's row.                                    *)
LEMMA LockPreferredFacts ==
    ASSUME NEW p, Able(p), LockPreferred(p)
    PROVE  /\ pc[p] = "preferred" /\ Stored /\ Granted(p) /\ Frame(p)
           /\ \/ /\ ConceptRows(p, at[p].concept, locale(p)) = {}
                 /\ OnlyLocks(p, {Lock("gap", PreferredGap(at[p].concept, locale(p)))})
                 /\ pc'[p] = "insert" /\ KeepsLocal(p)
              \/ \E i \in ConceptRows(p, at[p].concept, locale(p)) :
                   /\ RowKept(p, i) /\ pc'[p] = "rename"
                   /\ DOMAIN at'[p] = DOMAIN at[p] \cup {"id"} /\ at'[p].id = i
                   /\ \A x \in DOMAIN at[p] \ {"id"} : at'[p][x] = at[p][x]
<1>0. /\ p \in Process /\ TxShape(p) /\ ShapeOK
      /\ pc[p] = "preferred" /\ Stored /\ Granted(p)
  BY AbleTx DEF Able, LockPreferred
<1> DEFINE rows == ConceptRows(p, at[p].concept, locale(p))
<1>1. /\ rows = Preferred(Current(p), at[p].concept, locale(p))
      /\ rows \subseteq MetByConcept(at[p].concept, locale(p)) /\ rows \subseteq AllIds(p)
  BY <1>0, ReadFacts DEF ConceptRows
<1>2. \A i \in rows : Lock("X", Row(i)) \in Wants(p)
  BY <1>0, <1>1, WantsFacts DEF All
<1>3. \/ /\ rows = {} /\ Gap(p, PreferredGap(at[p].concept, locale(p)))
         /\ Goto(p, "insert") /\ UNCHANGED at
      \/ \E i \in rows : /\ EnrichesLocked(p, i) /\ Goto(p, "rename")
                         /\ Local(p, [id |-> i])
  BY <1>1 DEF LockPreferred
<1>4. CASE rows = {} /\ Gap(p, PreferredGap(at[p].concept, locale(p)))
           /\ Goto(p, "insert") /\ UNCHANGED at
  BY <1>0, <1>4, GapTx, GotoFacts DEF Frame, OnlyLocks, LocalIs, KeepsLocal, ShapeOK
<1>5. ASSUME NEW i \in rows, EnrichesLocked(p, i), Goto(p, "rename"), Local(p, [id |-> i])
      PROVE  /\ Frame(p) /\ RowKept(p, i) /\ pc'[p] = "rename"
             /\ DOMAIN at'[p] = DOMAIN at[p] \cup {"id"} /\ at'[p].id = i
             /\ \A x \in DOMAIN at[p] \ {"id"} : at'[p][x] = at[p][x]
  <2>1. OthersTx(p) /\ RowKept(p, i)
    BY <1>0, <1>1, <1>2, <1>5, EnrichesFacts
  <2>2. /\ LocalIs(p) /\ DOMAIN at'[p] = DOMAIN at[p] \cup {"id"} /\ at'[p].id = i
        /\ \A x \in DOMAIN at[p] \ {"id"} : at'[p][x] = at[p][x]
    BY <1>0, <1>5, LocalFacts DEF ShapeOK
  <2> QED BY <2>1, <2>2, <1>0, <1>5, GotoFacts DEF Frame, ShapeOK
<1> HIDE DEF rows
<1> QED BY <1>0, <1>3, <1>4, <1>5 DEF rows

(* A row is written over, or a duplicate is met.                           *)
LEMMA RenameFacts ==
    ASSUME StoreParameters, NEW p, Able(p), Rename(p), at[p].id \in AllIds(p),
           p \in Writer /\ ~at[p].recovering => at[p].concept \in View(p).keys,
           FoundRows(p, locale(p), norm(p)) = {}
    PROVE  /\ pc[p] = "rename" /\ Stored /\ Granted(p) /\ Frame(p)
           /\ RowWritten(p, at[p].id, RowAt(p, at[p].id).concept,
                         RowAt(p, at[p].id).locale, norm(p))
           /\ Attaches(p)
<1>0. /\ p \in Process /\ TxShape(p) /\ ShapeOK
      /\ pc[p] = "rename" /\ Stored /\ Granted(p)
  BY AbleTx DEF Able, Rename, SavesTerm
<1>1. Surface(Current(p), locale(p), norm(p)) = {}
  BY <1>0, ReadFacts
<1>2. PICK row : /\ WritesRow(p, at[p].id, row) /\ Attached(p)
                 /\ row.concept = RowAt(p, at[p].id).concept
                 /\ row.locale = RowAt(p, at[p].id).locale /\ row.norm = norm(p)
  BY <1>1, CurrentFacts, TermRowFacts DEF Rename, SavesTerm
<1> QED BY <1>0, <1>2, WritesRowTx, AttachedFacts DEF Frame, RowWritten

(* A row is inserted, or a duplicate is met.                               *)
LEMMA InsertFacts ==
    ASSUME StoreParameters, NEW p, Able(p), Insert(p),
           p \in Writer /\ ~at[p].recovering => at[p].concept \in View(p).keys,
           FoundRows(p, locale(p), norm(p)) = {}
    PROVE  /\ pc[p] = "insert" /\ Stored /\ Granted(p) /\ Frame(p)
           /\ RowWritten(p, NewId, at[p].concept, locale(p), norm(p))
           /\ Attaches(p)
<1>0. /\ p \in Process /\ TxShape(p) /\ ShapeOK
      /\ pc[p] = "insert" /\ Stored /\ Granted(p)
  BY AbleTx DEF Able, Insert, SavesTerm
<1>1. Surface(Current(p), locale(p), norm(p)) = {}
  BY <1>0, ReadFacts
<1>2. PICK row : /\ WritesRow(p, NewId, row) /\ Attached(p)
                 /\ row.concept = at[p].concept
                 /\ row.locale = locale(p) /\ row.norm = norm(p)
  BY <1>1, TermRowFacts DEF Insert, SavesTerm
<1> QED BY <1>0, <1>2, WritesRowTx, AttachedFacts DEF Frame, RowWritten

(* The concept of a term that is there.                                    *)
TakesConcept(w, c) ==
    /\ StaysOn(w)
    /\ {"recovering", "attempt", "save", "concept"} \subseteq DOMAIN at'[w]
    /\ at'[w].concept = c

(* The row of another is taken over.                                       *)
LEMMA TakesFacts ==
    ASSUME NEW w \in Writer, Able(w), pc[w] \in Naming \ {"find"}, NEW c,
           Local(w, [concept |-> c])
    PROVE  LocalIs(w) /\ TakesConcept(w, c) /\ at'[w].recovering = at[w].recovering
<1>1. /\ {"graph", "i", "resolved"} \subseteq DOMAIN at[w]
      /\ {"recovering", "attempt", "save", "concept"} \subseteq DOMAIN at[w]
  BY DEF Able, PlaceOK, Naming
<1>2. /\ LocalIs(w) /\ DOMAIN at'[w] = DOMAIN at[w] \cup {"concept"}
      /\ at'[w].concept = c
      /\ \A x \in DOMAIN at[w] \ {"concept"} : at'[w][x] = at[w][x]
  BY LocalFacts DEF Able, ShapeOK
<1> QED BY <1>1, <1>2 DEF TakesConcept, StaysOn

(* Writers write English labels.                                           *)
LEMMA WriterPlace ==
    ASSUME NEW w \in Writer PROVE norm(w) = label(w) /\ locale(w) = "en"
BY DEF norm, locale

(* The recovery looks for the row.                                         *)
LEMMA RecoverFacts ==
    ASSUME NEW w \in Writer, Able(w), Recover(w)
    PROVE  /\ pc[w] = "recover" /\ Stored /\ Granted(w) /\ Frame(w)
           /\ \/ /\ FoundRows(w, "en", label(w)) = {}
                 /\ OnlyLocks(w, {Lock("gap", SurfaceGap("en", label(w)))})
                 /\ pc'[w] = "recoverKey" /\ KeepsLocal(w)
              \/ \E i \in FoundRows(w, "en", label(w)) :
                   /\ RowKept(w, i) /\ pc'[w] = "lockConcept"
                   /\ TakesConcept(w, RowAt(w, i).concept) /\ at'[w].recovering = at[w].recovering
<1>0. /\ w \in Process /\ TxShape(w) /\ ShapeOK
      /\ pc[w] = "recover" /\ Stored /\ Granted(w)
  BY AbleTx DEF Able, Recover
<1> DEFINE rows == FoundRows(w, "en", label(w))
<1>1. /\ rows = Surface(Current(w), "en", label(w))
      /\ rows \subseteq MetBySurface("en", label(w)) /\ rows \subseteq AllIds(w)
  BY <1>0, ReadFacts DEF FoundRows
<1>2. \A i \in rows : Lock("X", Row(i)) \in Wants(w)
  BY <1>0, <1>1, WantsFacts, WriterPlace DEF All
<1>2a. \A i \in rows : Current(w).terms[i] = RowAt(w, i)
  BY <1>1, CurrentFacts
<1>3. \/ /\ rows = {} /\ Gap(w, SurfaceGap("en", label(w)))
         /\ Goto(w, "recoverKey") /\ UNCHANGED at
      \/ \E i \in rows : /\ EnrichesLocked(w, i) /\ Goto(w, "lockConcept")
                         /\ Local(w, [concept |-> RowAt(w, i).concept])
  <2>1. \/ /\ rows = {} /\ Gap(w, SurfaceGap("en", label(w)))
           /\ Goto(w, "recoverKey") /\ UNCHANGED at
        \/ \E i \in rows : /\ EnrichesLocked(w, i) /\ Goto(w, "lockConcept")
                           /\ Local(w, [concept |-> Current(w).terms[i].concept])
    BY <1>1 DEF Recover
  <2>2. ASSUME NEW i \in rows, Local(w, [concept |-> Current(w).terms[i].concept])
        PROVE  Local(w, [concept |-> RowAt(w, i).concept])
    <3>1. Current(w).terms[i].concept = RowAt(w, i).concept
      BY <1>2a
    <3> QED BY <2>2, <3>1
  <2> HIDE DEF rows
  <2> QED BY <2>1, <2>2
<1>4. CASE rows = {} /\ Gap(w, SurfaceGap("en", label(w)))
           /\ Goto(w, "recoverKey") /\ UNCHANGED at
  BY <1>0, <1>4, GapTx, GotoFacts DEF Frame, OnlyLocks, LocalIs, KeepsLocal, ShapeOK
<1>5. ASSUME NEW i \in rows, EnrichesLocked(w, i), Goto(w, "lockConcept"),
             Local(w, [concept |-> RowAt(w, i).concept])
      PROVE  /\ Frame(w) /\ RowKept(w, i) /\ pc'[w] = "lockConcept"
             /\ TakesConcept(w, RowAt(w, i).concept) /\ at'[w].recovering = at[w].recovering
  <2>1. OthersTx(w) /\ RowKept(w, i)
    BY <1>0, <1>1, <1>2, <1>5, EnrichesFacts
  <2>2. LocalIs(w) /\ TakesConcept(w, RowAt(w, i).concept) /\ at'[w].recovering = at[w].recovering
    BY <1>0, <1>5, TakesFacts DEF Naming
  <2> QED BY <2>1, <2>2, <1>0, <1>5, GotoFacts DEF Frame, ShapeOK
<1> HIDE DEF rows
<1> QED BY <1>0, <1>3, <1>4, <1>5 DEF rows

(* Then for the concept, which is there.                                   *)
LEMMA RecoverKeyFacts ==
    ASSUME NEW w \in Writer, Able(w), RecoverKey(w), label(w) \in Keys(w)
    PROVE  /\ pc[w] = "recoverKey" /\ Stored /\ Granted(w) /\ Frame(w)
           /\ OnlyLocks(w, {}) /\ pc'[w] = "lookUp"
           /\ TakesConcept(w, label(w)) /\ at'[w].recovering = TRUE
<1>0. /\ w \in Process /\ TxShape(w) /\ ShapeOK
      /\ pc[w] = "recoverKey" /\ Stored /\ Granted(w) /\ JustLocks(w)
      /\ Goto(w, "lookUp") /\ Local(w, [concept |-> label(w), recovering |-> TRUE])
  BY AbleTx, CurrentFacts DEF Able, RecoverKey
<1>1. /\ {"graph", "i", "resolved"} \subseteq DOMAIN at[w]
      /\ {"recovering", "attempt", "save", "concept"} \subseteq DOMAIN at[w]
  BY <1>0 DEF Able, PlaceOK, Naming
<1>2. /\ LocalIs(w) /\ DOMAIN at'[w] = DOMAIN at[w] \cup {"concept", "recovering"}
      /\ at'[w].concept = label(w) /\ at'[w].recovering = TRUE
      /\ \A x \in DOMAIN at[w] \ {"concept", "recovering"} : at'[w][x] = at[w][x]
  BY <1>0, LocalFacts DEF ShapeOK
<1>3. TakesConcept(w, label(w))
  BY <1>1, <1>2 DEF TakesConcept, StaysOn
<1> QED BY <1>0, <1>2, <1>3, GotoFacts, JustLocksTx DEF Frame, OnlyLocks, ShapeOK

(* The concept of a row is there.                                          *)
LEMMA LockConceptFacts ==
    ASSUME NEW w \in Writer, Able(w), LockConcept(w), at[w].concept \in Keys(w)
    PROVE  /\ pc[w] = "lockConcept" /\ Stored /\ Granted(w) /\ Frame(w)
           /\ OnlyLocks(w, {}) /\ GoesOn(w, at[w].concept)
<1>0. /\ w \in Process /\ TxShape(w) /\ ShapeOK
      /\ pc[w] = "lockConcept" /\ Stored /\ Granted(w) /\ JustLocks(w)
      /\ Found(w, at[w].concept)
  BY AbleTx, CurrentFacts DEF Able, LockConcept
<1> QED BY <1>0, FoundFacts, JustLocksTx DEF Frame, OnlyLocks

(* Where a process is after an edge.                                       *)
NextEdgeIs(w) ==
    /\ pc'[w] \in {"edge", "commit"}
    /\ {"graph", "i", "resolved"} \subseteq DOMAIN at'[w]
    /\ at'[w].graph = at[w].graph /\ at'[w].resolved = at[w].resolved
(* It goes there.                                                          *)
LEMMA NextEdgeFacts ==
    ASSUME NEW w \in Writer, Able(w), pc[w] # "idle", NextEdge(w)
    PROVE  LocalIs(w) /\ PcIs(w) /\ NextEdgeIs(w)
<1>1. {"graph", "i", "resolved"} \subseteq DOMAIN at[w] /\ w \in Process /\ ShapeOK
  BY DEF Able, PlaceOK
<1>2. PICK j : Local(w, [i |-> j])
  BY DEF NextEdge
<1>3. /\ LocalIs(w) /\ DOMAIN at'[w] = DOMAIN at[w] \cup {"i"}
      /\ \A x \in DOMAIN at[w] \ {"i"} : at'[w][x] = at[w][x]
  BY <1>1, <1>2, LocalFacts DEF ShapeOK
<1>4. PcIs(w) /\ pc'[w] \in {"edge", "commit"}
  BY <1>1, GotoFacts DEF NextEdge, ShapeOK
<1> QED BY <1>1, <1>3, <1>4 DEF NextEdgeIs

(* An edge and its evidence are written, and the count that is read.       *)
EdgeWritten(w, e, n) ==
    TxIs(w, tx[w].snap, tx[w].keys, tx[w].terms, Put(tx[w].edges, e, n),
         Put(tx[w].evidence, e, Rows(tx[w].evidence, e) + 1), tx[w].locks \cup Taken(w))
EdgeIn(w, e) == IF e \in DOMAIN tx[w].edges THEN tx[w].edges[e] ELSE edges[e]

(* A new edge, or a duplicate.                                             *)
LEMMA InsertEdgeFacts ==
    ASSUME NEW w \in Writer, Able(w), InsertEdge(w)
    PROVE  /\ pc[w] = "edge" /\ Stored /\ Granted(w) /\ Frame(w)
           /\ \/ /\ edgeOf(w) \in DOMAIN edges \cup DOMAIN tx[w].edges
                 /\ OnlyLocks(w, {}) /\ pc'[w] = "bump" /\ KeepsLocal(w)
              \/ /\ edgeOf(w) \notin DOMAIN edges \cup DOMAIN tx[w].edges
                 /\ EdgeWritten(w, edgeOf(w), 1) /\ NextEdgeIs(w)
<1>0. /\ w \in Process /\ TxShape(w) /\ ShapeOK
      /\ pc[w] = "edge" /\ Stored /\ Granted(w)
  BY AbleTx DEF Able, InsertEdge
<1>1. CASE edgeOf(w) \in DOMAIN edges \cup DOMAIN tx[w].edges
  <2>1. JustLocks(w) /\ Goto(w, "bump") /\ UNCHANGED at
    BY <1>1, CurrentFacts DEF InsertEdge
  <2> QED BY <1>0, <1>1, <2>1, GotoFacts, JustLocksTx
      DEF Frame, OnlyLocks, LocalIs, KeepsLocal, ShapeOK
<1>2. CASE edgeOf(w) \notin DOMAIN edges \cup DOMAIN tx[w].edges
  <2>1. WritesEdge(w, edgeOf(w), 1) /\ NextEdge(w)
    BY <1>2, CurrentFacts DEF InsertEdge
  <2> QED BY <1>0, <1>2, <2>1, NextEdgeFacts, WritesEdgeTx DEF Frame, EdgeWritten
<1> QED BY <1>1, <1>2

(* The edge that was met is counted.                                       *)
LEMMA CountEdgeFacts ==
    ASSUME NEW w \in Writer, Able(w), CountEdge(w),
           edgeOf(w) \in DOMAIN edges \cup DOMAIN tx[w].edges
    PROVE  /\ pc[w] = "bump" /\ Stored /\ Granted(w) /\ Frame(w)
           /\ EdgeWritten(w, edgeOf(w), EdgeIn(w, edgeOf(w)) + 1) /\ NextEdgeIs(w)
<1>0. /\ w \in Process /\ TxShape(w) /\ ShapeOK
      /\ pc[w] = "bump" /\ Stored /\ Granted(w)
  BY AbleTx DEF Able, CountEdge
<1>1. WritesEdge(w, edgeOf(w), EdgeIn(w, edgeOf(w)) + 1) /\ NextEdge(w)
  BY CurrentFacts DEF CountEdge, EdgeForUpdate, EdgeIn
<1> QED BY <1>0, <1>1, NextEdgeFacts, WritesEdgeTx DEF Frame, EdgeWritten

(* A process that ends holds nothing.                                      *)
LEMMA EndsFacts ==
    ASSUME NEW p \in Process, ShapeOK, Ends(p)
    PROVE  Frame(p) /\ tx'[p] = NoTx /\ pc'[p] = "idle"
BY GotoFacts DEF Ends, Frame, OthersTx, LocalIs, ShapeOK

(* A translation begins.                                                   *)
LEMMA LocalizeFacts ==
    ASSUME NEW p \in Localizer, NEW c, NEW n, Able(p), Localize(p, c, n)
    PROVE  /\ pc[p] = "idle" /\ pc'[p] = "lookUp" /\ Stored /\ UNCHANGED tx
           /\ LocalIs(p) /\ PcIs(p)
           /\ {"concept", "word", "grade"} \subseteq DOMAIN at'[p]
           /\ at'[p].concept = c /\ c \in keys
<1>1. PICK g : at' = [at EXCEPT ![p] = [concept |-> c, word |-> n, grade |-> g]]
  BY DEF Localize
<1>2. LocalIs(p) /\ at'[p] = [concept |-> c, word |-> n, grade |-> g]
  BY <1>1 DEF LocalIs, Able, ShapeOK
<1> QED BY <1>2, GotoFacts DEF Localize, Able, ShapeOK

(* What a written row leaves of the transaction.                           *)
LEMMA WrittenFacts ==
    ASSUME NEW p, NEW i, NEW c, NEW l, NEW n, RowWritten(p, i, c, l, n)
    PROVE  /\ TxFields \subseteq DOMAIN tx'[p]
           /\ tx'[p].snap = tx[p].snap /\ tx'[p].keys = tx[p].keys
           /\ tx'[p].edges = tx[p].edges /\ tx'[p].evidence = tx[p].evidence
           /\ tx'[p].locks = tx[p].locks \cup Taken(p)
           /\ DOMAIN tx'[p].terms = DOMAIN tx[p].terms \cup {i}
           /\ tx'[p].terms[i].concept = c /\ tx'[p].terms[i].locale = l
           /\ tx'[p].terms[i].norm = n
           /\ \A j \in DOMAIN tx[p].terms \ {i} : tx'[p].terms[j] = tx[p].terms[j]
<1>1. PICK row : /\ row.concept = c /\ row.locale = l /\ row.norm = n
                 /\ TxIs(p, tx[p].snap, tx[p].keys, Put(tx[p].terms, i, row), tx[p].edges,
                         tx[p].evidence, tx[p].locks \cup Taken(p))
  BY DEF RowWritten
<1>2. tx'[p].terms = Put(tx[p].terms, i, row)
  BY <1>1 DEF TxIs
<1>3. /\ DOMAIN tx'[p].terms = DOMAIN tx[p].terms \cup {i}
      /\ tx'[p].terms[i] = row
      /\ \A j \in DOMAIN tx[p].terms \ {i} : tx'[p].terms[j] = tx[p].terms[j]
  BY <1>2 DEF Put, Updated, Only
<1> QED BY <1>1, <1>3 DEF TxIs

(* The locks that a statement takes are shared or exclusive.               *)
LEMMA WantsModes ==
    ASSUME NEW p \in Process, NEW a \in Wants(p),
           pc[p] \in {"enrich", "create", "lookUp", "recover", "preferred", "rename",
                      "insert", "recoverKey", "lockConcept", "edge", "bump"}
    PROVE  a.mode \in {"X", "S", "insert"}
BY WantsFacts, LockFacts DEF All

(* What is locked exclusively stays so if what a step adds was granted.    *)
LEMMA ExclusiveStep ==
    ASSUME Exclusive, NEW p \in Process, OthersTx(p),
           \A a \in tx'[p].locks : \A q \in Process \ {p} :
             a.mode = "X" => a \notin tx[q].locks
    PROVE  Exclusive'
<1> SUFFICES ASSUME NEW r \in Process, NEW q \in Process \ {r}
             PROVE  ExclusiveOK(r, q)'
  BY DEF Exclusive
<1>1. CASE r = p
  BY <1>1 DEF ExclusiveOK, OthersTx
<1>2. CASE r # p /\ q = p
  BY <1>2 DEF ExclusiveOK, OthersTx
<1>3. CASE r # p /\ q # p
  BY <1>3 DEF ExclusiveOK, OthersTx, Exclusive
<1> QED BY <1>1, <1>2, <1>3

(* Locks that were granted exclude those of others.                        *)
LEMMA GrantedExclusive ==
    ASSUME Exclusive, NEW p \in Process, OthersTx(p), Granted(p), NEW o,
           tx'[p].locks \subseteq tx[p].locks \cup Taken(p) \cup {Lock("gap", o)}
    PROVE  Exclusive'
<1>1. ASSUME NEW a \in tx'[p].locks, NEW q \in Process \ {p}, a.mode = "X"
      PROVE  a \notin tx[q].locks
  <2>1. CASE a \in tx[p].locks
    BY <1>1, <2>1 DEF Exclusive, ExclusiveOK
  <2>2. CASE a \in Taken(p)
    <3>1. Clash(a, a)
      BY <1>1 DEF Clash
    <3> QED BY <2>2, <3>1, GrantedFacts DEF Taken
  <2>3. a # Lock("gap", o)
    BY <1>1, LockFacts
  <2> QED BY <1>1, <2>1, <2>2, <2>3
<1> QED BY <1>1, ExclusiveStep

(* The two gaps that a row is in.                                          *)
GapOfSurface(row) == Lock("gap", SurfaceGap(row.locale, row.norm))
GapOfConcept(row) == Lock("gap", PreferredGap(row.concept, row.locale))

(* Gaps that are locked stay clear if rows are only written where the      *)
(* others have not locked the gap.                                         *)
LEMMA ClearStep ==
    ASSUME Clear, NEW p \in Process, OthersTx(p), UNCHANGED terms,
           \A i \in DOMAIN tx'[p].terms : \A q \in Process \ {p} :
             /\ GapOfSurface(tx'[p].terms[i]) \notin tx[q].locks
             /\ GapOfConcept(tx'[p].terms[i]) \notin tx[q].locks,
           \A q \in Process \ {p} : \A i \in DOMAIN tx[q].terms :
             /\ GapOfSurface(tx[q].terms[i]) \notin tx'[p].locks
             /\ GapOfConcept(tx[q].terms[i]) \notin tx'[p].locks,
           \A i \in DOMAIN terms :
             /\ GapOfSurface(terms[i]) \in tx'[p].locks => i \in DOMAIN tx'[p].terms
             /\ GapOfConcept(terms[i]) \notin tx'[p].locks
    PROVE  Clear'
<1>1. ASSUME NEW r \in Process PROVE StoredClearOK(r)'
  BY DEF Clear, StoredClearOK, OthersTx, GapOfSurface, GapOfConcept
<1>2. ASSUME NEW r \in Process, NEW q \in Process \ {r} PROVE ClearOK(r, q)'
  <2>1. CASE r = p
    BY <2>1 DEF ClearOK, OthersTx, GapOfSurface, GapOfConcept
  <2>2. CASE r # p /\ q = p
    BY <2>2 DEF ClearOK, OthersTx, GapOfSurface, GapOfConcept
  <2>3. CASE r # p /\ q # p
    BY <2>3 DEF ClearOK, OthersTx, Clear
  <2> QED BY <2>1, <2>2, <2>3
<1> QED BY <1>1, <1>2 DEF Clear

(* What a locked gap excludes, in the words of Clear.                      *)
LEMMA ClearFacts ==
    ASSUME Clear, NEW p \in Process, NEW q \in Process \ {p}
    PROVE  /\ \A i \in DOMAIN tx[q].terms :
                /\ GapOfSurface(tx[q].terms[i]) \notin tx[p].locks
                /\ GapOfConcept(tx[q].terms[i]) \notin tx[p].locks
           /\ \A i \in DOMAIN terms :
                /\ GapOfSurface(terms[i]) \in tx[p].locks => i \in DOMAIN tx[p].terms
                /\ GapOfConcept(terms[i]) \notin tx[p].locks
BY DEF Clear, ClearOK, StoredClearOK, GapOfSurface, GapOfConcept

(* Rows are as they were and no gap is locked.                             *)
LEMMA ClearStays ==
    ASSUME Clear, NEW p \in Process, OthersTx(p), UNCHANGED terms,
           tx'[p].terms = tx[p].terms,
           \A a \in tx'[p].locks : a.mode = "gap" => a \in tx[p].locks
    PROVE  Clear'
<1>1. \A row : GapOfSurface(row).mode = "gap" /\ GapOfConcept(row).mode = "gap"
  BY LockFacts DEF GapOfSurface, GapOfConcept
<1>2. \A q \in Process \ {p} : \A i \in DOMAIN tx'[p].terms :
             /\ GapOfSurface(tx'[p].terms[i]) \notin tx[q].locks
             /\ GapOfConcept(tx'[p].terms[i]) \notin tx[q].locks
  BY ClearFacts
<1>3. \A q \in Process \ {p} : \A i \in DOMAIN tx[q].terms :
             /\ GapOfSurface(tx[q].terms[i]) \notin tx'[p].locks
             /\ GapOfConcept(tx[q].terms[i]) \notin tx'[p].locks
  BY <1>1, ClearFacts
<1>4. \A i \in DOMAIN terms :
             /\ GapOfSurface(terms[i]) \in tx'[p].locks => i \in DOMAIN tx'[p].terms
             /\ GapOfConcept(terms[i]) \notin tx'[p].locks
  BY <1>1 DEF Clear, StoredClearOK, GapOfSurface, GapOfConcept
<1> QED BY <1>2, <1>3, <1>4, ClearStep

(* A row is written that nobody else may write.                            *)
LEMMA ClearWritten ==
    ASSUME Clear, NEW p \in Process, OthersTx(p), UNCHANGED terms,
           NEW i, NEW c, NEW l, NEW n, RowWritten(p, i, c, l, n),
           \A a \in Taken(p) : a.mode # "gap",
           \A q \in Process \ {p} :
             /\ Lock("gap", SurfaceGap(l, n)) \notin tx[q].locks
             /\ Lock("gap", PreferredGap(c, l)) \notin tx[q].locks
    PROVE  Clear'
<1>0. \A row : GapOfSurface(row).mode = "gap" /\ GapOfConcept(row).mode = "gap"
  BY LockFacts DEF GapOfSurface, GapOfConcept
<1>1. /\ DOMAIN tx'[p].terms = DOMAIN tx[p].terms \cup {i}
      /\ tx'[p].terms[i].concept = c /\ tx'[p].terms[i].locale = l
      /\ tx'[p].terms[i].norm = n
      /\ \A j \in DOMAIN tx[p].terms \ {i} : tx'[p].terms[j] = tx[p].terms[j]
      /\ tx'[p].locks = tx[p].locks \cup Taken(p)
  BY WrittenFacts
<1>2. \A q \in Process \ {p} : \A j \in DOMAIN tx'[p].terms :
             /\ GapOfSurface(tx'[p].terms[j]) \notin tx[q].locks
             /\ GapOfConcept(tx'[p].terms[j]) \notin tx[q].locks
  <2> SUFFICES ASSUME NEW q \in Process \ {p}, NEW j \in DOMAIN tx'[p].terms
               PROVE  /\ GapOfSurface(tx'[p].terms[j]) \notin tx[q].locks
                      /\ GapOfConcept(tx'[p].terms[j]) \notin tx[q].locks
    OBVIOUS
  <2>1. CASE j = i
    BY <1>1, <2>1 DEF GapOfSurface, GapOfConcept
  <2>2. CASE j # i
    <3>1. j \in DOMAIN tx[p].terms /\ tx'[p].terms[j] = tx[p].terms[j]
      BY <1>1, <2>2
    <3> QED BY <3>1, ClearFacts
  <2> QED BY <2>1, <2>2
<1>3. \A q \in Process \ {p} : \A j \in DOMAIN tx[q].terms :
             /\ GapOfSurface(tx[q].terms[j]) \notin tx'[p].locks
             /\ GapOfConcept(tx[q].terms[j]) \notin tx'[p].locks
  BY <1>0, <1>1, ClearFacts
<1>4. \A j \in DOMAIN terms :
             /\ GapOfSurface(terms[j]) \in tx'[p].locks => j \in DOMAIN tx'[p].terms
             /\ GapOfConcept(terms[j]) \notin tx'[p].locks
  BY <1>0, <1>1 DEF Clear, StoredClearOK, GapOfSurface, GapOfConcept
<1> QED BY <1>2, <1>3, <1>4, ClearStep

(* What a step of another process leaves of a process.                     *)
LEMMA OthersKeep ==
    ASSUME NEW p \in Process, Frame(p), Stored, NEW q \in Process \ {p}, Own(q)
    PROVE  Own(q)'
<1>1. /\ tx'[q] = tx[q] /\ at'[q] = at[q] /\ pc'[q] = pc[q]
      /\ keys' = keys /\ terms' = terms /\ edges' = edges
  BY DEF Frame, OthersTx, LocalIs, PcIs, Stored
<1>2. Base(q)' = Base(q) /\ KeysBefore(q)' = KeysBefore(q) /\ Keys(q)' = Keys(q)
  BY <1>1 DEF Base, KeysBefore, Nested, Tables, Keys
<1>3. /\ AllIds(q)' = AllIds(q)
      /\ \A i : RowAt(q, i)' = RowAt(q, i)
      /\ English(q)' = English(q)
  BY <1>1 DEF AllIds, RowAt, English
<1>4. /\ label(q)' = label(q) /\ norm(q)' = norm(q) /\ locale(q)' = locale(q)
      /\ edgeOf(q)' = edgeOf(q) /\ Place(q)' = Place(q)
  BY <1>1 DEF label, norm, locale, edgeOf, Place
<1>5. PlaceOK(q)'
  BY <1>1, <1>4 DEF Own, PlaceOK
<1>6. BaseOK(q)'
  BY <1>1, <1>2 DEF Own, BaseOK
<1>7. SaveOK(q)' /\ ConceptsOK(q)'
  BY <1>1, <1>2 DEF Own, SaveOK, ConceptsOK, Nested
<1>8. SeenOK(q)'
  BY <1>1, <1>2, <1>4 DEF Own, SeenOK
<1>9. ResolvedOK(q)'
  BY <1>1, <1>2, <1>3 DEF Own, ResolvedOK
<1>10. ConceptOK(q)'
  BY <1>1, <1>2, <1>3, <1>4 DEF Own, ConceptOK
<1>11. GapsOK(q)'
  BY <1>1, <1>4 DEF Own, GapsOK
<1>12. LocksOK(q)' /\ CountsOK(q)'
  BY <1>1 DEF Own, LocksOK, CountsOK, Rows
<1> QED BY <1>5, <1>6, <1>7, <1>8, <1>9, <1>10, <1>11, <1>12 DEF Own

(* What is known of the process that takes a step.                         *)
Before(p) == /\ StoreParameters /\ p \in Process
             /\ ShapeOK /\ TablesOK /\ Own(p)

(* Its parts.                                                              *)
LEMMA BeforeFacts ==
    ASSUME NEW p, Before(p)
    PROVE  /\ Able(p) /\ p \in Process /\ TxShape(p) /\ PlaceOK(p)
           /\ p \in Writer \cup Localizer /\ ~(p \in Writer /\ p \in Localizer)
BY AbleTx DEF Before, Own, Able, StoreParameters, Process

(* What plain reads see stays.                                             *)
LEMMA BaseStays ==
    ASSUME NEW p, BaseOK(p), Stored, tx'[p].snap \in {tx[p].snap, Base(p)}
    PROVE  Base(p)' = Base(p) /\ BaseOK(p)'
<1>1. Base(p)' = Base(p)
  BY DEF Base, Stored, Tables
<1> QED BY <1>1 DEF BaseOK, Stored

(* Rows stay if nothing is written.                                        *)
LEMMA RowsStay ==
    ASSUME NEW p, Stored, tx'[p].terms = tx[p].terms
    PROVE  /\ AllIds(p)' = AllIds(p)
           /\ \A i : RowAt(p, i)' = RowAt(p, i)
           /\ English(p)' = English(p)
BY DEF AllIds, RowAt, English, Stored

(* If one is, the others stay.                                             *)
LEMMA RowsWritten ==
    ASSUME NEW p, Stored, NEW i, NEW c, NEW l, NEW n, RowWritten(p, i, c, l, n)
    PROVE  /\ AllIds(p)' = AllIds(p) \cup {i}
           /\ RowAt(p, i)'.concept = c /\ RowAt(p, i)'.locale = l
           /\ \A j : j # i => RowAt(p, j)' = RowAt(p, j)
<1>1. /\ DOMAIN tx'[p].terms = DOMAIN tx[p].terms \cup {i}
      /\ tx'[p].terms[i].concept = c /\ tx'[p].terms[i].locale = l
      /\ \A j \in DOMAIN tx[p].terms \ {i} : tx'[p].terms[j] = tx[p].terms[j]
      /\ terms' = terms
  BY WrittenFacts DEF Stored
<1>2. AllIds(p)' = AllIds(p) \cup {i}
  BY <1>1 DEF AllIds
<1>3. RowAt(p, i)'.concept = c /\ RowAt(p, i)'.locale = l
  BY <1>1 DEF RowAt
<1>4. \A j : j # i => RowAt(p, j)' = RowAt(p, j)
  <2> SUFFICES ASSUME NEW j, j # i PROVE RowAt(p, j)' = RowAt(p, j)
    OBVIOUS
  <2>1. j \in DOMAIN tx'[p].terms <=> j \in DOMAIN tx[p].terms
    BY <1>1
  <2> QED BY <1>1, <2>1 DEF RowAt
<1> QED BY <1>2, <1>3, <1>4

(* English terms that a concept has remain.                                *)
EnglishStays(p) == English(p) \subseteq English(p)'

(* A concept keeps its English row if that row keeps its concept.          *)
LEMMA EnglishKept ==
    ASSUME NEW p, Stored, NEW i, NEW n, i \in AllIds(p),
           RowWritten(p, i, RowAt(p, i).concept, RowAt(p, i).locale, n)
    PROVE  EnglishStays(p)
<1> SUFFICES ASSUME NEW c, c \in English(p) PROVE c \in English(p)'
  BY DEF EnglishStays
<1>1. PICK j \in AllIds(p) : RowAt(p, j).concept = c /\ RowAt(p, j).locale = "en"
  BY DEF English
<1>2. /\ AllIds(p)' = AllIds(p) \cup {i}
      /\ RowAt(p, i)'.concept = RowAt(p, i).concept
      /\ RowAt(p, i)'.locale = RowAt(p, i).locale
      /\ \A k : k # i => RowAt(p, k)' = RowAt(p, k)
  BY RowsWritten
<1>3. RowAt(p, j)'.concept = c /\ RowAt(p, j)'.locale = "en"
  BY <1>1, <1>2
<1> QED BY <1>1, <1>2, <1>3 DEF English

(* A new row takes none away.                                              *)
LEMMA EnglishAdded ==
    ASSUME NEW p, Stored, NEW i, NEW c, NEW l, NEW n, i \notin AllIds(p),
           RowWritten(p, i, c, l, n)
    PROVE  EnglishStays(p)
<1> SUFFICES ASSUME NEW d, d \in English(p) PROVE d \in English(p)'
  BY DEF EnglishStays
<1>1. PICK j \in AllIds(p) : RowAt(p, j).concept = d /\ RowAt(p, j).locale = "en"
  BY DEF English
<1>2. /\ AllIds(p)' = AllIds(p) \cup {i}
      /\ \A k : k # i => RowAt(p, k)' = RowAt(p, k)
  BY RowsWritten
<1>3. RowAt(p, j)'.concept = d /\ RowAt(p, j)'.locale = "en"
  BY <1>1, <1>2
<1> QED BY <1>1, <1>2, <1>3 DEF English

(* And an English one adds its own.                                        *)
LEMMA EnglishHas ==
    ASSUME NEW p, Stored, NEW i, NEW c, NEW n, RowWritten(p, i, c, "en", n)
    PROVE  c \in English(p)'
BY RowsWritten DEF English

(* Nothing changes if nothing is written.                                  *)
LEMMA EnglishSame ==
    ASSUME NEW p, Stored, tx'[p].terms = tx[p].terms
    PROVE  EnglishStays(p)
BY RowsStay DEF EnglishStays

(* A row is written under an exclusive lock, and for a concept that is     *)
(* there when the transaction ends.                                        *)
LEMMA RowOwned ==
    ASSUME NEW p, Own(p), Stored, NEW i, NEW c, NEW l, NEW n, RowWritten(p, i, c, l, n),
           Lock("X", Row(i)) \in Wants(p), c \in keys \cup KeysBefore(p)',
           KeysBefore(p) \subseteq KeysBefore(p)'
    PROVE  LocksOK(p)' /\ ConceptsOK(p)' /\ CountsOK(p)'
<1>1. /\ tx'[p].edges = tx[p].edges /\ tx'[p].evidence = tx[p].evidence
      /\ tx'[p].locks = tx[p].locks \cup Taken(p)
      /\ DOMAIN tx'[p].terms = DOMAIN tx[p].terms \cup {i}
      /\ tx'[p].terms[i].concept = c
      /\ \A j \in DOMAIN tx[p].terms \ {i} : tx'[p].terms[j] = tx[p].terms[j]
      /\ keys' = keys /\ edges' = edges
  BY WrittenFacts DEF Stored
<1>2. Lock("X", Row(i)) \in Taken(p)
  BY LockFacts DEF Taken
<1>3. LocksOK(p)'
  BY <1>1, <1>2 DEF Own, LocksOK
<1>4. ConceptsOK(p)'
  <2> SUFFICES ASSUME NEW j \in DOMAIN tx'[p].terms
               PROVE  tx'[p].terms[j].concept \in keys \cup KeysBefore(p)'
    BY <1>1 DEF ConceptsOK
  <2>1. CASE j = i
    BY <1>1, <2>1
  <2>2. CASE j # i
    BY <1>1, <2>2 DEF Own, ConceptsOK
  <2> QED BY <2>1, <2>2
<1>5. CountsOK(p)'
  BY <1>1 DEF Own, CountsOK, Rows
<1> QED BY <1>3, <1>4, <1>5

(* What a process keeps that writes no row.                                *)
LEMMA RowsOwned ==
    ASSUME NEW p, Own(p), Stored, tx'[p].terms = tx[p].terms,
           tx'[p].edges = tx[p].edges, tx'[p].evidence = tx[p].evidence,
           tx[p].locks \subseteq tx'[p].locks, KeysBefore(p) \subseteq KeysBefore(p)'
    PROVE  LocksOK(p)' /\ ConceptsOK(p)' /\ CountsOK(p)'
<1>1. keys' = keys /\ edges' = edges
  BY DEF Stored
<1>2. LocksOK(p)' /\ CountsOK(p)'
  BY <1>1 DEF Own, LocksOK, CountsOK, Rows
<1>3. ConceptsOK(p)'
  BY <1>1 DEF Own, ConceptsOK
<1> QED BY <1>2, <1>3

(* A label is done.                                                        *)
LEMMA GoesOnOK ==
    ASSUME NEW w \in Writer, Before(w), pc[w] \in Naming \ {"find"}, Stored, NEW c,
           GoesOn(w, c), TxFields \subseteq DOMAIN tx'[w],
           tx'[w].snap = tx[w].snap, tx'[w].keys = tx[w].keys,
           IsFiniteSet(DOMAIN tx'[w].terms),
           c \in Keys(w), EnglishStays(w), c \in English(w)',
           \A i \in DOMAIN tx'[w].terms :
             \/ tx'[w].terms[i].norm = label(w)
             \/ tx'[w].terms[i].concept \in Base(w).keys \cup tx[w].keys
             \/ /\ i \in DOMAIN tx[w].terms /\ tx'[w].terms[i] = tx[w].terms[i]
                /\ ~(pc[w] = "rename" /\ i = at[w].id)
    PROVE  /\ PlaceOK(w)' /\ BaseOK(w)' /\ SaveOK(w)' /\ SeenOK(w)' /\ ResolvedOK(w)'
           /\ ConceptOK(w)' /\ GapsOK(w)'
           /\ KeysBefore(w) \subseteq KeysBefore(w)' /\ KeysBefore(w)' = tx[w].keys
<1>0. /\ w \notin Localizer /\ PlaceOK(w) /\ pc'[w] \in {"find", "edge", "commit"}
      /\ keys' = keys
      /\ {"graph", "i", "resolved"} \subseteq DOMAIN at'[w] /\ at'[w].graph = at[w].graph
      /\ at[w].graph \in Graphs /\ at[w].i \in DOMAIN at[w].graph.labels
      /\ at[w].graph.labels \in Seq(Norm)
  BY BeforeFacts DEF GoesOn, Stored, Before, StoreParameters, PlaceOK, Naming
<1>1. Base(w)' = Base(w) /\ BaseOK(w)'
  BY BaseStays DEF Before, Own
<1>2. PlaceOK(w)'
  <2>1. pc'[w] = "find" => at'[w].i \in DOMAIN at'[w].graph.labels
    BY <1>0 DEF GoesOn
  <2> QED BY <1>0, <2>1 DEF PlaceOK, Place, Naming
<1>3. ~Nested(w)' /\ KeysBefore(w)' = tx[w].keys
  BY <1>0 DEF Nested, KeysBefore
<1>4. KeysBefore(w) \subseteq tx[w].keys
  BY DEF Before, Own, SaveOK, KeysBefore
<1>5. SaveOK(w)'
  BY <1>3 DEF SaveOK
<1>6. SeenOK(w)'
  <2> SUFFICES ASSUME pc'[w] = "find", NEW i \in DOMAIN tx'[w].terms
               PROVE  \/ \E k \in 1..(at'[w].i - 1) :
                           tx'[w].terms[i].norm = at'[w].graph.labels[k]
                      \/ tx'[w].terms[i].concept \in Base(w)' .keys \cup KeysBefore(w)'
    BY <1>0 DEF SeenOK, Naming
  <2>1. at'[w].i - 1 = at[w].i /\ at[w].i \in Nat \ {0} /\ at'[w].graph = at[w].graph
    <3>1. DOMAIN at[w].graph.labels = 1..Len(at[w].graph.labels)
          /\ Len(at[w].graph.labels) \in Nat
      BY <1>0
    <3>2. at[w].i \in Nat \ {0}
      BY <1>0, <3>1
    <3>3. at'[w].i = at[w].i + 1
      BY <1>0 DEF GoesOn
    <3> QED BY <1>0, <3>2, <3>3
  <2>2. CASE tx'[w].terms[i].norm = label(w)
    BY <2>1, <2>2 DEF label
  <2>3. CASE tx'[w].terms[i].concept \in Base(w).keys \cup tx[w].keys
    BY <2>3, <1>1, <1>3
  <2>4. CASE i \in DOMAIN tx[w].terms /\ tx'[w].terms[i] = tx[w].terms[i]
           /\ ~(pc[w] = "rename" /\ i = at[w].id) /\ tx[w].terms[i].norm # label(w)
    <3>1. \/ \E k \in 1..(at[w].i - 1) : tx[w].terms[i].norm = at[w].graph.labels[k]
          \/ tx[w].terms[i].concept \in Base(w).keys \cup KeysBefore(w)
      BY <2>4 DEF Before, Own, SeenOK
    <3>2. CASE \E k \in 1..(at[w].i - 1) : tx[w].terms[i].norm = at[w].graph.labels[k]
      <4>1. PICK k \in 1..(at[w].i - 1) : tx[w].terms[i].norm = at[w].graph.labels[k]
        BY <3>2
      <4>2. k \in 1..(at'[w].i - 1)
        BY <2>1
      <4> QED BY <4>1, <4>2, <2>1, <2>4
    <3>3. CASE tx[w].terms[i].concept \in Base(w).keys \cup KeysBefore(w)
      BY <3>3, <1>1, <1>3, <1>4, <2>4
    <3> QED BY <3>1, <3>2, <3>3
  <2> QED BY <2>2, <2>3, <2>4
<1>7. ResolvedOK(w)'
  <2> SUFFICES ASSUME NEW n \in DOMAIN at'[w].resolved
               PROVE  /\ at'[w].resolved[n] \in keys' \cup KeysBefore(w)'
                      /\ at'[w].resolved[n] \in English(w)'
    BY DEF ResolvedOK
  <2>1. CASE n = label(w)
    <3>1. at'[w].resolved[n] = c
      BY <2>1 DEF GoesOn
    <3> QED BY <3>1, <1>0, <1>3 DEF Keys
  <2>2. CASE n # label(w)
    <3>1. n \in DOMAIN at[w].resolved /\ at'[w].resolved[n] = at[w].resolved[n]
      BY <2>2 DEF GoesOn
    <3>2. at[w].resolved[n] \in keys \cup KeysBefore(w) /\ at[w].resolved[n] \in English(w)
      BY <3>1, <1>0 DEF Before, Own, ResolvedOK, Naming, PlaceOK
    <3> QED BY <3>1, <3>2, <1>0, <1>3, <1>4 DEF EnglishStays
  <2> QED BY <2>1, <2>2
<1>8. ConceptOK(w)' /\ GapsOK(w)'
  BY <1>0 DEF ConceptOK, GapsOK, Attaching
<1> QED BY <1>1, <1>2, <1>3, <1>4, <1>5, <1>6, <1>7, <1>8

(* One row more is finitely many.                                          *)
LEMMA FinitePlus ==
    ASSUME NEW p, IsFiniteSet(DOMAIN tx[p].terms), NEW i, NEW c, NEW l, NEW n,
           RowWritten(p, i, c, l, n)
    PROVE  IsFiniteSet(DOMAIN tx'[p].terms)
<1>1. DOMAIN tx'[p].terms = DOMAIN tx[p].terms \cup {i}
  BY WrittenFacts
<1>2. IsFiniteSet(DOMAIN tx[p].terms \cup {i})
  BY FS_AddElement
<1> QED BY <1>1, <1>2

(* A label is still looked for.                                            *)
StaysAt(p) ==
    /\ p \in Writer =>
         /\ StaysOn(p)
         /\ {"recovering", "attempt", "save", "concept"} \subseteq DOMAIN at'[p]
    /\ p \in Localizer =>
         {"concept", "word", "grade"} \subseteq DOMAIN at'[p] /\ at'[p].word = at[p].word

(* What a process keeps that stays with its label.                         *)
LEMMA StaysFacts ==
    ASSUME NEW p, Before(p), StaysAt(p)
    PROVE  /\ norm(p)' = norm(p) /\ locale(p)' = locale(p)
           /\ p \in Writer => label(p)' = label(p) /\ norm(p) = label(p) /\ locale(p) = "en"
<1>1. p \in Writer => label(p)' = label(p)
  BY DEF StaysAt, StaysOn, label
<1>2. norm(p)' = norm(p)
  BY <1>1, BeforeFacts DEF StaysAt, norm
<1> QED BY <1>1, <1>2, WriterPlace DEF locale

(* It keeps what is there of its local variables.                          *)
LEMMA StaysPlace ==
    ASSUME NEW p, Before(p), StaysAt(p), pc[p] \in Naming \ {"find"}, Stored,
           pc'[p] \in Place(p),
           pc'[p] \in {"lookUp", "preferred", "rename", "insert", "recover", "recoverKey",
                       "lockConcept"},
           pc'[p] = "rename" => "id" \in DOMAIN at'[p],
           p \in Writer => at'[p].recovering \in BOOLEAN,
           TxFields \subseteq DOMAIN tx'[p], tx'[p].snap = tx[p].snap,
           IsFiniteSet(DOMAIN tx'[p].terms)
    PROVE  PlaceOK(p)' /\ BaseOK(p)' /\ Base(p)' = Base(p)
<1>1. Base(p)' = Base(p) /\ BaseOK(p)'
  BY BaseStays DEF Before, Own
<1>2. PlaceOK(p)'
  <2>1. CASE p \in Writer
    BY <2>1, BeforeFacts DEF PlaceOK, Place, Naming, StaysAt, StaysOn
  <2>2. CASE p \in Localizer
    BY <2>2, BeforeFacts DEF PlaceOK, Place, Naming, StaysAt
  <2> QED BY <2>1, <2>2, BeforeFacts
<1> QED BY <1>1, <1>2

(* And what it has found so far.                                           *)
LEMMA StaysResolved ==
    ASSUME NEW p, Before(p), StaysAt(p), pc[p] # "idle", Stored,
           EnglishStays(p), KeysBefore(p) \subseteq KeysBefore(p)'
    PROVE  ResolvedOK(p)'
<1>1. CASE p \in Writer
  BY <1>1 DEF Before, Own, ResolvedOK, StaysAt, StaysOn, EnglishStays, Stored
<1> QED BY <1>1 DEF ResolvedOK

(* The rows that were seen are seen.                                       *)
LEMMA StaysSeen ==
    ASSUME NEW p, Before(p), StaysAt(p), pc[p] \in Naming \ {"lockConcept", "rename"},
           Base(p)' = Base(p), KeysBefore(p) \subseteq KeysBefore(p)',
           \A i \in DOMAIN tx'[p].terms :
             \/ i \in DOMAIN tx[p].terms /\ tx'[p].terms[i] = tx[p].terms[i]
             \/ tx'[p].terms[i].concept \in Base(p).keys \cup KeysBefore(p)
             \/ pc'[p] = "lockConcept" /\ tx'[p].terms[i].norm = label(p)
             \/ pc'[p] = "rename" /\ i = at'[p].id
    PROVE  SeenOK(p)'
<1> SUFFICES ASSUME p \in Writer, pc'[p] \in Naming, NEW i \in DOMAIN tx'[p].terms
             PROVE  \/ \E k \in 1..(at'[p].i - 1) :
                         tx'[p].terms[i].norm = at'[p].graph.labels[k]
                    \/ tx'[p].terms[i].concept \in Base(p).keys \cup KeysBefore(p)'
                    \/ pc'[p] = "lockConcept" /\ tx'[p].terms[i].norm = label(p)
                    \/ pc'[p] = "rename" /\ i = at'[p].id
  BY StaysFacts DEF SeenOK
<1>1. CASE i \in DOMAIN tx[p].terms /\ tx'[p].terms[i] = tx[p].terms[i]
  <2>1. \/ \E k \in 1..(at[p].i - 1) : tx[p].terms[i].norm = at[p].graph.labels[k]
        \/ tx[p].terms[i].concept \in Base(p).keys \cup KeysBefore(p)
    BY <1>1 DEF Before, Own, SeenOK
  <2> QED BY <1>1, <2>1 DEF StaysAt, StaysOn
<1> QED BY <1>1

(* The gaps that were locked hold nothing.                                 *)
LEMMA NothingFound ==
    ASSUME NEW p, Own(p), StoredClearOK(p)
    PROVE  /\ pc[p] \in {"preferred", "rename", "insert"} =>
                FoundRows(p, locale(p), norm(p)) = {}
           /\ pc[p] = "insert" => ConceptRows(p, at[p].concept, locale(p)) = {}
<1>1. ASSUME pc[p] \in {"preferred", "rename", "insert"}, NEW i \in AllIds(p),
             RowAt(p, i).locale = locale(p), RowAt(p, i).norm = norm(p)
      PROVE  FALSE
  <2>1. i \notin DOMAIN tx[p].terms
    BY <1>1 DEF Own, GapsOK, RowAt
  <2>2. i \in DOMAIN terms /\ terms[i].locale = locale(p) /\ terms[i].norm = norm(p)
    BY <1>1, <2>1 DEF AllIds, RowAt
  <2> QED BY <1>1, <2>1, <2>2 DEF Own, GapsOK, StoredClearOK
<1>2. ASSUME pc[p] = "insert", NEW i \in AllIds(p),
             RowAt(p, i).locale = locale(p), RowAt(p, i).concept = at[p].concept
      PROVE  FALSE
  <2>1. i \notin DOMAIN tx[p].terms
    BY <1>2 DEF Own, GapsOK, RowAt
  <2>2. i \in DOMAIN terms /\ terms[i].locale = locale(p) /\ terms[i].concept = at[p].concept
    BY <1>2, <2>1 DEF AllIds, RowAt
  <2> QED BY <1>2, <2>1, <2>2 DEF Own, GapsOK, StoredClearOK
<1> QED BY <1>1, <1>2 DEF FoundRows, ConceptRows

(* There is an id that no row has.                                         *)
LEMMA NewIdFacts ==
    ASSUME StoreParameters, ShapeOK, \A q \in Process : PlaceOK(q)
    PROVE  NewId \notin Ids
<1>1. IsFiniteSet(Ids)
  <2> DEFINE rows == {DOMAIN tx[q].terms : q \in Process}
  <2>1. IsFiniteSet(rows)
    <3> DEFINE f == [q \in Process |-> DOMAIN tx[q].terms]
    <3>1. f \in Surjection(Process, rows)
      BY DEF Surjection
    <3> HIDE DEF f, rows
    <3> QED BY <3>1, FS_Surjection DEF StoreParameters
  <2>2. \A r \in rows : IsFiniteSet(r)
    BY DEF PlaceOK
  <2>3. IsFiniteSet(UNION rows)
    BY <2>1, <2>2, FS_UNION
  <2> QED BY <2>3, FS_Union DEF Ids, ShapeOK
<1>2. PICK n \in Nat : n = Cardinality(Ids)
  BY <1>1, FS_CardinalityType
<1>3. ~(1..n + 1 \subseteq Ids)
  <2> SUFFICES ASSUME 1..n + 1 \subseteq Ids PROVE FALSE
    OBVIOUS
  <2>1. Cardinality(1..n + 1) <= n
    BY <1>1, <1>2, FS_Subset
  <2>2. Cardinality(1..n + 1) = n + 1
    BY FS_Interval
  <2> QED BY <2>1, <2>2
<1>4. \E i \in 1..Cardinality(Ids) + 1 : i \notin Ids
  BY <1>2, <1>3
<1> QED BY <1>4 DEF NewId

(* So the new one is none of anybody's.                                    *)
LEMMA NewIdFree ==
    ASSUME StoreParameters, ShapeOK, AllOwn, NEW p \in Process
    PROVE  NewId \notin AllIds(p)
BY NewIdFacts DEF AllOwn, Own, AllIds, Ids

(* Nothing is written by a transaction that begins.                        *)
LEMMA FreshFacts ==
    ASSUME NEW p, StoreParameters, p \in Process, TablesOK, Stored, tx'[p] = NoTx,
           pc'[p] \in {"idle", "find", "lookUp"}
    PROVE  /\ BaseOK(p)' /\ ConceptsOK(p)' /\ SeenOK(p)' /\ LocksOK(p)' /\ CountsOK(p)'
           /\ GapsOK(p)'
<1>1. Base(p)' = Tables
  BY NoTxFields DEF Base, Stored, Tables
<1>2. BaseOK(p)'
  BY <1>1 DEF BaseOK, Tables, TablesOK, Stored
<1> QED BY <1>2, NoTxFields DEF ConceptsOK, SeenOK, LocksOK, CountsOK, GapsOK

(* The steps, one by one, for the process that takes them. A graph begins. *)
LEMMA OwnStart ==
    ASSUME NEW w \in Writer, Before(w), NEW g \in Graphs, Start(w, g)
    PROVE  Own(w)'
<1>1. /\ pc[w] = "idle" /\ pc'[w] = "find" /\ Stored /\ UNCHANGED tx
      /\ {"graph", "i", "resolved"} \subseteq DOMAIN at'[w]
      /\ at'[w].graph = g /\ at'[w].i = 1 /\ DOMAIN at'[w].resolved = {}
  BY StartFacts, BeforeFacts
<1>2. tx'[w] = NoTx
  BY <1>1, BeforeFacts DEF PlaceOK
<1>3. 1 \in DOMAIN g.labels
  BY DEF Before, StoreParameters
<1>4. PlaceOK(w)'
  BY <1>1, <1>2, <1>3, BeforeFacts, NoTxFields, FS_EmptySet DEF PlaceOK, Place, Naming
<1>5. SaveOK(w)' /\ ResolvedOK(w)' /\ ConceptOK(w)'
  BY <1>1 DEF SaveOK, Nested, ResolvedOK, ConceptOK, Attaching
<1> QED BY <1>1, <1>2, <1>4, <1>5, FreshFacts DEF Own, Before

(* A translation begins.                                                   *)
LEMMA OwnLocalize ==
    ASSUME NEW p \in Localizer, Before(p), NEW c, NEW n, Localize(p, c, n)
    PROVE  Own(p)'
<1>1. /\ pc[p] = "idle" /\ pc'[p] = "lookUp" /\ Stored /\ UNCHANGED tx
      /\ {"concept", "word", "grade"} \subseteq DOMAIN at'[p]
      /\ at'[p].concept = c /\ c \in keys
  BY LocalizeFacts, BeforeFacts
<1>2. tx'[p] = NoTx
  BY <1>1, BeforeFacts DEF PlaceOK
<1>4. PlaceOK(p)'
  BY <1>1, <1>2, BeforeFacts, NoTxFields, FS_EmptySet DEF PlaceOK, Place, Naming
<1>5. SaveOK(p)' /\ ResolvedOK(p)' /\ ConceptOK(p)'
  BY <1>1, BeforeFacts DEF SaveOK, Nested, ResolvedOK, ConceptOK, Attaching, Keys, Stored
<1> QED BY <1>1, <1>2, <1>4, <1>5, FreshFacts DEF Own, Before

(* A concept that was found is one that the process sees.                  *)
LEMMA SeenByView ==
    ASSUME NEW p, Own(p), p \in Writer, pc[p] \in Attaching, ~at[p].recovering
    PROVE  at[p].concept \in View(p).keys /\ at[p].concept \in Base(p).keys \cup tx[p].keys
BY ViewFacts DEF Own, ConceptOK

(* The plain read.                                                         *)
LEMMA OwnFind ==
    ASSUME NEW w \in Writer, Before(w), Find(w)
    PROVE  Own(w)'
<1>1. /\ pc[w] = "find" /\ Stored
      /\ TxIs(w, Base(w), tx[w].keys, tx[w].terms, tx[w].edges, tx[w].evidence,
              tx[w].locks)
      /\ StaysOn(w)
      /\ {"recovering", "attempt", "save", "concept"} \subseteq DOMAIN at'[w]
      /\ at'[w].recovering = FALSE /\ at'[w].save = tx[w]
  BY FindFacts, BeforeFacts
<1>2. \/ \E i : /\ Sought(w, i, "en") /\ pc'[w] = "enrich"
                /\ {"id", "read"} \subseteq DOMAIN at'[w]
                /\ at'[w].id = i /\ at'[w].concept = View(w).terms[i].concept
      \/ \E i : /\ Sought(w, i, "es") /\ pc'[w] = "lookUp"
                /\ at'[w].concept = View(w).terms[i].concept
      \/ pc'[w] = "create" /\ at'[w].concept = label(w)
  BY FindFacts, BeforeFacts
<1>3. /\ tx'[w].keys = tx[w].keys /\ tx'[w].terms = tx[w].terms
      /\ tx'[w].edges = tx[w].edges /\ tx'[w].evidence = tx[w].evidence
      /\ tx'[w].locks = tx[w].locks /\ tx'[w].snap = Base(w)
      /\ TxFields \subseteq DOMAIN tx'[w]
  BY <1>1 DEF TxIs
<1>4. Base(w)' = Base(w) /\ BaseOK(w)'
  BY <1>1, <1>3, BaseStays DEF Before, Own
<1>5. pc'[w] \in {"enrich", "lookUp", "create"} /\ w \notin Localizer
  BY <1>2, BeforeFacts
<1>6. KeysBefore(w) = tx[w].keys /\ KeysBefore(w)' = tx[w].keys
  BY <1>1, <1>3, <1>5 DEF KeysBefore, Nested
<1>7. PlaceOK(w)'
  <2>1. at[w].i \in DOMAIN at[w].graph.labels /\ at[w].graph \in Graphs
    BY <1>1, BeforeFacts DEF PlaceOK, Naming
  <2> QED BY <1>1, <1>2, <1>3, <1>5, <2>1, BeforeFacts DEF PlaceOK, Place, Naming, StaysOn
<1>8. SaveOK(w)'
  BY <1>1, <1>3 DEF SaveOK
<1>9. LocksOK(w)' /\ ConceptsOK(w)' /\ CountsOK(w)'
  BY <1>1, <1>3, <1>6, RowsOwned DEF Before
<1>10. StaysAt(w)
  BY <1>1, <1>5 DEF StaysAt
<1>11. SeenOK(w)'
  BY <1>1, <1>3, <1>4, <1>6, <1>10, StaysSeen DEF Naming
<1>12. ResolvedOK(w)'
  BY <1>1, <1>3, <1>6, <1>10, EnglishSame, StaysResolved
<1>13. GapsOK(w)'
  BY <1>5 DEF GapsOK
<1>14. ASSUME NEW i \in DOMAIN View(w).terms, View(w).terms[i].norm = label(w)
       PROVE  /\ View(w).terms[i].concept \in Base(w).keys \cup tx[w].keys
              /\ i \in AllIds(w) /\ RowAt(w, i).concept = View(w).terms[i].concept
              /\ RowAt(w, i).locale = View(w).terms[i].locale
  <2>1. CASE i \in DOMAIN tx[w].terms
    <3>1. View(w).terms[i] = tx[w].terms[i]
      BY <1>14, <2>1, ViewFacts
    <3>2. \/ \E k \in 1..(at[w].i - 1) : tx[w].terms[i].norm = at[w].graph.labels[k]
          \/ tx[w].terms[i].concept \in Base(w).keys \cup tx[w].keys
      BY <1>1, <1>6, <2>1 DEF Before, Own, SeenOK, Naming
    <3>3. ~ \E k \in 1..(at[w].i - 1) : tx[w].terms[i].norm = at[w].graph.labels[k]
      <4> SUFFICES ASSUME NEW k \in 1..(at[w].i - 1), label(w) = at[w].graph.labels[k]
                   PROVE  FALSE
        BY <1>14, <3>1
      <4>1. /\ at[w].graph \in Graphs /\ at[w].i \in DOMAIN at[w].graph.labels
            /\ at[w].graph.labels \in Seq(Norm)
        BY <1>1, BeforeFacts DEF PlaceOK, Before, StoreParameters, Naming
      <4>2. k \in DOMAIN at[w].graph.labels /\ k # at[w].i
        BY <4>1
      <4> QED BY <4>1, <4>2 DEF label, Before, StoreParameters
    <3> QED BY <2>1, <3>1, <3>2, <3>3 DEF AllIds, RowAt
  <2>2. CASE i \notin DOMAIN tx[w].terms
    <3>1. View(w).terms[i] = Base(w).terms[i] /\ i \in DOMAIN Base(w).terms
      BY <1>14, <2>2, ViewFacts
    <3> QED BY <2>2, <3>1 DEF Before, Own, BaseOK, AllIds, RowAt
  <2> QED BY <2>1, <2>2
<1>15. AllIds(w)' = AllIds(w) /\ (\A i : RowAt(w, i)' = RowAt(w, i)) /\ label(w)' = label(w)
       /\ Keys(w)' = Keys(w) /\ Base(w).keys \subseteq keys /\ keys' = keys
  BY <1>1, <1>3, RowsStay DEF StaysOn, label, Keys, Stored, Before, Own, BaseOK
<1>16. ConceptOK(w)'
  <2>1. CASE \E i : /\ Sought(w, i, "en") /\ pc'[w] = "enrich"
                    /\ at'[w].id = i /\ at'[w].concept = View(w).terms[i].concept
    <3>1. PICK i : /\ Sought(w, i, "en") /\ pc'[w] = "enrich"
                   /\ at'[w].id = i /\ at'[w].concept = View(w).terms[i].concept
      BY <2>1
    <3>2. /\ at'[w].concept \in Base(w).keys \cup tx[w].keys
          /\ i \in AllIds(w) /\ RowAt(w, i).concept = at'[w].concept
          /\ RowAt(w, i).locale = "en"
      BY <3>1, <1>14 DEF Sought
    <3>3. i \in AllIds(w)' /\ RowAt(w, i)'.concept = at'[w].concept
          /\ RowAt(w, i)'.locale = "en"
      BY <3>2, <1>15
    <3>4. at'[w].id \in AllIds(w)' /\ RowAt(w, at[w].id)'.concept = at'[w].concept
          /\ RowAt(w, at[w].id)'.locale = "en"
      BY <3>1, <3>3 DEF RowAt
    <3> QED BY <1>3, <1>4, <1>15, <3>1, <3>2, <3>4 DEF ConceptOK, Attaching, Keys
  <2>2. CASE \E i : /\ Sought(w, i, "es") /\ pc'[w] = "lookUp"
                    /\ at'[w].concept = View(w).terms[i].concept
    <3>1. at'[w].concept \in Base(w).keys \cup tx[w].keys /\ pc'[w] = "lookUp"
      BY <2>2, <1>14 DEF Sought
    <3> QED BY <1>3, <1>4, <1>15, <3>1 DEF ConceptOK, Attaching, Keys
  <2>3. CASE pc'[w] = "create" /\ at'[w].concept = label(w)
    BY <1>15, <2>3 DEF ConceptOK, Attaching
  <2> QED BY <1>2, <2>1, <2>2, <2>3
<1> QED BY <1>4, <1>7, <1>8, <1>9, <1>11, <1>12, <1>13, <1>16 DEF Own

(* What a process keeps whose row keeps its concept, language and label.   *)
LEMMA KeptFacts ==
    ASSUME NEW p, Own(p), TablesOK, Stored, NEW i, RowKept(p, i)
    PROVE  /\ EnglishStays(p) /\ IsFiniteSet(DOMAIN tx'[p].terms)
           /\ TxFields \subseteq DOMAIN tx'[p]
           /\ tx'[p].snap = tx[p].snap /\ tx'[p].keys = tx[p].keys
           /\ DOMAIN tx'[p].terms = DOMAIN tx[p].terms \cup {i}
           /\ tx'[p].terms[i].concept = RowAt(p, i).concept
           /\ tx'[p].terms[i].locale = RowAt(p, i).locale
           /\ tx'[p].terms[i].norm = RowAt(p, i).norm
           /\ \A j \in DOMAIN tx[p].terms \ {i} : tx'[p].terms[j] = tx[p].terms[j]
           /\ RowAt(p, i).concept \in keys \cup KeysBefore(p)
           /\ KeysBefore(p) \subseteq KeysBefore(p)' =>
                LocksOK(p)' /\ ConceptsOK(p)' /\ CountsOK(p)'
<1>1. RowWritten(p, i, RowAt(p, i).concept, RowAt(p, i).locale, RowAt(p, i).norm)
      /\ i \in AllIds(p) /\ Lock("X", Row(i)) \in Wants(p)
  BY DEF RowKept
<1>2. RowAt(p, i).concept \in keys \cup KeysBefore(p)
  BY <1>1 DEF Own, ConceptsOK, TablesOK, AllIds, RowAt
<1>3. EnglishStays(p)
  BY <1>1, EnglishKept
<1>4. IsFiniteSet(DOMAIN tx'[p].terms)
  BY <1>1, FinitePlus DEF Own, PlaceOK
<1>5. KeysBefore(p) \subseteq KeysBefore(p)' => LocksOK(p)' /\ ConceptsOK(p)' /\ CountsOK(p)'
  BY <1>1, <1>2, RowOwned
<1>6. /\ TxFields \subseteq DOMAIN tx'[p]
      /\ tx'[p].snap = tx[p].snap /\ tx'[p].keys = tx[p].keys
      /\ DOMAIN tx'[p].terms = DOMAIN tx[p].terms \cup {i}
      /\ tx'[p].terms[i].concept = RowAt(p, i).concept
      /\ tx'[p].terms[i].locale = RowAt(p, i).locale
      /\ tx'[p].terms[i].norm = RowAt(p, i).norm
      /\ \A j \in DOMAIN tx[p].terms \ {i} : tx'[p].terms[j] = tx[p].terms[j]
  BY <1>1, WrittenFacts
<1> QED BY <1>2, <1>3, <1>4, <1>5, <1>6

(* Rows stay of concepts that are there, while concepts are added.         *)
LEMMA KeysGrow ==
    ASSUME NEW p, Own(p), tx[p].keys \subseteq tx'[p].keys, ~Nested(p)'
    PROVE  KeysBefore(p) \subseteq KeysBefore(p)'
BY DEF Own, SaveOK, KeysBefore

(* Outside a nested transaction nothing is saved.                          *)
LEMMA SaveVacuous == ASSUME NEW p, ~Nested(p)' PROVE SaveOK(p)'
BY DEF SaveOK

(* The row that was found.                                                 *)
LEMMA OwnEnrich ==
    ASSUME NEW w \in Writer, Before(w), Enrich(w)
    PROVE  Own(w)'
<1>1. pc[w] = "enrich" /\ Own(w) /\ PlaceOK(w) /\ ~at[w].recovering
  BY BeforeFacts DEF Enrich, Before, PlaceOK
<1>2. /\ at[w].concept \in View(w).keys
      /\ at[w].concept \in Base(w).keys \cup tx[w].keys
  BY <1>1, SeenByView DEF Attaching
<1>3. /\ at[w].id \in AllIds(w) /\ RowAt(w, at[w].id).concept = at[w].concept
      /\ RowAt(w, at[w].id).locale = "en" /\ at[w].concept \in Keys(w)
  BY <1>1 DEF Own, ConceptOK, Attaching
<1>4. /\ Stored /\ GoesOn(w, at[w].concept)
      /\ SameTx(w) \/ RowKept(w, at[w].id)
  BY <1>2, <1>3, EnrichFacts, BeforeFacts
<1>5. at[w].concept \in English(w)
  BY <1>3 DEF English
<1>6. CASE SameTx(w)
  <2>1. /\ TxFields \subseteq DOMAIN tx'[w]
        /\ tx'[w].snap = tx[w].snap /\ tx'[w].keys = tx[w].keys
        /\ tx'[w].terms = tx[w].terms /\ tx'[w].edges = tx[w].edges
        /\ tx'[w].evidence = tx[w].evidence /\ tx'[w].locks = tx[w].locks
    BY <1>6 DEF SameTx, TxIs
  <2>2. EnglishStays(w) /\ IsFiniteSet(DOMAIN tx'[w].terms)
    BY <1>1, <1>4, <2>1, EnglishSame DEF PlaceOK
  <2>3. at[w].concept \in English(w)'
    BY <1>5, <2>2 DEF EnglishStays
  <2>4. /\ PlaceOK(w)' /\ BaseOK(w)' /\ SaveOK(w)' /\ SeenOK(w)' /\ ResolvedOK(w)'
        /\ ConceptOK(w)' /\ GapsOK(w)' /\ KeysBefore(w) \subseteq KeysBefore(w)'
    BY <1>1, <1>3, <1>4, <2>1, <2>2, <2>3, GoesOnOK DEF Naming
  <2>5. LocksOK(w)' /\ ConceptsOK(w)' /\ CountsOK(w)'
    BY <1>1, <1>4, <2>1, <2>4, RowsOwned
  <2> QED BY <2>4, <2>5 DEF Own
<1>7. CASE RowKept(w, at[w].id)
  <2>1. PICK i : i = at[w].id
    OBVIOUS
  <2>2. /\ EnglishStays(w) /\ IsFiniteSet(DOMAIN tx'[w].terms)
        /\ TxFields \subseteq DOMAIN tx'[w]
        /\ tx'[w].snap = tx[w].snap /\ tx'[w].keys = tx[w].keys
        /\ DOMAIN tx'[w].terms = DOMAIN tx[w].terms \cup {i}
        /\ tx'[w].terms[i].concept = RowAt(w, i).concept
        /\ \A j \in DOMAIN tx[w].terms \ {i} : tx'[w].terms[j] = tx[w].terms[j]
        /\ KeysBefore(w) \subseteq KeysBefore(w)' =>
                LocksOK(w)' /\ ConceptsOK(w)' /\ CountsOK(w)'
    BY <1>1, <1>4, <1>7, <2>1, KeptFacts DEF Before
  <2>3. at[w].concept \in English(w)'
    BY <1>5, <2>2 DEF EnglishStays
  <2>4. \A j \in DOMAIN tx'[w].terms :
          \/ tx'[w].terms[j].concept \in Base(w).keys \cup tx[w].keys
          \/ j \in DOMAIN tx[w].terms /\ tx'[w].terms[j] = tx[w].terms[j]
    BY <1>2, <1>3, <2>1, <2>2
  <2>5. /\ PlaceOK(w)' /\ BaseOK(w)' /\ SaveOK(w)' /\ SeenOK(w)' /\ ResolvedOK(w)'
        /\ ConceptOK(w)' /\ GapsOK(w)' /\ KeysBefore(w) \subseteq KeysBefore(w)'
    BY <1>1, <1>3, <1>4, <2>2, <2>3, <2>4, GoesOnOK DEF Naming
  <2> QED BY <2>2, <2>5 DEF Own
<1> QED BY <1>4, <1>6, <1>7

(* A new concept.                                                          *)
LEMMA OwnCreate ==
    ASSUME NEW w \in Writer, Before(w), Create(w)
    PROVE  Own(w)'
<1>1. /\ pc[w] = "create" /\ Own(w) /\ PlaceOK(w) /\ ~at[w].recovering /\ w \notin Localizer
      /\ Nested(w) /\ at[w].concept = label(w)
      /\ {"recovering", "attempt", "save", "concept"} \subseteq DOMAIN at[w]
      /\ {"graph", "i", "resolved"} \subseteq DOMAIN at[w]
  BY BeforeFacts DEF Create, Before, PlaceOK, Naming, Nested, Own, ConceptOK
<1>2. /\ Stored /\ KeepsLocal(w)
      /\ \/ label(w) \in Keys(w) /\ OnlyLocks(w, {}) /\ pc'[w] = "recover"
         \/ /\ pc'[w] = "lookUp"
            /\ TxIs(w, tx[w].snap, tx[w].keys \cup {label(w)}, tx[w].terms,
                    tx[w].edges, tx[w].evidence, tx[w].locks \cup Taken(w))
  BY CreateFacts, BeforeFacts
<1>3. /\ TxFields \subseteq DOMAIN tx'[w]
      /\ tx'[w].snap = tx[w].snap /\ tx[w].keys \subseteq tx'[w].keys
      /\ tx'[w].terms = tx[w].terms /\ tx'[w].edges = tx[w].edges
      /\ tx'[w].evidence = tx[w].evidence /\ tx[w].locks \subseteq tx'[w].locks
      /\ pc'[w] = "lookUp" => label(w) \in tx'[w].keys
      /\ pc'[w] = "recover" => label(w) \in Keys(w)
  BY <1>2 DEF TxIs, OnlyLocks
<1>4. StaysAt(w)
  BY <1>1, <1>2 DEF StaysAt, StaysOn, KeepsLocal
<1>5. pc'[w] \in {"lookUp", "recover"}
  BY <1>2
<1>6. PlaceOK(w)' /\ BaseOK(w)' /\ Base(w)' = Base(w)
  BY <1>1, <1>2, <1>3, <1>4, <1>5, StaysPlace DEF PlaceOK, Place, Naming, KeepsLocal
<1>7. SaveOK(w)' /\ KeysBefore(w) \subseteq KeysBefore(w)'
  BY <1>1, <1>2, <1>3 DEF Own, SaveOK, KeysBefore, Nested, KeepsLocal
<1>8. LocksOK(w)' /\ ConceptsOK(w)' /\ CountsOK(w)'
  BY <1>1, <1>2, <1>3, <1>7, RowsOwned
<1>9. SeenOK(w)'
  BY <1>1, <1>3, <1>4, <1>6, <1>7, StaysSeen DEF Naming
<1>10. ResolvedOK(w)'
  BY <1>1, <1>2, <1>3, <1>4, <1>7, EnglishSame, StaysResolved
<1>11. GapsOK(w)'
  BY <1>5 DEF GapsOK
<1>12. ConceptOK(w)'
  <2>1. label(w)' = label(w) /\ at'[w].concept = label(w) /\ Keys(w) \subseteq Keys(w)'
    BY <1>1, <1>2, <1>3, <1>4, StaysFacts DEF KeepsLocal, Keys, Stored
  <2> QED BY <1>1, <1>2, <1>3, <1>5, <2>1 DEF ConceptOK, Attaching, Keys
<1> QED BY <1>6, <1>7, <1>8, <1>9, <1>10, <1>11, <1>12 DEF Own

(* A translation that has come to its end.                                 *)
LEMMA CommitOK ==
    ASSUME NEW p \in Localizer, Before(p), pc[p] # "idle", pc'[p] = "commit", KeepsLocal(p),
           Stored, TxFields \subseteq DOMAIN tx'[p], tx'[p].snap = tx[p].snap,
           IsFiniteSet(DOMAIN tx'[p].terms)
    PROVE  /\ PlaceOK(p)' /\ BaseOK(p)' /\ SaveOK(p)' /\ SeenOK(p)' /\ ResolvedOK(p)'
           /\ ConceptOK(p)' /\ GapsOK(p)' /\ KeysBefore(p) = tx[p].keys
           /\ KeysBefore(p)' = tx'[p].keys
<1>1. p \notin Writer /\ PlaceOK(p)
  BY BeforeFacts
<1>2. BaseOK(p)'
  BY BaseStays DEF Before, Own
<1>3. PlaceOK(p)'
  BY <1>1 DEF PlaceOK, Place, Naming, KeepsLocal
<1>4. SaveOK(p)' /\ SeenOK(p)' /\ ResolvedOK(p)'
  BY <1>1 DEF SaveOK, Nested, SeenOK, ResolvedOK
<1>5. ConceptOK(p)' /\ GapsOK(p)'
  BY DEF ConceptOK, GapsOK, Attaching
<1> QED BY <1>1, <1>2, <1>3, <1>4, <1>5 DEF KeysBefore, Nested

(* An attachment that has come to its end.                                 *)
LEMMA AttachesOK ==
    ASSUME NEW p, Before(p), pc[p] \in {"lookUp", "rename", "insert"}, Stored, Attaches(p),
           TxFields \subseteq DOMAIN tx'[p],
           tx'[p].snap = tx[p].snap, tx'[p].keys = tx[p].keys,
           IsFiniteSet(DOMAIN tx'[p].terms), EnglishStays(p),
           p \in Writer => at[p].concept \in English(p)',
           p \in Writer => \A i \in DOMAIN tx'[p].terms :
             \/ tx'[p].terms[i].norm = label(p)
             \/ /\ i \in DOMAIN tx[p].terms /\ tx'[p].terms[i] = tx[p].terms[i]
                /\ ~(pc[p] = "rename" /\ i = at[p].id),
           KeysBefore(p) \subseteq KeysBefore(p)' =>
             LocksOK(p)' /\ ConceptsOK(p)' /\ CountsOK(p)'
    PROVE  Own(p)'
<1>1. CASE p \in Localizer
  <2>1. pc'[p] = "commit" /\ KeepsLocal(p) /\ pc[p] # "idle"
    BY <1>1, BeforeFacts DEF Attaches
  <2>2. /\ PlaceOK(p)' /\ BaseOK(p)' /\ SaveOK(p)' /\ SeenOK(p)' /\ ResolvedOK(p)'
        /\ ConceptOK(p)' /\ GapsOK(p)' /\ KeysBefore(p) = tx[p].keys
        /\ KeysBefore(p)' = tx'[p].keys
    BY <1>1, <2>1, CommitOK
  <2> QED BY <2>2 DEF Own
<1>2. CASE p \in Writer
  <2>1. GoesOn(p, at[p].concept) /\ at[p].concept \in Keys(p)
    BY <1>2, BeforeFacts DEF Attaches, Before, Own, ConceptOK, Attaching
  <2>2. /\ PlaceOK(p)' /\ BaseOK(p)' /\ SaveOK(p)' /\ SeenOK(p)' /\ ResolvedOK(p)'
        /\ ConceptOK(p)' /\ GapsOK(p)' /\ KeysBefore(p) \subseteq KeysBefore(p)'
    BY <1>2, <2>1, GoesOnOK DEF Naming
  <2> QED BY <2>2 DEF Own
<1> QED BY <1>1, <1>2, BeforeFacts

(* The locking read of a label.                                            *)
LEMMA OwnLookUp ==
    ASSUME NEW p, Before(p), LookUp(p)
    PROVE  Own(p)'
<1>1. /\ pc[p] = "lookUp" /\ Own(p) /\ PlaceOK(p) /\ p \in Process /\ at[p].concept \in Keys(p)
      /\ p \in Writer /\ ~at[p].recovering =>
           /\ at[p].concept \in View(p).keys
           /\ at[p].concept \in Base(p).keys \cup tx[p].keys
  BY BeforeFacts, SeenByView DEF LookUp, Before, Attaching, Own, ConceptOK
<1>2. /\ Stored
      /\ \/ /\ FoundRows(p, locale(p), norm(p)) = {}
            /\ OnlyLocks(p, {Lock("gap", SurfaceGap(locale(p), norm(p)))})
            /\ pc'[p] = "preferred" /\ KeepsLocal(p)
         \/ \E i \in FoundRows(p, locale(p), norm(p)) :
              \/ /\ RowAt(p, i).concept = at[p].concept
                 /\ RowKept(p, i) /\ Attaches(p)
              \/ /\ RowAt(p, i).concept # at[p].concept
                 /\ Lock("X", Row(i)) \in Wants(p) /\ OtherOwner(p, i)
  BY <1>1, LookUpFacts, BeforeFacts DEF Before
<1>w. p \in Writer => norm(p) = label(p) /\ locale(p) = "en"
  BY WriterPlace
<1>k. KeepsLocal(p) => StaysAt(p)
  BY <1>1, BeforeFacts DEF StaysAt, StaysOn, KeepsLocal, PlaceOK, Naming
<1>3. CASE /\ FoundRows(p, locale(p), norm(p)) = {}
           /\ OnlyLocks(p, {Lock("gap", SurfaceGap(locale(p), norm(p)))})
           /\ pc'[p] = "preferred" /\ KeepsLocal(p)
  <2>1. /\ TxFields \subseteq DOMAIN tx'[p]
        /\ tx'[p].snap = tx[p].snap /\ tx'[p].keys = tx[p].keys
        /\ tx'[p].terms = tx[p].terms /\ tx'[p].edges = tx[p].edges
        /\ tx'[p].evidence = tx[p].evidence /\ tx[p].locks \subseteq tx'[p].locks
        /\ Lock("gap", SurfaceGap(locale(p), norm(p))) \in tx'[p].locks
    BY <1>3 DEF TxIs, OnlyLocks
  <2>2. StaysAt(p)
    BY <1>3, <1>k
  <2>3. PlaceOK(p)' /\ BaseOK(p)' /\ Base(p)' = Base(p)
    BY <1>1, <1>2, <1>3, <2>1, <2>2, StaysPlace, BeforeFacts
       DEF PlaceOK, Place, Naming, KeepsLocal
  <2>4. SaveOK(p)' /\ KeysBefore(p) \subseteq KeysBefore(p)'
    BY <1>1, <1>3, <2>1 DEF Own, SaveOK, KeysBefore, Nested, KeepsLocal
  <2>5. LocksOK(p)' /\ ConceptsOK(p)' /\ CountsOK(p)'
    BY <1>1, <1>2, <2>1, <2>4, RowsOwned
  <2>6. SeenOK(p)'
    BY <1>1, <2>1, <2>2, <2>3, <2>4, StaysSeen DEF Naming
  <2>7. ResolvedOK(p)'
    BY <1>1, <1>2, <2>1, <2>2, <2>4, EnglishSame, StaysResolved
  <2>8. norm(p)' = norm(p) /\ locale(p)' = locale(p)
    BY <2>2, StaysFacts
  <2>9. GapsOK(p)'
    <3> SUFFICES ASSUME NEW i \in DOMAIN tx[p].terms, tx[p].terms[i].locale = locale(p),
                        tx[p].terms[i].norm = norm(p)
                 PROVE  FALSE
      BY <1>3, <2>1, <2>8 DEF GapsOK
    <3>1. i \in FoundRows(p, locale(p), norm(p))
      BY DEF FoundRows, AllIds, RowAt
    <3> QED BY <3>1, <1>3
  <2>10. ConceptOK(p)'
    BY <1>1, <1>2, <1>3, <2>1, <2>3 DEF ConceptOK, Attaching, KeepsLocal, Keys, Stored
  <2> QED BY <2>3, <2>4, <2>5, <2>6, <2>7, <2>9, <2>10 DEF Own
<1>4. ASSUME NEW i \in FoundRows(p, locale(p), norm(p)), RowAt(p, i).concept = at[p].concept,
             RowKept(p, i), Attaches(p)
      PROVE  Own(p)'
  <2>1. /\ EnglishStays(p) /\ IsFiniteSet(DOMAIN tx'[p].terms)
        /\ TxFields \subseteq DOMAIN tx'[p]
        /\ tx'[p].snap = tx[p].snap /\ tx'[p].keys = tx[p].keys
        /\ DOMAIN tx'[p].terms = DOMAIN tx[p].terms \cup {i}
        /\ tx'[p].terms[i].norm = RowAt(p, i).norm
        /\ \A j \in DOMAIN tx[p].terms \ {i} : tx'[p].terms[j] = tx[p].terms[j]
        /\ KeysBefore(p) \subseteq KeysBefore(p)' =>
                LocksOK(p)' /\ ConceptsOK(p)' /\ CountsOK(p)'
    BY <1>1, <1>2, <1>4, KeptFacts DEF Before
  <2>2. i \in AllIds(p) /\ RowAt(p, i).locale = locale(p) /\ RowAt(p, i).norm = norm(p)
    BY <1>4 DEF FoundRows
  <2>3. p \in Writer => at[p].concept \in English(p)'
    BY <1>4, <1>w, <2>1, <2>2 DEF English, EnglishStays
  <2>4. p \in Writer => \A j \in DOMAIN tx'[p].terms :
             \/ tx'[p].terms[j].norm = label(p)
             \/ j \in DOMAIN tx[p].terms /\ tx'[p].terms[j] = tx[p].terms[j]
    BY <1>w, <2>1, <2>2
  <2> QED BY <1>1, <1>2, <1>4, <2>1, <2>3, <2>4, AttachesOK
<1>5. ASSUME NEW i \in FoundRows(p, locale(p), norm(p)), Lock("X", Row(i)) \in Wants(p),
             OtherOwner(p, i)
      PROVE  Own(p)'
  <2>0. i \in AllIds(p) /\ RowAt(p, i).locale = locale(p) /\ RowAt(p, i).norm = norm(p)
    BY <1>5 DEF FoundRows
  <2>1. CASE p \in Localizer /\ OnlyLocks(p, {}) /\ pc'[p] = "commit" /\ KeepsLocal(p)
    <3>1. /\ TxFields \subseteq DOMAIN tx'[p]
          /\ tx'[p].snap = tx[p].snap /\ tx'[p].keys = tx[p].keys
          /\ tx'[p].terms = tx[p].terms /\ tx'[p].edges = tx[p].edges
          /\ tx'[p].evidence = tx[p].evidence /\ tx[p].locks \subseteq tx'[p].locks
      BY <2>1 DEF TxIs, OnlyLocks
    <3>2. /\ PlaceOK(p)' /\ BaseOK(p)' /\ SaveOK(p)' /\ SeenOK(p)' /\ ResolvedOK(p)'
          /\ ConceptOK(p)' /\ GapsOK(p)' /\ KeysBefore(p) = tx[p].keys
          /\ KeysBefore(p)' = tx'[p].keys
      BY <1>1, <1>2, <2>1, <3>1, CommitOK DEF PlaceOK
    <3>3. LocksOK(p)' /\ ConceptsOK(p)' /\ CountsOK(p)'
      BY <1>1, <1>2, <3>1, <3>2, RowsOwned
    <3> QED BY <3>2, <3>3 DEF Own
  <2>2. CASE /\ p \in Writer /\ ~at[p].recovering /\ pc'[p] = "recover" /\ KeepsLocal(p)
             /\ TxIs(p, tx[p].snap, at[p].save.keys, at[p].save.terms, tx[p].edges,
                     tx[p].evidence, {a \in tx[p].locks \cup Taken(p) : a.on \notin Gone(p)})
    <3>1. /\ Nested(p) /\ at[p].save.terms = tx[p].terms /\ at[p].save.keys \subseteq tx[p].keys
          /\ KeysBefore(p) = at[p].save.keys
      BY <1>1, <2>2 DEF Nested, Own, SaveOK, KeysBefore
    <3>2. /\ TxFields \subseteq DOMAIN tx'[p]
          /\ tx'[p].snap = tx[p].snap /\ tx'[p].keys = at[p].save.keys
          /\ tx'[p].terms = tx[p].terms /\ tx'[p].edges = tx[p].edges
          /\ tx'[p].evidence = tx[p].evidence
          /\ tx'[p].locks = {a \in tx[p].locks \cup Taken(p) : a.on \notin Gone(p)}
      BY <2>2, <3>1 DEF TxIs
    <3>3. \A j : Row(j) \notin Gone(p)
      BY <3>1, LockFacts DEF Gone
    <3>3a. \A e : Edge(e) \notin Gone(p)
      BY <3>1, LockFacts DEF Gone
    <3>4. StaysAt(p)
      BY <2>2, <1>k
    <3>5. PlaceOK(p)' /\ BaseOK(p)' /\ Base(p)' = Base(p)
      BY <1>1, <1>2, <2>2, <3>2, <3>4, StaysPlace, BeforeFacts
         DEF PlaceOK, Place, Naming, KeepsLocal
    <3>6. SaveOK(p)' /\ KeysBefore(p)' = KeysBefore(p)
      BY <2>2, <3>1, <3>2 DEF SaveOK, KeysBefore, Nested
    <3>7. LocksOK(p)'
      BY <1>1, <3>2, <3>3, <3>3a, LockFacts DEF Own, LocksOK
    <3>8. ConceptsOK(p)' /\ CountsOK(p)'
      BY <1>1, <1>2, <3>2, <3>6 DEF Own, ConceptsOK, CountsOK, Rows, Stored
    <3>9. SeenOK(p)'
      BY <1>1, <3>2, <3>4, <3>5, <3>6, StaysSeen DEF Naming
    <3>10. ResolvedOK(p)'
      BY <1>1, <1>2, <3>2, <3>4, <3>6, EnglishSame, StaysResolved
    <3>11. GapsOK(p)'
      BY <2>2 DEF GapsOK
    <3>12. ConceptOK(p)'
      <4>1. Lock("X", Row(i)) \in tx'[p].locks
        BY <1>5, <3>2, <3>3, LockFacts DEF Taken
      <4>2. /\ label(p)' = label(p) /\ norm(p) = label(p) /\ locale(p) = "en"
            /\ AllIds(p)' = AllIds(p) /\ RowAt(p, i)' = RowAt(p, i)
        BY <1>2, <2>2, <3>2, <3>4, StaysFacts, RowsStay
      <4>3. \E j \in AllIds(p)' : /\ Lock("X", Row(j)) \in tx'[p].locks
                                  /\ RowAt(p, j)'.norm = label(p)'
                                  /\ RowAt(p, j)'.locale = "en"
        BY <4>1, <4>2, <2>0
      <4> QED BY <2>2, <4>3 DEF ConceptOK, Attaching
    <3> QED BY <3>5, <3>6, <3>7, <3>8, <3>9, <3>10, <3>11, <3>12 DEF Own
  <2>3. CASE /\ p \in Writer /\ at[p].recovering /\ pc'[p] = "lockConcept" /\ RowKept(p, i)
             /\ StaysOn(p)
             /\ {"recovering", "attempt", "save", "concept"} \subseteq DOMAIN at'[p]
             /\ at'[p].recovering = at[p].recovering
             /\ at'[p].concept = RowAt(p, i).concept
    <3>1. /\ EnglishStays(p) /\ IsFiniteSet(DOMAIN tx'[p].terms)
          /\ TxFields \subseteq DOMAIN tx'[p]
          /\ tx'[p].snap = tx[p].snap /\ tx'[p].keys = tx[p].keys
          /\ DOMAIN tx'[p].terms = DOMAIN tx[p].terms \cup {i}
          /\ tx'[p].terms[i].norm = RowAt(p, i).norm
          /\ \A j \in DOMAIN tx[p].terms \ {i} : tx'[p].terms[j] = tx[p].terms[j]
          /\ RowAt(p, i).concept \in keys \cup KeysBefore(p)
          /\ KeysBefore(p) \subseteq KeysBefore(p)' =>
                LocksOK(p)' /\ ConceptsOK(p)' /\ CountsOK(p)'
      BY <1>1, <1>2, <2>3, KeptFacts DEF Before
    <3>2. StaysAt(p) /\ p \notin Localizer
      BY <2>3, BeforeFacts DEF StaysAt
    <3>3. PlaceOK(p)' /\ BaseOK(p)' /\ Base(p)' = Base(p)
      BY <1>1, <1>2, <2>3, <3>1, <3>2, StaysPlace, BeforeFacts DEF PlaceOK, Place, Naming
    <3>4. SaveOK(p)' /\ KeysBefore(p) = tx[p].keys /\ KeysBefore(p)' = tx[p].keys
      BY <1>1, <2>3, <3>1 DEF SaveOK, KeysBefore, Nested
    <3>5. SeenOK(p)'
      BY <1>1, <1>w, <2>0, <2>3, <3>1, <3>2, <3>3, <3>4, StaysSeen DEF Naming
    <3>6. ResolvedOK(p)'
      BY <1>1, <1>2, <3>1, <3>2, <3>4, StaysResolved
    <3>7. GapsOK(p)'
      BY <2>3 DEF GapsOK
    <3>8. ConceptOK(p)'
      <4>1. at'[p].concept \in English(p)'
        BY <1>w, <2>0, <2>3, <3>1 DEF English, EnglishStays
      <4>2. at'[p].concept \in Keys(p)'
        BY <1>2, <2>3, <3>1, <3>4 DEF Keys, Stored
      <4> QED BY <2>3, <4>1, <4>2 DEF ConceptOK, Attaching
    <3> QED BY <3>1, <3>3, <3>4, <3>5, <3>6, <3>7, <3>8 DEF Own
  <2> QED BY <1>5, <2>1, <2>2, <2>3 DEF OtherOwner
<1> QED BY <1>2, <1>3, <1>4, <1>5

(* The locking read of a concept's row.                                    *)
LEMMA OwnLockPreferred ==
    ASSUME NEW p, Before(p), StoredClearOK(p), LockPreferred(p)
    PROVE  Own(p)'
<1>1. /\ pc[p] = "preferred" /\ Own(p) /\ PlaceOK(p) /\ p \in Process
      /\ at[p].concept \in Keys(p)
      /\ p \in Writer /\ ~at[p].recovering =>
           at[p].concept \in Base(p).keys \cup tx[p].keys
  BY BeforeFacts, SeenByView DEF LockPreferred, Before, Attaching, Own, ConceptOK
<1>g. /\ Lock("gap", SurfaceGap(locale(p), norm(p))) \in tx[p].locks
      /\ \A i \in DOMAIN tx[p].terms :
           ~(tx[p].terms[i].locale = locale(p) /\ tx[p].terms[i].norm = norm(p))
  BY <1>1 DEF Own, GapsOK
<1>2. /\ Stored
      /\ \/ /\ ConceptRows(p, at[p].concept, locale(p)) = {}
            /\ OnlyLocks(p, {Lock("gap", PreferredGap(at[p].concept, locale(p)))})
            /\ pc'[p] = "insert" /\ KeepsLocal(p)
         \/ \E i \in ConceptRows(p, at[p].concept, locale(p)) :
              /\ RowKept(p, i) /\ pc'[p] = "rename"
              /\ DOMAIN at'[p] = DOMAIN at[p] \cup {"id"} /\ at'[p].id = i
              /\ \A x \in DOMAIN at[p] \ {"id"} : at'[p][x] = at[p][x]
  BY <1>1, LockPreferredFacts, BeforeFacts
<1>3. CASE /\ ConceptRows(p, at[p].concept, locale(p)) = {}
           /\ OnlyLocks(p, {Lock("gap", PreferredGap(at[p].concept, locale(p)))})
           /\ pc'[p] = "insert" /\ KeepsLocal(p)
  <2>1. /\ TxFields \subseteq DOMAIN tx'[p]
        /\ tx'[p].snap = tx[p].snap /\ tx'[p].keys = tx[p].keys
        /\ tx'[p].terms = tx[p].terms /\ tx'[p].edges = tx[p].edges
        /\ tx'[p].evidence = tx[p].evidence /\ tx[p].locks \subseteq tx'[p].locks
        /\ Lock("gap", PreferredGap(at[p].concept, locale(p))) \in tx'[p].locks
    BY <1>3 DEF TxIs, OnlyLocks
  <2>2. StaysAt(p)
    BY <1>1, <1>3, BeforeFacts DEF StaysAt, StaysOn, KeepsLocal, PlaceOK, Naming
  <2>3. PlaceOK(p)' /\ BaseOK(p)' /\ Base(p)' = Base(p)
    BY <1>1, <1>2, <1>3, <2>1, <2>2, StaysPlace, BeforeFacts
       DEF PlaceOK, Place, Naming, KeepsLocal
  <2>4. SaveOK(p)' /\ KeysBefore(p) \subseteq KeysBefore(p)'
    BY <1>1, <1>3, <2>1, KeysGrow DEF SaveOK, Nested
  <2>5. LocksOK(p)' /\ ConceptsOK(p)' /\ CountsOK(p)'
    BY <1>1, <1>2, <2>1, <2>4, RowsOwned
  <2>6. SeenOK(p)'
    BY <1>1, <2>1, <2>2, <2>3, <2>4, StaysSeen DEF Naming
  <2>7. ResolvedOK(p)'
    BY <1>1, <1>2, <2>1, <2>2, <2>4, EnglishSame, StaysResolved
  <2>8. norm(p)' = norm(p) /\ locale(p)' = locale(p) /\ at'[p] = at[p]
    BY <1>3, <2>2, StaysFacts DEF KeepsLocal
  <2>9. GapsOK(p)'
    <3>1. \A i \in DOMAIN tx[p].terms :
            ~(tx[p].terms[i].locale = locale(p) /\ tx[p].terms[i].concept = at[p].concept)
      BY <1>3 DEF ConceptRows, AllIds, RowAt
    <3> QED BY <1>g, <1>3, <2>1, <2>8, <3>1 DEF GapsOK
  <2>10. ConceptOK(p)'
    BY <1>1, <1>2, <1>3, <2>1, <2>3 DEF ConceptOK, Attaching, KeepsLocal, Keys, Stored
  <2> QED BY <2>3, <2>4, <2>5, <2>6, <2>7, <2>9, <2>10 DEF Own
<1>4. ASSUME NEW i \in ConceptRows(p, at[p].concept, locale(p)), RowKept(p, i),
             pc'[p] = "rename", DOMAIN at'[p] = DOMAIN at[p] \cup {"id"}, at'[p].id = i,
             \A x \in DOMAIN at[p] \ {"id"} : at'[p][x] = at[p][x]
      PROVE  Own(p)'
  <2>1. /\ EnglishStays(p) /\ IsFiniteSet(DOMAIN tx'[p].terms)
        /\ TxFields \subseteq DOMAIN tx'[p]
        /\ tx'[p].snap = tx[p].snap /\ tx'[p].keys = tx[p].keys
        /\ DOMAIN tx'[p].terms = DOMAIN tx[p].terms \cup {i}
        /\ tx'[p].terms[i].concept = RowAt(p, i).concept
        /\ tx'[p].terms[i].locale = RowAt(p, i).locale
        /\ tx'[p].terms[i].norm = RowAt(p, i).norm
        /\ \A j \in DOMAIN tx[p].terms \ {i} : tx'[p].terms[j] = tx[p].terms[j]
    BY <1>1, <1>2, <1>4, KeptFacts DEF Before
  <2>2. KeysBefore(p) \subseteq KeysBefore(p)' =>
                LocksOK(p)' /\ ConceptsOK(p)' /\ CountsOK(p)'
    BY <1>1, <1>2, <1>4, KeptFacts DEF Before
  <2>3. i \in AllIds(p) /\ RowAt(p, i).locale = locale(p) /\ RowAt(p, i).concept = at[p].concept
    BY <1>4 DEF ConceptRows
  <2>4. /\ p \in Writer => /\ {"graph", "i", "resolved"} \subseteq DOMAIN at[p]
                           /\ {"recovering", "attempt", "save", "concept"} \subseteq DOMAIN at[p]
                           /\ at[p].recovering \in BOOLEAN
        /\ p \in Localizer => {"concept", "word", "grade"} \subseteq DOMAIN at[p]
    BY <1>1, BeforeFacts DEF PlaceOK, Naming
  <2>5. StaysAt(p) /\ at'[p].concept = at[p].concept
    BY <1>4, <2>4, BeforeFacts DEF StaysAt, StaysOn
  <2>6. PlaceOK(p)' /\ BaseOK(p)' /\ Base(p)' = Base(p)
    <3>1. p \in Writer => at'[p].recovering = at[p].recovering
      BY <1>4, <2>4
    <3> QED BY <1>1, <1>2, <1>4, <2>1, <2>4, <2>5, <3>1, StaysPlace, BeforeFacts
            DEF Place, Naming
  <2>7. SaveOK(p)' /\ KeysBefore(p) \subseteq KeysBefore(p)'
    BY <1>1, <1>4, <2>1, KeysGrow DEF SaveOK, Nested
  <2>8. SeenOK(p)'
    BY <1>1, <1>4, <2>1, <2>5, <2>6, <2>7, StaysSeen DEF Naming
  <2>9. ResolvedOK(p)'
    BY <1>1, <1>2, <2>1, <2>5, <2>7, StaysResolved
  <2>10. norm(p)' = norm(p) /\ locale(p)' = locale(p)
    BY <2>5, StaysFacts
  <2>11. GapsOK(p)'
    <3>1. Lock("gap", SurfaceGap(locale(p), norm(p))) \in tx'[p].locks
      <4>1. tx'[p].locks = tx[p].locks \cup Taken(p)
        BY <1>4, WrittenFacts DEF RowKept
      <4> QED BY <1>g, <4>1
    <3>2. ASSUME NEW j \in DOMAIN tx'[p].terms, tx'[p].terms[j].locale = locale(p),
                 tx'[p].terms[j].norm = norm(p)
          PROVE  FALSE
      <4>1. tx'[p].terms[j].norm = RowAt(p, j).norm /\ tx'[p].terms[j].locale = RowAt(p, j).locale
            /\ j \in AllIds(p)
        BY <2>1, <2>3 DEF AllIds, RowAt
      <4>2. CASE j \in DOMAIN tx[p].terms
        BY <1>g, <3>2, <4>1, <4>2 DEF RowAt
      <4>3. CASE j = i /\ i \notin DOMAIN tx[p].terms
        <5>1. terms[i].locale = locale(p) /\ terms[i].norm = norm(p) /\ i \in DOMAIN terms
          BY <2>3, <3>2, <4>1, <4>3 DEF AllIds, RowAt
        <5> QED BY <1>g, <4>3, <5>1 DEF StoredClearOK
      <4> QED BY <2>1, <4>2, <4>3
    <3> QED BY <1>4, <2>10, <3>1, <3>2 DEF GapsOK
  <2>12. ConceptOK(p)'
    <3>1. Keys(p)' = Keys(p)
      BY <1>2, <2>1 DEF Keys, Stored
    <3>2. p \in Writer => at'[p].recovering = at[p].recovering
      BY <1>4, <2>4
    <3>3. i \in DOMAIN tx'[p].terms /\ tx'[p].terms[i].concept = at'[p].concept
          /\ tx'[p].terms[i].locale = locale(p)' /\ at'[p].id = i
      BY <1>4, <2>1, <2>3, <2>5, <2>10
    <3> QED BY <1>1, <1>4, <2>1, <2>5, <2>6, <3>1, <3>2, <3>3 DEF ConceptOK, Attaching
  <2> QED BY <2>2, <2>6, <2>7, <2>8, <2>9, <2>11, <2>12 DEF Own
<1> QED BY <1>2, <1>3, <1>4

(* The row that gives way.                                                 *)
LEMMA OwnRename ==
    ASSUME NEW p, Before(p), StoredClearOK(p), Rename(p)
    PROVE  Own(p)' /\ p \in Process
<1>1. /\ pc[p] = "rename" /\ Own(p) /\ PlaceOK(p) /\ p \in Process
      /\ p \in Writer /\ ~at[p].recovering => at[p].concept \in View(p).keys
  BY BeforeFacts, SeenByView DEF Rename, Before, Attaching
<1>2. PICK i : i = at[p].id
  OBVIOUS
<1>3. /\ i \in DOMAIN tx[p].terms /\ i \in AllIds(p) /\ RowAt(p, i) = tx[p].terms[i]
      /\ tx[p].terms[i].concept = at[p].concept
      /\ tx[p].terms[i].locale = locale(p)
      /\ FoundRows(p, locale(p), norm(p)) = {}
  BY <1>1, <1>2, NothingFound DEF Own, ConceptOK, AllIds, RowAt
<1>4. /\ Stored /\ RowWritten(p, i, at[p].concept, locale(p), norm(p)) /\ Attaches(p)
  BY <1>1, <1>2, <1>3, RenameFacts, BeforeFacts DEF Before
<1>5. /\ TxFields \subseteq DOMAIN tx'[p]
      /\ tx'[p].snap = tx[p].snap /\ tx'[p].keys = tx[p].keys
      /\ tx'[p].edges = tx[p].edges /\ tx'[p].evidence = tx[p].evidence
      /\ tx'[p].locks = tx[p].locks \cup Taken(p)
      /\ DOMAIN tx'[p].terms = DOMAIN tx[p].terms \cup {i}
      /\ tx'[p].terms[i].concept = at[p].concept /\ tx'[p].terms[i].locale = locale(p)
      /\ tx'[p].terms[i].norm = norm(p)
      /\ \A j \in DOMAIN tx[p].terms \ {i} : tx'[p].terms[j] = tx[p].terms[j]
  BY <1>4, WrittenFacts
<1>6. IsFiniteSet(DOMAIN tx'[p].terms)
  BY <1>1, <1>4, FinitePlus DEF PlaceOK
<1>7. EnglishStays(p)
  BY <1>3, <1>4, EnglishKept
<1>8. p \in Writer => at[p].concept \in English(p)'
  BY <1>4, WriterPlace, EnglishHas
<1>9. p \in Writer => \A j \in DOMAIN tx'[p].terms :
             \/ tx'[p].terms[j].norm = label(p)
             \/ /\ j \in DOMAIN tx[p].terms /\ tx'[p].terms[j] = tx[p].terms[j]
                /\ ~(pc[p] = "rename" /\ j = at[p].id)
  BY <1>2, <1>5, WriterPlace
<1>10. ASSUME KeysBefore(p) \subseteq KeysBefore(p)'
       PROVE  LocksOK(p)' /\ ConceptsOK(p)' /\ CountsOK(p)'
  <2>1. keys' = keys /\ edges' = edges
    BY <1>4 DEF Stored
  <2>2. CountsOK(p)'
    BY <1>1, <1>5, <2>1 DEF Own, CountsOK, Rows
  <2>3. LocksOK(p)'
    BY <1>1, <1>3, <1>5 DEF Own, LocksOK
  <2>4. ConceptsOK(p)'
    <3> SUFFICES ASSUME NEW j \in DOMAIN tx'[p].terms
                 PROVE  tx'[p].terms[j].concept \in keys \cup KeysBefore(p)'
      BY <2>1 DEF ConceptsOK
    <3>1. j \in DOMAIN tx[p].terms /\ tx'[p].terms[j].concept = tx[p].terms[j].concept
      BY <1>3, <1>5
    <3> QED BY <1>1, <1>10, <3>1 DEF Own, ConceptsOK
  <2> QED BY <2>2, <2>3, <2>4
<1> QED BY <1>1, <1>4, <1>5, <1>6, <1>7, <1>8, <1>9, <1>10, AttachesOK

(* The new row.                                                            *)
LEMMA OwnInsert ==
    ASSUME NEW p, Before(p), StoredClearOK(p), NewId \notin AllIds(p), Insert(p)
    PROVE  Own(p)'
<1>1. /\ pc[p] = "insert" /\ Own(p) /\ PlaceOK(p) /\ p \in Process
      /\ p \in Writer /\ ~at[p].recovering => at[p].concept \in View(p).keys
      /\ at[p].concept \in Keys(p)
  BY BeforeFacts, SeenByView DEF Insert, Before, Attaching, Own, ConceptOK
<1>2. PICK i : i = NewId
  OBVIOUS
<1>3. FoundRows(p, locale(p), norm(p)) = {}
  BY <1>1, NothingFound
<1>4. /\ Stored /\ RowWritten(p, i, at[p].concept, locale(p), norm(p)) /\ Attaches(p)
  BY <1>1, <1>2, <1>3, InsertFacts, BeforeFacts DEF Before
<1>5. /\ TxFields \subseteq DOMAIN tx'[p]
      /\ tx'[p].snap = tx[p].snap /\ tx'[p].keys = tx[p].keys
      /\ DOMAIN tx'[p].terms = DOMAIN tx[p].terms \cup {i}
      /\ tx'[p].terms[i].norm = norm(p)
      /\ \A j \in DOMAIN tx[p].terms \ {i} : tx'[p].terms[j] = tx[p].terms[j]
  BY <1>4, WrittenFacts
<1>6. IsFiniteSet(DOMAIN tx'[p].terms)
  BY <1>1, <1>4, FinitePlus DEF PlaceOK
<1>7. EnglishStays(p)
  BY <1>2, <1>4, EnglishAdded
<1>8. p \in Writer => at[p].concept \in English(p)'
  BY <1>4, WriterPlace, EnglishHas
<1>9. p \in Writer => \A j \in DOMAIN tx'[p].terms :
             \/ tx'[p].terms[j].norm = label(p)
             \/ j \in DOMAIN tx[p].terms /\ tx'[p].terms[j] = tx[p].terms[j]
  BY <1>5, WriterPlace
<1>10. Lock("X", Row(i)) \in Wants(p)
  BY <1>1, <1>2, WantsFacts
<1>11. pc'[p] \notin {"enrich", "create", "lookUp", "preferred"}
  BY <1>4 DEF Attaches, GoesOn
<1>12. KeysBefore(p) = tx[p].keys /\ KeysBefore(p)' = tx[p].keys /\ keys' = keys
  BY <1>1, <1>4, <1>5, <1>11 DEF KeysBefore, Nested, Stored
<1>13. LocksOK(p)' /\ ConceptsOK(p)' /\ CountsOK(p)'
  BY <1>1, <1>4, <1>10, <1>12, RowOwned DEF Keys
<1> QED BY <1>1, <1>4, <1>5, <1>6, <1>7, <1>8, <1>9, <1>13, AttachesOK

(* The recovery: the row.                                                  *)
LEMMA OwnRecover ==
    ASSUME NEW w \in Writer, Before(w), Recover(w)
    PROVE  Own(w)'
<1>1. /\ pc[w] = "recover" /\ Own(w) /\ PlaceOK(w) /\ w \in Process /\ w \notin Localizer
      /\ {"recovering", "attempt", "save", "concept"} \subseteq DOMAIN at[w]
      /\ {"graph", "i", "resolved"} \subseteq DOMAIN at[w]
      /\ at[w].recovering \in BOOLEAN
  BY BeforeFacts DEF Recover, Before, PlaceOK, Naming
<1>2. /\ Stored
      /\ \/ /\ FoundRows(w, "en", label(w)) = {}
            /\ OnlyLocks(w, {Lock("gap", SurfaceGap("en", label(w)))})
            /\ pc'[w] = "recoverKey" /\ KeepsLocal(w)
         \/ \E i \in FoundRows(w, "en", label(w)) :
              /\ RowKept(w, i) /\ pc'[w] = "lockConcept"
              /\ TakesConcept(w, RowAt(w, i).concept)
              /\ at'[w].recovering = at[w].recovering
  BY RecoverFacts, BeforeFacts
<1>3. CASE /\ FoundRows(w, "en", label(w)) = {}
           /\ OnlyLocks(w, {Lock("gap", SurfaceGap("en", label(w)))})
           /\ pc'[w] = "recoverKey" /\ KeepsLocal(w)
  <2>1. /\ TxFields \subseteq DOMAIN tx'[w]
        /\ tx'[w].snap = tx[w].snap /\ tx'[w].keys = tx[w].keys
        /\ tx'[w].terms = tx[w].terms /\ tx'[w].edges = tx[w].edges
        /\ tx'[w].evidence = tx[w].evidence /\ tx[w].locks \subseteq tx'[w].locks
    BY <1>3 DEF TxIs, OnlyLocks
  <2>2. StaysAt(w)
    BY <1>1, <1>3 DEF StaysAt, StaysOn, KeepsLocal
  <2>3. PlaceOK(w)' /\ BaseOK(w)' /\ Base(w)' = Base(w)
    BY <1>1, <1>2, <1>3, <2>1, <2>2, StaysPlace DEF PlaceOK, Place, Naming, KeepsLocal
  <2>4. SaveOK(w)' /\ KeysBefore(w) \subseteq KeysBefore(w)'
    BY <1>1, <1>3, <2>1, KeysGrow DEF SaveOK, Nested
  <2>5. LocksOK(w)' /\ ConceptsOK(w)' /\ CountsOK(w)'
    BY <1>1, <1>2, <2>1, <2>4, RowsOwned
  <2>6. SeenOK(w)'
    BY <1>1, <2>1, <2>2, <2>3, <2>4, StaysSeen DEF Naming
  <2>7. ResolvedOK(w)'
    BY <1>1, <1>2, <2>1, <2>2, <2>4, EnglishSame, StaysResolved
  <2>8. GapsOK(w)'
    BY <1>3 DEF GapsOK
  <2>9. ConceptOK(w)'
    <3>1. label(w) \in Keys(w)
      BY <1>1, <1>3 DEF Own, ConceptOK, FoundRows
    <3>2. label(w)' = label(w) /\ Keys(w)' = Keys(w)
      BY <1>2, <2>1, <2>2, StaysFacts DEF Keys, Stored
    <3> QED BY <1>3, <3>1, <3>2 DEF ConceptOK, Attaching
  <2> QED BY <2>3, <2>4, <2>5, <2>6, <2>7, <2>8, <2>9 DEF Own
<1>4. ASSUME NEW i \in FoundRows(w, "en", label(w)), RowKept(w, i), pc'[w] = "lockConcept",
             TakesConcept(w, RowAt(w, i).concept), at'[w].recovering = at[w].recovering
      PROVE  Own(w)'
  <2>1. /\ EnglishStays(w) /\ IsFiniteSet(DOMAIN tx'[w].terms)
        /\ TxFields \subseteq DOMAIN tx'[w]
        /\ tx'[w].snap = tx[w].snap /\ tx'[w].keys = tx[w].keys
        /\ DOMAIN tx'[w].terms = DOMAIN tx[w].terms \cup {i}
        /\ tx'[w].terms[i].norm = RowAt(w, i).norm
        /\ \A j \in DOMAIN tx[w].terms \ {i} : tx'[w].terms[j] = tx[w].terms[j]
        /\ RowAt(w, i).concept \in keys \cup KeysBefore(w)
        /\ KeysBefore(w) \subseteq KeysBefore(w)' =>
              LocksOK(w)' /\ ConceptsOK(w)' /\ CountsOK(w)'
    BY <1>1, <1>2, <1>4, KeptFacts DEF Before
  <2>2. i \in AllIds(w) /\ RowAt(w, i).locale = "en" /\ RowAt(w, i).norm = label(w)
    BY <1>4 DEF FoundRows
  <2>3. StaysAt(w) /\ at'[w].concept = RowAt(w, i).concept
    BY <1>1, <1>4 DEF StaysAt, TakesConcept
  <2>4. at'[w].recovering \in BOOLEAN
    BY <1>1, <1>4
  <2>5. PlaceOK(w)' /\ BaseOK(w)' /\ Base(w)' = Base(w)
    BY <1>1, <1>2, <1>4, <2>1, <2>3, <2>4, StaysPlace DEF Place, Naming
  <2>6. SaveOK(w)' /\ KeysBefore(w) = tx[w].keys /\ KeysBefore(w)' = tx[w].keys
    BY <1>1, <1>4, <2>1 DEF SaveOK, KeysBefore, Nested
  <2>7. SeenOK(w)'
    BY <1>1, <1>4, <2>1, <2>2, <2>3, <2>5, <2>6, StaysSeen DEF Naming
  <2>8. ResolvedOK(w)'
    BY <1>1, <1>2, <2>1, <2>3, <2>6, StaysResolved
  <2>9. GapsOK(w)'
    BY <1>4 DEF GapsOK
  <2>10. ConceptOK(w)'
    <3>1. at'[w].concept \in English(w)'
      BY <2>1, <2>2, <2>3 DEF English, EnglishStays
    <3>2. at'[w].concept \in Keys(w)'
      BY <1>2, <2>1, <2>3, <2>6 DEF Keys, Stored
    <3> QED BY <1>4, <3>1, <3>2 DEF ConceptOK, Attaching
  <2> QED BY <2>1, <2>5, <2>6, <2>7, <2>8, <2>9, <2>10 DEF Own
<1> QED BY <1>2, <1>3, <1>4

(* And the concept.                                                        *)
LEMMA OwnRecoverKey ==
    ASSUME NEW w \in Writer, Before(w), RecoverKey(w)
    PROVE  Own(w)'
<1>1. /\ pc[w] = "recoverKey" /\ Own(w) /\ PlaceOK(w) /\ w \in Process /\ w \notin Localizer
      /\ label(w) \in Keys(w)
  BY BeforeFacts DEF RecoverKey, Before, Own, ConceptOK
<1>2. /\ Stored /\ OnlyLocks(w, {}) /\ pc'[w] = "lookUp"
      /\ TakesConcept(w, label(w)) /\ at'[w].recovering = TRUE
  BY <1>1, RecoverKeyFacts, BeforeFacts
<1>3. /\ TxFields \subseteq DOMAIN tx'[w]
      /\ tx'[w].snap = tx[w].snap /\ tx'[w].keys = tx[w].keys
      /\ tx'[w].terms = tx[w].terms /\ tx'[w].edges = tx[w].edges
      /\ tx'[w].evidence = tx[w].evidence /\ tx[w].locks \subseteq tx'[w].locks
  BY <1>2 DEF TxIs, OnlyLocks
<1>4. StaysAt(w)
  BY <1>1, <1>2 DEF StaysAt, TakesConcept
<1>5. PlaceOK(w)' /\ BaseOK(w)' /\ Base(w)' = Base(w)
  BY <1>1, <1>2, <1>3, <1>4, StaysPlace DEF PlaceOK, Place, Naming
<1>6. SaveOK(w)' /\ KeysBefore(w) \subseteq KeysBefore(w)'
  BY <1>1, <1>2, <1>3, KeysGrow DEF SaveOK, Nested
<1>7. LocksOK(w)' /\ ConceptsOK(w)' /\ CountsOK(w)'
  BY <1>1, <1>2, <1>3, <1>6, RowsOwned
<1>8. SeenOK(w)'
  BY <1>1, <1>3, <1>4, <1>5, <1>6, StaysSeen DEF Naming
<1>9. ResolvedOK(w)'
  BY <1>1, <1>2, <1>3, <1>4, <1>6, EnglishSame, StaysResolved
<1>10. GapsOK(w)'
  BY <1>2 DEF GapsOK
<1>11. ConceptOK(w)'
  <2>1. at'[w].concept \in Keys(w)'
    BY <1>1, <1>2, <1>3 DEF TakesConcept, Keys, Stored
  <2> QED BY <1>2, <2>1 DEF ConceptOK, Attaching
<1> QED BY <1>5, <1>6, <1>7, <1>8, <1>9, <1>10, <1>11 DEF Own

(* Another's concept is taken.                                             *)
LEMMA OwnLockConcept ==
    ASSUME NEW w \in Writer, Before(w), LockConcept(w)
    PROVE  Own(w)'
<1>1. /\ pc[w] = "lockConcept" /\ Own(w) /\ PlaceOK(w) /\ w \in Process
      /\ at[w].concept \in Keys(w) /\ at[w].concept \in English(w)
  BY BeforeFacts DEF LockConcept, Before, Own, ConceptOK
<1>2. /\ Stored /\ OnlyLocks(w, {}) /\ GoesOn(w, at[w].concept)
  BY <1>1, LockConceptFacts, BeforeFacts
<1>3. /\ TxFields \subseteq DOMAIN tx'[w]
      /\ tx'[w].snap = tx[w].snap /\ tx'[w].keys = tx[w].keys
      /\ tx'[w].terms = tx[w].terms /\ tx'[w].edges = tx[w].edges
      /\ tx'[w].evidence = tx[w].evidence /\ tx[w].locks \subseteq tx'[w].locks
  BY <1>2 DEF TxIs, OnlyLocks
<1>4. EnglishStays(w) /\ IsFiniteSet(DOMAIN tx'[w].terms) /\ at[w].concept \in English(w)'
  BY <1>1, <1>2, <1>3, EnglishSame DEF PlaceOK, EnglishStays
<1>5. /\ PlaceOK(w)' /\ BaseOK(w)' /\ SaveOK(w)' /\ SeenOK(w)' /\ ResolvedOK(w)'
      /\ ConceptOK(w)' /\ GapsOK(w)' /\ KeysBefore(w) \subseteq KeysBefore(w)'
  BY <1>1, <1>2, <1>3, <1>4, GoesOnOK DEF Naming
<1>6. LocksOK(w)' /\ ConceptsOK(w)' /\ CountsOK(w)'
  BY <1>1, <1>2, <1>3, <1>5, RowsOwned
<1> QED BY <1>5, <1>6 DEF Own

(* Labels are done, edges are counted.                                     *)
LEMMA EdgesOK ==
    ASSUME NEW w \in Writer, Before(w), pc[w] \in {"edge", "bump"}, Stored,
           pc'[w] \in {"edge", "bump", "commit"},
           {"graph", "i", "resolved"} \subseteq DOMAIN at'[w],
           at'[w].graph = at[w].graph, at'[w].resolved = at[w].resolved,
           TxFields \subseteq DOMAIN tx'[w], tx'[w].snap = tx[w].snap,
           tx'[w].keys = tx[w].keys, tx'[w].terms = tx[w].terms,
           tx[w].locks \subseteq tx'[w].locks
    PROVE  /\ PlaceOK(w)' /\ BaseOK(w)' /\ SaveOK(w)' /\ ConceptsOK(w)' /\ SeenOK(w)'
           /\ ResolvedOK(w)' /\ GapsOK(w)' /\ KeysBefore(w) \subseteq KeysBefore(w)'
<1>1. Own(w) /\ PlaceOK(w) /\ w \in Process /\ w \notin Localizer /\ keys' = keys
  BY BeforeFacts DEF Before, Stored
<1>2. PlaceOK(w)'
  BY <1>1 DEF PlaceOK, Place, Naming
<1>3. BaseOK(w)'
  BY <1>1, BaseStays DEF Own
<1>4. SaveOK(w)' /\ KeysBefore(w) = tx[w].keys /\ KeysBefore(w)' = tx[w].keys
  BY DEF SaveOK, KeysBefore, Nested
<1>5. ConceptsOK(w)' /\ SeenOK(w)' /\ GapsOK(w)'
  BY <1>1, <1>4 DEF Own, ConceptsOK, SeenOK, GapsOK, Naming
<1>6. EnglishStays(w)
  BY EnglishSame
<1>7. ResolvedOK(w)'
  BY <1>1, <1>4, <1>6 DEF Own, ResolvedOK, EnglishStays
<1> QED BY <1>2, <1>3, <1>4, <1>5, <1>7

(* What a process keeps that writes an edge.                               *)
LEMMA EdgeOwned ==
    ASSUME NEW w \in Writer, Before(w), pc[w] \in {"edge", "bump"}, Stored, NEW e, NEW n,
           EdgeWritten(w, e, n), NextEdgeIs(w),
           Lock("X", Edge(e)) \in Wants(w),
           n = (IF e \in DOMAIN tx[w].edges THEN tx[w].edges[e] ELSE Rows(edges, e)) + 1
    PROVE  Own(w)'
<1>1. /\ TxFields \subseteq DOMAIN tx'[w]
      /\ tx'[w].snap = tx[w].snap /\ tx'[w].keys = tx[w].keys
      /\ tx'[w].terms = tx[w].terms
      /\ tx'[w].edges = Put(tx[w].edges, e, n)
      /\ tx'[w].evidence = Put(tx[w].evidence, e, Rows(tx[w].evidence, e) + 1)
      /\ tx'[w].locks = tx[w].locks \cup Taken(w)
  BY DEF EdgeWritten, TxIs
<1>2. /\ PlaceOK(w)' /\ BaseOK(w)' /\ SaveOK(w)' /\ ConceptsOK(w)' /\ SeenOK(w)'
      /\ ResolvedOK(w)' /\ GapsOK(w)'
  BY <1>1, EdgesOK DEF NextEdgeIs
<1>3. ConceptOK(w)'
  BY DEF NextEdgeIs, ConceptOK, Attaching
<1>4. /\ DOMAIN tx'[w].edges = DOMAIN tx[w].edges \cup {e} /\ tx'[w].edges[e] = n
      /\ \A d \in DOMAIN tx[w].edges \ {e} : tx'[w].edges[d] = tx[w].edges[d]
      /\ DOMAIN tx'[w].evidence = DOMAIN tx[w].evidence \cup {e}
      /\ tx'[w].evidence[e] = Rows(tx[w].evidence, e) + 1
      /\ \A d \in DOMAIN tx[w].evidence \ {e} : tx'[w].evidence[d] = tx[w].evidence[d]
  BY <1>1 DEF Put, Updated, Only
<1>5. LocksOK(w)'
  <2>1. Lock("X", Edge(e)) \in Taken(w)
    BY LockFacts DEF Taken
  <2> QED BY <1>1, <1>4, <2>1 DEF LocksOK, Before, Own
<1>6. CountsOK(w)'
  <2>1. /\ DOMAIN tx[w].edges = DOMAIN tx[w].evidence
        /\ \A d \in DOMAIN tx[w].edges :
             /\ tx[w].evidence[d] \in Nat
             /\ tx[w].edges[d] = Rows(edges, d) + tx[w].evidence[d]
        /\ edges' = edges
    BY DEF Before, Own, CountsOK, Stored
  <2>2. Rows(edges, e) \in Nat
    BY DEF Before, TablesOK, Rows
  <2>3. tx'[w].evidence[e] \in Nat /\ tx'[w].edges[e] = Rows(edges, e) + tx'[w].evidence[e]
    <3>1. CASE e \in DOMAIN tx[w].edges
      BY <1>4, <2>1, <2>2, <3>1 DEF Rows
    <3>2. CASE e \notin DOMAIN tx[w].edges
      <4>1. Rows(tx[w].evidence, e) = 0
        BY <2>1, <3>2 DEF Rows
      <4> QED BY <1>4, <2>2, <3>2, <4>1
    <3> QED BY <3>1, <3>2
  <2>4. \A d \in DOMAIN tx'[w].edges :
             /\ tx'[w].evidence[d] \in Nat
             /\ tx'[w].edges[d] = Rows(edges, d) + tx'[w].evidence[d]
    BY <1>4, <2>1, <2>3
  <2> QED BY <1>4, <2>1, <2>4 DEF CountsOK, Rows
<1> QED BY <1>2, <1>3, <1>5, <1>6 DEF Own


(* A new edge.                                                             *)
LEMMA OwnInsertEdge ==
    ASSUME NEW w \in Writer, Before(w), AllOwn, InsertEdge(w)
    PROVE  Own(w)'
<1>1. Own(w) /\ PlaceOK(w) /\ w \in Process /\ w \notin Localizer
  BY BeforeFacts DEF Before
<1>2. /\ pc[w] = "edge" /\ Stored /\ Granted(w)
      /\ \/ /\ edgeOf(w) \in DOMAIN edges \cup DOMAIN tx[w].edges
            /\ OnlyLocks(w, {}) /\ pc'[w] = "bump" /\ KeepsLocal(w)
         \/ /\ edgeOf(w) \notin DOMAIN edges \cup DOMAIN tx[w].edges
            /\ EdgeWritten(w, edgeOf(w), 1) /\ NextEdgeIs(w)
  BY InsertEdgeFacts, BeforeFacts
<1>3. CASE /\ edgeOf(w) \in DOMAIN edges \cup DOMAIN tx[w].edges
           /\ OnlyLocks(w, {}) /\ pc'[w] = "bump" /\ KeepsLocal(w)
  <2>1. /\ TxFields \subseteq DOMAIN tx'[w]
        /\ tx'[w].snap = tx[w].snap /\ tx'[w].keys = tx[w].keys
        /\ tx'[w].terms = tx[w].terms /\ tx'[w].edges = tx[w].edges
        /\ tx'[w].evidence = tx[w].evidence /\ tx[w].locks \subseteq tx'[w].locks
    BY <1>3 DEF TxIs, OnlyLocks
  <2>2. {"graph", "i", "resolved"} \subseteq DOMAIN at[w] /\ at'[w] = at[w]
    BY <1>1, <1>2, <1>3 DEF PlaceOK, KeepsLocal
  <2>3. /\ PlaceOK(w)' /\ BaseOK(w)' /\ SaveOK(w)' /\ ConceptsOK(w)' /\ SeenOK(w)'
        /\ ResolvedOK(w)' /\ GapsOK(w)' /\ KeysBefore(w) \subseteq KeysBefore(w)'
    BY <1>2, <1>3, <2>1, <2>2, EdgesOK
  <2>4. LocksOK(w)' /\ CountsOK(w)'
    BY <1>1, <1>2, <2>1, <2>3, RowsOwned
  <2>5. edgeOf(w)' = edgeOf(w) /\ edges' = edges
    BY <1>2, <2>2 DEF edgeOf, Stored
  <2>6. ConceptOK(w)'
    BY <1>3, <2>1, <2>5 DEF ConceptOK, Attaching
  <2> QED BY <2>3, <2>4, <2>6 DEF Own
<1>4. CASE /\ edgeOf(w) \notin DOMAIN edges \cup DOMAIN tx[w].edges
           /\ EdgeWritten(w, edgeOf(w), 1) /\ NextEdgeIs(w)
  <2>1. PICK e : e = edgeOf(w)
    OBVIOUS
  <2>2. Wants(w) = {Lock(IF Linked(e) THEN "S" ELSE "X", Edge(e))}
                           \cup {Lock("S", Key(c2)) : c2 \in {e[1], e[2]}}
    BY <1>1, <1>2, <2>1, WantsFacts
  <2>3. ~Linked(e)
    <3> SUFFICES ASSUME NEW q \in Process \ {w}, e \in DOMAIN tx[q].edges, Linked(e)
                 PROVE  FALSE
      BY <1>4, <2>1 DEF Linked
    <3>1. Lock("S", Edge(e)) \in Wants(w)
      BY <2>2
    <3>2. Lock("X", Edge(e)) \in tx[q].locks
      BY DEF AllOwn, Own, LocksOK
    <3> QED BY <1>1, <1>2, <3>1, <3>2, GrantedX
  <2>4. Lock("X", Edge(e)) \in Wants(w)
    BY <2>2, <2>3
  <2>5. 1 = (IF e \in DOMAIN tx[w].edges THEN tx[w].edges[e] ELSE Rows(edges, e)) + 1
    BY <1>4, <2>1 DEF Rows
  <2>6. EdgeWritten(w, e, 1) /\ NextEdgeIs(w)
    BY <1>4, <2>1
  <2> QED BY <1>2, <2>4, <2>5, <2>6, EdgeOwned
<1> QED BY <1>2, <1>3, <1>4

(* One that is counted.                                                    *)
LEMMA OwnCountEdge ==
    ASSUME NEW w \in Writer, Before(w), CountEdge(w)
    PROVE  Own(w)'
<1>1. Own(w) /\ PlaceOK(w) /\ w \in Process /\ pc[w] = "bump"
      /\ edgeOf(w) \in DOMAIN edges \cup DOMAIN tx[w].edges
  BY BeforeFacts DEF Before, CountEdge, Own, ConceptOK
<1>2. PICK e : e = edgeOf(w)
  OBVIOUS
<1>3. /\ Stored /\ EdgeWritten(w, e, EdgeIn(w, e) + 1) /\ NextEdgeIs(w)
  BY <1>1, <1>2, CountEdgeFacts, BeforeFacts
<1>4. Lock("X", Edge(e)) \in Wants(w)
  BY <1>1, <1>2, WantsFacts
<1>5. EdgeIn(w, e) = IF e \in DOMAIN tx[w].edges THEN tx[w].edges[e] ELSE Rows(edges, e)
  BY <1>1, <1>2 DEF EdgeIn, Rows
<1> QED BY <1>1, <1>3, <1>4, <1>5, EdgeOwned

(* A process that ends has nothing to keep.                                *)
LEMMA OwnEnded ==
    ASSUME NEW p \in Process, StoreParameters, TablesOK, Stored, tx'[p] = NoTx, pc'[p] = "idle"
    PROVE  Own(p)'
<1>1. /\ BaseOK(p)' /\ ConceptsOK(p)' /\ SeenOK(p)' /\ LocksOK(p)' /\ CountsOK(p)'
      /\ GapsOK(p)'
  BY FreshFacts
<1>2. PlaceOK(p)'
  BY NoTxFields, FS_EmptySet DEF PlaceOK, Place, Naming
<1>3. SaveOK(p)' /\ ResolvedOK(p)' /\ ConceptOK(p)'
  BY DEF SaveOK, Nested, ResolvedOK, ConceptOK, Attaching
<1> QED BY <1>1, <1>2, <1>3 DEF Own

(* Each row, wherever it is, has one concept and language, and each        *)
(* concept and language one row.                                           *)
LEMMA TagFacts ==
    /\ \A i \in DOMAIN terms : <<i, terms[i].concept, terms[i].locale>> \in AllTags
    /\ \A q \in Process : \A i \in DOMAIN tx[q].terms :
         <<i, tx[q].terms[i].concept, tx[q].terms[i].locale>> \in AllTags
    /\ \A a \in AllTags :
         \/ \E i \in DOMAIN terms : a = <<i, terms[i].concept, terms[i].locale>>
         \/ \E q \in Process : \E i \in DOMAIN tx[q].terms :
              a = <<i, tx[q].terms[i].concept, tx[q].terms[i].locale>>
<1>1. \A i \in DOMAIN terms : <<i, terms[i].concept, terms[i].locale>> \in AllTags
  BY DEF AllTags, Tags
<1>2. \A q \in Process : \A i \in DOMAIN tx[q].terms :
         <<i, tx[q].terms[i].concept, tx[q].terms[i].locale>> \in AllTags
  <2> SUFFICES ASSUME NEW q \in Process, NEW i \in DOMAIN tx[q].terms
               PROVE  <<i, tx[q].terms[i].concept, tx[q].terms[i].locale>> \in AllTags
    OBVIOUS
  <2>1. <<i, tx[q].terms[i].concept, tx[q].terms[i].locale>> \in Tags(tx[q].terms)
    BY DEF Tags
  <2>2. Tags(tx[q].terms) \in {Tags(tx[r].terms) : r \in Process}
    OBVIOUS
  <2> QED BY <2>1, <2>2 DEF AllTags
<1>3. ASSUME NEW a \in AllTags
      PROVE  \/ \E i \in DOMAIN terms : a = <<i, terms[i].concept, terms[i].locale>>
             \/ \E q \in Process : \E i \in DOMAIN tx[q].terms :
                  a = <<i, tx[q].terms[i].concept, tx[q].terms[i].locale>>
  <2>1. CASE a \in Tags(terms)
    BY <2>1 DEF Tags
  <2>2. CASE a \in UNION {Tags(tx[q].terms) : q \in Process}
    <3>1. PICK q \in Process : a \in Tags(tx[q].terms)
      BY <2>2
    <3> QED BY <3>1 DEF Tags
  <2> QED BY <2>1, <2>2 DEF AllTags
<1> QED BY <1>1, <1>2, <1>3

(* What a process sees by locking reads is among the tags.                 *)
LEMMA TagsOfAll ==
    ASSUME NEW p \in Process, NEW i \in AllIds(p)
    PROVE  <<i, RowAt(p, i).concept, RowAt(p, i).locale>> \in AllTags
BY TagFacts DEF AllIds, RowAt

(* Tags after a step: the old ones, and that of a row that was written.    *)
LEMMA TagsAfter ==
    ASSUME NEW p \in Process, OthersTx(p), UNCHANGED terms, NEW a \in AllTags'
    PROVE  \/ a \in AllTags
           \/ \E i \in DOMAIN tx'[p].terms :
                a = <<i, tx'[p].terms[i].concept, tx'[p].terms[i].locale>>
<1>1. CASE a \in Tags(terms')
  <2>1. a \in Tags(terms)
    BY <1>1
  <2> QED BY <2>1 DEF AllTags
<1>2. CASE a \in UNION {Tags(tx'[q].terms) : q \in Process}
  <2>1. PICK q \in Process : a \in Tags(tx'[q].terms)
    BY <1>2
  <2>2. CASE q = p
    BY <2>1, <2>2 DEF Tags
  <2>3. CASE q # p
    <3>1. a \in Tags(tx[q].terms)
      BY <2>1, <2>3 DEF OthersTx
    <3>2. Tags(tx[q].terms) \in {Tags(tx[r].terms) : r \in Process}
      OBVIOUS
    <3> QED BY <3>1, <3>2 DEF AllTags
  <2> QED BY <2>2, <2>3
<1> QED BY <1>1, <1>2 DEF AllTags

(* Ids stay one to one with pairs if no row is written.                    *)
LEMMA OneRowStays ==
    ASSUME OneRowEach, NEW p \in Process, OthersTx(p), UNCHANGED terms,
           tx'[p].terms = tx[p].terms \/ DOMAIN tx'[p].terms = {}
    PROVE  OneRowEach'
<1>1. AllTags' \subseteq AllTags
  BY TagsAfter, TagFacts
<1> QED BY <1>1 DEF OneRowEach

(* Or if one keeps its concept and its language.                           *)
LEMMA OneRowWritten ==
    ASSUME OneRowEach, NEW p \in Process, OthersTx(p), UNCHANGED terms,
           NEW i \in AllIds(p), NEW n,
           RowWritten(p, i, RowAt(p, i).concept, RowAt(p, i).locale, n)
    PROVE  OneRowEach'
<1>1. /\ DOMAIN tx'[p].terms = DOMAIN tx[p].terms \cup {i}
      /\ tx'[p].terms[i].concept = RowAt(p, i).concept
      /\ tx'[p].terms[i].locale = RowAt(p, i).locale
      /\ \A j \in DOMAIN tx[p].terms \ {i} : tx'[p].terms[j] = tx[p].terms[j]
  BY WrittenFacts
<1>2. AllTags' \subseteq AllTags
  <2> SUFFICES ASSUME NEW j \in DOMAIN tx'[p].terms
               PROVE  <<j, tx'[p].terms[j].concept, tx'[p].terms[j].locale>> \in AllTags
    BY TagsAfter
  <2>1. CASE j = i
    BY <1>1, <2>1, TagsOfAll
  <2>2. CASE j # i
    BY <1>1, <2>2, TagFacts
  <2> QED BY <2>1, <2>2
<1> QED BY <1>2 DEF OneRowEach

(* Or if a new one is of a concept whose gap is held, and has a new id.    *)
LEMMA OneRowInserted ==
    ASSUME OneRowEach, Clear, AllOwn, StoreParameters, ShapeOK,
           NEW p \in Process, OthersTx(p), UNCHANGED terms, pc[p] = "insert", NEW n,
           RowWritten(p, NewId, at[p].concept, locale(p), n)
    PROVE  OneRowEach'
<1>1. PICK i : i = NewId
  OBVIOUS
<1>2. PICK c, l : c = at[p].concept /\ l = locale(p)
  OBVIOUS
<1>3. i \notin Ids
  BY <1>1, NewIdFacts DEF AllOwn, Own
<1>4. /\ DOMAIN tx'[p].terms = DOMAIN tx[p].terms \cup {i}
      /\ tx'[p].terms[i].concept = c /\ tx'[p].terms[i].locale = l
      /\ \A j \in DOMAIN tx[p].terms \ {i} : tx'[p].terms[j] = tx[p].terms[j]
  BY <1>1, <1>2, WrittenFacts
<1>5. /\ Lock("gap", PreferredGap(c, l)) \in tx[p].locks
      /\ \A j \in DOMAIN tx[p].terms : ~(tx[p].terms[j].locale = l /\ tx[p].terms[j].concept = c)
  BY <1>2 DEF AllOwn, Own, GapsOK
<1>6. ASSUME NEW a \in AllTags
      PROVE  a[1] # i /\ ~(a[2] = c /\ a[3] = l)
  <2>1. CASE \E j \in DOMAIN terms : a = <<j, terms[j].concept, terms[j].locale>>
    <3>1. PICK j \in DOMAIN terms : a = <<j, terms[j].concept, terms[j].locale>>
      BY <2>1
    <3>2. j # i
      BY <1>3 DEF Ids
    <3>3. ~(terms[j].concept = c /\ terms[j].locale = l)
      BY <1>5 DEF Clear, StoredClearOK
    <3> QED BY <3>1, <3>2, <3>3
  <2>2. CASE \E q \in Process : \E j \in DOMAIN tx[q].terms :
               a = <<j, tx[q].terms[j].concept, tx[q].terms[j].locale>>
    <3>1. PICK q \in Process : \E j \in DOMAIN tx[q].terms :
            a = <<j, tx[q].terms[j].concept, tx[q].terms[j].locale>>
      BY <2>2
    <3>2. PICK j \in DOMAIN tx[q].terms :
            a = <<j, tx[q].terms[j].concept, tx[q].terms[j].locale>>
      BY <3>1
    <3>3. j # i
      BY <1>3 DEF Ids
    <3>4. ~(tx[q].terms[j].concept = c /\ tx[q].terms[j].locale = l)
      <4>1. CASE q = p
        BY <1>5, <4>1
      <4>2. CASE q # p
        BY <1>5, <4>2 DEF Clear, ClearOK
      <4> QED BY <4>1, <4>2
    <3> QED BY <3>2, <3>3, <3>4
  <2> QED BY <2>1, <2>2, TagFacts
<1>7. ASSUME NEW a \in AllTags' PROVE a \in AllTags \/ a = <<i, c, l>>
  BY <1>4, TagsAfter, TagFacts
<1> QED
  <2> SUFFICES ASSUME NEW a \in AllTags', NEW b \in AllTags'
               PROVE  a[1] = b[1] <=> (a[2] = b[2] /\ a[3] = b[3])
    BY DEF OneRowEach
  <2>1. CASE a \in AllTags /\ b \in AllTags
    BY <2>1 DEF OneRowEach
  <2>2. CASE a = <<i, c, l>> /\ b = <<i, c, l>>
    BY <2>2
  <2>3. CASE a = <<i, c, l>> /\ b \in AllTags
    BY <2>3, <1>6
  <2>4. CASE b = <<i, c, l>> /\ a \in AllTags
    BY <2>4, <1>6
  <2> QED BY <1>7, <2>1, <2>2, <2>3, <2>4

(* A gap is locked in which nothing was found.                             *)
LEMMA GapClear ==
    ASSUME Clear, NEW p \in Process, OthersTx(p), UNCHANGED terms, NEW o,
           OnlyLocks(p, {Lock("gap", o)}), \A a \in Taken(p) : a.mode # "gap",
           \A q \in Process \ {p} : \A i \in DOMAIN tx[q].terms :
             /\ SurfaceGap(tx[q].terms[i].locale, tx[q].terms[i].norm) # o
             /\ PreferredGap(tx[q].terms[i].concept, tx[q].terms[i].locale) # o,
           \A i \in DOMAIN terms :
             /\ SurfaceGap(terms[i].locale, terms[i].norm) = o => i \in DOMAIN tx[p].terms
             /\ PreferredGap(terms[i].concept, terms[i].locale) # o
    PROVE  Clear'
<1>0. \A row : GapOfSurface(row).mode = "gap" /\ GapOfConcept(row).mode = "gap"
  BY LockFacts DEF GapOfSurface, GapOfConcept
<1>1. /\ tx'[p].terms = tx[p].terms
      /\ tx'[p].locks = tx[p].locks \cup Taken(p) \cup {Lock("gap", o)}
  BY DEF OnlyLocks, TxIs
<1>2. \A q \in Process \ {p} : \A i \in DOMAIN tx'[p].terms :
             /\ GapOfSurface(tx'[p].terms[i]) \notin tx[q].locks
             /\ GapOfConcept(tx'[p].terms[i]) \notin tx[q].locks
  BY <1>1, ClearFacts
<1>3. \A q \in Process \ {p} : \A i \in DOMAIN tx[q].terms :
             /\ GapOfSurface(tx[q].terms[i]) \notin tx'[p].locks
             /\ GapOfConcept(tx[q].terms[i]) \notin tx'[p].locks
  <2> SUFFICES ASSUME NEW q \in Process \ {p}, NEW i \in DOMAIN tx[q].terms
               PROVE  /\ GapOfSurface(tx[q].terms[i]) \notin tx'[p].locks
                      /\ GapOfConcept(tx[q].terms[i]) \notin tx'[p].locks
    OBVIOUS
  <2>1. /\ GapOfSurface(tx[q].terms[i]) \notin tx[p].locks
        /\ GapOfConcept(tx[q].terms[i]) \notin tx[p].locks
    BY ClearFacts
  <2>2. /\ GapOfSurface(tx[q].terms[i]) # Lock("gap", o)
        /\ GapOfConcept(tx[q].terms[i]) # Lock("gap", o)
    BY LockFacts DEF GapOfSurface, GapOfConcept
  <2> QED BY <1>0, <1>1, <2>1, <2>2
<1>4. \A i \in DOMAIN terms :
             /\ GapOfSurface(terms[i]) \in tx'[p].locks => i \in DOMAIN tx'[p].terms
             /\ GapOfConcept(terms[i]) \notin tx'[p].locks
  <2> SUFFICES ASSUME NEW i \in DOMAIN terms
               PROVE  /\ GapOfSurface(terms[i]) \in tx'[p].locks => i \in DOMAIN tx'[p].terms
                      /\ GapOfConcept(terms[i]) \notin tx'[p].locks
    OBVIOUS
  <2>1. /\ GapOfSurface(terms[i]) \in tx[p].locks => i \in DOMAIN tx[p].terms
        /\ GapOfConcept(terms[i]) \notin tx[p].locks
    BY DEF Clear, StoredClearOK, GapOfSurface, GapOfConcept
  <2>2. /\ GapOfSurface(terms[i]) = Lock("gap", o) => i \in DOMAIN tx[p].terms
        /\ GapOfConcept(terms[i]) # Lock("gap", o)
    BY LockFacts DEF GapOfSurface, GapOfConcept
  <2> QED BY <1>0, <1>1, <2>1, <2>2
<1> QED BY <1>2, <1>3, <1>4, ClearStep

(* A gap that is locked where nothing was met is clear: of a label.        *)
LEMMA SurfaceGapClear ==
    ASSUME Clear, AllOwn, NEW p \in Process, OthersTx(p), UNCHANGED terms, Granted(p),
           pc[p] \in {"lookUp", "recover"}, NEW l, NEW n, l = locale(p), n = norm(p),
           FoundRows(p, l, n) = {}, OnlyLocks(p, {Lock("gap", SurfaceGap(l, n))})
    PROVE  Clear'
<1>1. \A a \in Taken(p) : a.mode # "gap"
  BY WantsModes DEF Taken
<1>2. ASSUME NEW q \in Process \ {p}, NEW i \in DOMAIN tx[q].terms
      PROVE  /\ SurfaceGap(tx[q].terms[i].locale, tx[q].terms[i].norm) # SurfaceGap(l, n)
             /\ PreferredGap(tx[q].terms[i].concept, tx[q].terms[i].locale) # SurfaceGap(l, n)
  <2>1. ASSUME tx[q].terms[i].locale = l, tx[q].terms[i].norm = n PROVE FALSE
    <3>1. i \in MetBySurface(l, n)
      BY <2>1, MetFacts
    <3>2. Lock("X", Row(i)) \in Wants(p)
      BY <3>1, WantsFacts DEF All
    <3>3. Lock("X", Row(i)) \in tx[q].locks
      BY DEF AllOwn, Own, LocksOK
    <3> QED BY <3>2, <3>3, GrantedX
  <2> QED BY <2>1, LockFacts
<1>3. ASSUME NEW i \in DOMAIN terms
      PROVE  /\ SurfaceGap(terms[i].locale, terms[i].norm) = SurfaceGap(l, n)
                  => i \in DOMAIN tx[p].terms
             /\ PreferredGap(terms[i].concept, terms[i].locale) # SurfaceGap(l, n)
  BY LockFacts DEF FoundRows, AllIds, RowAt
<1> QED BY <1>1, <1>2, <1>3, GapClear

(* And of a concept's row.                                                 *)
LEMMA ConceptGapClear ==
    ASSUME Clear, AllOwn, OneRowEach, NEW p \in Process, OthersTx(p), UNCHANGED terms,
           Granted(p), pc[p] = "preferred", NEW c, NEW l, c = at[p].concept, l = locale(p),
           ConceptRows(p, c, l) = {}, OnlyLocks(p, {Lock("gap", PreferredGap(c, l))})
    PROVE  Clear'
<1>1. \A a \in Taken(p) : a.mode # "gap"
  BY WantsModes DEF Taken
<1>2. ASSUME NEW q \in Process \ {p}, NEW i \in DOMAIN tx[q].terms
      PROVE  /\ SurfaceGap(tx[q].terms[i].locale, tx[q].terms[i].norm) # PreferredGap(c, l)
             /\ PreferredGap(tx[q].terms[i].concept, tx[q].terms[i].locale) # PreferredGap(c, l)
  <2>1. ASSUME tx[q].terms[i].concept = c, tx[q].terms[i].locale = l PROVE FALSE
    <3>1. i \in MetByConcept(c, l)
      BY <2>1, MetFacts
    <3>2. Lock("X", Row(i)) \in Wants(p)
      BY <3>1, WantsFacts DEF All
    <3>3. Lock("X", Row(i)) \in tx[q].locks
      BY DEF AllOwn, Own, LocksOK
    <3> QED BY <3>2, <3>3, GrantedX
  <2> QED BY <2>1, LockFacts
<1>3. ASSUME NEW i \in DOMAIN terms
      PROVE  /\ SurfaceGap(terms[i].locale, terms[i].norm) # PreferredGap(c, l)
             /\ PreferredGap(terms[i].concept, terms[i].locale) # PreferredGap(c, l)
  <2>1. ASSUME terms[i].concept = c, terms[i].locale = l PROVE FALSE
    <3>1. i \in AllIds(p)
      BY DEF AllIds
    <3>2. <<i, RowAt(p, i).concept, RowAt(p, i).locale>> \in AllTags
          /\ <<i, terms[i].concept, terms[i].locale>> \in AllTags
      BY <3>1, TagsOfAll, TagFacts
    <3>3. RowAt(p, i).concept = c /\ RowAt(p, i).locale = l
      BY <2>1, <3>2 DEF OneRowEach
    <3> QED BY <3>1, <3>3 DEF ConceptRows
  <2> QED BY <2>1, LockFacts
<1> QED BY <1>1, <1>2, <1>3, GapClear

(* It stays clear of rows that keep their label.                           *)
LEMMA KeptClear ==
    ASSUME Clear, AllOwn, NEW p \in Process, OthersTx(p), UNCHANGED terms, Granted(p),
           pc[p] \in {"enrich", "lookUp", "recover", "preferred"}, NEW i, RowKept(p, i)
    PROVE  Clear'
<1>1. \A a \in Taken(p) : a.mode # "gap"
  BY WantsModes DEF Taken
<1>2. /\ i \in AllIds(p) /\ Lock("X", Row(i)) \in Wants(p)
      /\ RowWritten(p, i, RowAt(p, i).concept, RowAt(p, i).locale, RowAt(p, i).norm)
  BY DEF RowKept
<1>3. ASSUME NEW q \in Process \ {p}
      PROVE  /\ GapOfSurface(RowAt(p, i)) \notin tx[q].locks
             /\ GapOfConcept(RowAt(p, i)) \notin tx[q].locks
  <2>1. CASE i \in DOMAIN tx[p].terms
    BY <2>1, ClearFacts DEF RowAt
  <2>2. CASE i \notin DOMAIN tx[p].terms
    <3>1. i \in DOMAIN terms /\ RowAt(p, i) = terms[i]
      BY <1>2, <2>2 DEF AllIds, RowAt
    <3>2. /\ GapOfSurface(terms[i]) \in tx[q].locks => i \in DOMAIN tx[q].terms
          /\ GapOfConcept(terms[i]) \notin tx[q].locks
      BY <3>1 DEF Clear, StoredClearOK, GapOfSurface, GapOfConcept
    <3>3. i \in DOMAIN tx[q].terms => Lock("X", Row(i)) \in tx[q].locks
      BY DEF AllOwn, Own, LocksOK
    <3> QED BY <1>2, <3>1, <3>2, <3>3, GrantedX
  <2> QED BY <2>1, <2>2
<1> QED BY <1>1, <1>2, <1>3, ClearWritten DEF GapOfSurface, GapOfConcept

(* The invariant after a step that stores nothing, from its parts.         *)
LEMMA QuietStep ==
    ASSUME IInv, NEW p \in Process, Frame(p), Stored,
           Own(p)', Exclusive', Clear', OneRowEach'
    PROVE  IInv'
<1>1. ShapeOK'
  BY DEF IInv, ShapeOK, Frame, OthersTx, LocalIs, PcIs, Stored
<1>2. TablesOK'
  <2>1. NamedInEnglish' /\ EdgesAreCounted'
    BY DEF IInv, TablesOK, NamedInEnglish, EdgesAreCounted, Stored, Preferred, Tables
  <2> QED BY <2>1 DEF IInv, TablesOK, Stored
<1>3. AllOwn'
  <2> SUFFICES ASSUME NEW q \in Process PROVE Own(q)'
    BY DEF AllOwn
  <2>1. CASE q # p
    BY <2>1, OthersKeep DEF IInv, AllOwn
  <2> QED BY <2>1
<1> QED BY <1>1, <1>2, <1>3 DEF IInv

(* No lock, or some locks that are granted.                                *)
LEMMA ExclusiveKept ==
    ASSUME Exclusive, NEW p \in Process, OthersTx(p), tx'[p].locks \subseteq tx[p].locks
    PROVE  Exclusive'
BY ExclusiveStep DEF Exclusive, ExclusiveOK

(* The same if no row is written either, and no gap locked.                *)
LEMMA QuietLocks ==
    ASSUME IInv, NEW p \in Process, OthersTx(p), Stored,
           \/ tx'[p].locks \subseteq tx[p].locks
           \/ Granted(p) /\ tx'[p].locks \subseteq tx[p].locks \cup Taken(p),
           tx'[p].terms = tx[p].terms,
           \A a \in tx'[p].locks : a.mode = "gap" => a \in tx[p].locks
    PROVE  Exclusive' /\ Clear' /\ OneRowEach'
<1>1. Exclusive'
  BY ExclusiveKept, GrantedExclusive DEF IInv
<1>2. OneRowEach'
  BY OneRowStays DEF IInv, TablesOK, Stored
<1>3. Clear'
  BY ClearStays DEF IInv, Stored
<1> QED BY <1>1, <1>2, <1>3

(* Locks of a statement that locks no gap.                                 *)
LEMMA TakenModes ==
    ASSUME NEW p \in Process,
           pc[p] \in {"enrich", "create", "lookUp", "recover", "preferred", "rename",
                      "insert", "recoverKey", "lockConcept", "edge", "bump"}
    PROVE  \A a \in Taken(p) : a.mode # "gap"
BY WantsModes DEF Taken

(* The same if it was granted what it takes.                               *)
LEMMA QuietTaken ==
    ASSUME IInv, NEW p \in Process, OthersTx(p), Stored, Granted(p),
           pc[p] \in {"enrich", "create", "lookUp", "recover", "preferred", "rename",
                      "insert", "recoverKey", "lockConcept", "edge", "bump"},
           tx'[p].locks \subseteq tx[p].locks \cup Taken(p), tx'[p].terms = tx[p].terms
    PROVE  Exclusive' /\ Clear' /\ OneRowEach'
BY QuietLocks, TakenModes

(* The invariant, for one process.                                         *)
LEMMA IInvBefore ==
    ASSUME StoreParameters, IInv, NEW p \in Process
    PROVE  /\ Before(p) /\ StoredClearOK(p) /\ Able(p) /\ Own(p)
           /\ NewId \notin AllIds(p)
<1>1. Before(p) /\ StoredClearOK(p) /\ Own(p)
  BY DEF IInv, AllOwn, Clear, Before
<1> QED BY <1>1, BeforeFacts, NewIdFree DEF IInv

(* A step that writes over a row.                                          *)
LEMMA KeptStep ==
    ASSUME StoreParameters, IInv, NEW p \in Process, Frame(p), Stored, Granted(p),
           pc[p] \in {"enrich", "lookUp", "recover", "preferred"}, NEW i, RowKept(p, i),
           Own(p)'
    PROVE  IInv'
<1>1. RowWritten(p, i, RowAt(p, i).concept, RowAt(p, i).locale, RowAt(p, i).norm)
      /\ i \in AllIds(p) /\ OthersTx(p) /\ UNCHANGED terms
  BY DEF RowKept, Frame, Stored
<1>2. OneRowEach'
  BY <1>1, OneRowWritten DEF IInv, TablesOK
<1>3. Clear'
  BY <1>1, KeptClear DEF IInv
<1>4. Exclusive'
  <2>1. tx'[p].locks = tx[p].locks \cup Taken(p)
    BY <1>1, WrittenFacts
  <2> QED BY <1>1, <2>1, GrantedExclusive DEF IInv
<1> QED BY <1>2, <1>3, <1>4, QuietStep

(* A step that only locks.                                                 *)
LEMMA LockedStep ==
    ASSUME StoreParameters, IInv, NEW p \in Process, Frame(p), Stored, Granted(p),
           pc[p] \in {"enrich", "create", "lookUp", "recover", "preferred", "rename",
                      "insert", "recoverKey", "lockConcept", "edge", "bump"},
           tx'[p].locks \subseteq tx[p].locks \cup Taken(p), tx'[p].terms = tx[p].terms,
           Own(p)'
    PROVE  IInv'
BY QuietTaken, QuietStep DEF Frame

(* The steps, for all processes and the tables. A graph begins.            *)
LEMMA StartStep ==
    ASSUME StoreParameters, IInv, NEW w \in Writer, NEW g \in Graphs, Start(w, g)
    PROVE  IInv'
<1>1. w \in Process /\ Before(w) /\ Able(w)
  BY IInvBefore DEF Process
<1>2. /\ Stored /\ UNCHANGED tx /\ LocalIs(w) /\ PcIs(w)
  BY <1>1, StartFacts
<1>3. Frame(w)
  BY <1>2 DEF Frame, OthersTx, IInv, ShapeOK
<1>4. Own(w)'
  BY <1>1, OwnStart
<1>5. Exclusive' /\ Clear' /\ OneRowEach'
  BY <1>1, <1>2, <1>3, QuietLocks DEF Frame
<1> QED BY <1>1, <1>2, <1>3, <1>4, <1>5, QuietStep

(* A translation begins.                                                   *)
LEMMA LocalizeStep ==
    ASSUME StoreParameters, IInv, NEW p \in Localizer, NEW c, NEW n, Localize(p, c, n)
    PROVE  IInv'
<1>1. p \in Process /\ Before(p) /\ Able(p)
  BY IInvBefore DEF Process
<1>2. /\ Stored /\ UNCHANGED tx /\ LocalIs(p) /\ PcIs(p)
  BY <1>1, LocalizeFacts
<1>3. Frame(p)
  BY <1>2 DEF Frame, OthersTx, IInv, ShapeOK
<1>4. Own(p)'
  BY <1>1, OwnLocalize
<1>5. Exclusive' /\ Clear' /\ OneRowEach'
  BY <1>1, <1>2, <1>3, QuietLocks DEF Frame
<1> QED BY <1>1, <1>2, <1>3, <1>4, <1>5, QuietStep

(* The plain read.                                                         *)
LEMMA FindStep ==
    ASSUME StoreParameters, IInv, NEW w \in Writer, Find(w)
    PROVE  IInv'
<1>1. w \in Process /\ Before(w) /\ Able(w)
  BY IInvBefore DEF Process
<1>2. /\ Stored /\ Frame(w) /\ tx'[w].terms = tx[w].terms /\ tx'[w].locks = tx[w].locks
  BY <1>1, FindFacts DEF TxIs
<1>3. Own(w)'
  BY <1>1, OwnFind
<1>4. Exclusive' /\ Clear' /\ OneRowEach'
  BY <1>1, <1>2, QuietLocks DEF Frame
<1> QED BY <1>1, <1>2, <1>3, <1>4, QuietStep

(* The row that was found.                                                 *)
LEMMA EnrichStep ==
    ASSUME StoreParameters, IInv, NEW w \in Writer, Enrich(w)
    PROVE  IInv'
<1>1. w \in Process /\ Before(w) /\ Able(w) /\ Own(w)
  BY IInvBefore DEF Process
<1>2. pc[w] = "enrich" /\ Own(w)'
  BY <1>1, OwnEnrich DEF Enrich
<1>3. at[w].id \in AllIds(w) /\ at[w].concept \in View(w).keys
  BY <1>1, <1>2, SeenByView DEF Own, ConceptOK, PlaceOK, Attaching
<1>4. /\ Stored /\ Granted(w) /\ Frame(w) /\ (SameTx(w) \/ RowKept(w, at[w].id))
  BY <1>1, <1>3, EnrichFacts
<1>5. CASE SameTx(w)
  <2>1. tx'[w].terms = tx[w].terms /\ tx'[w].locks = tx[w].locks
    BY <1>5 DEF SameTx, TxIs
  <2> QED BY <1>1, <1>2, <1>4, <2>1, LockedStep
<1>6. CASE RowKept(w, at[w].id)
  BY <1>1, <1>2, <1>4, <1>6, KeptStep
<1> QED BY <1>4, <1>5, <1>6

(* A new concept.                                                          *)
LEMMA CreateStep ==
    ASSUME StoreParameters, IInv, NEW w \in Writer, Create(w)
    PROVE  IInv'
<1>1. w \in Process /\ Before(w) /\ Able(w)
  BY IInvBefore DEF Process
<1>2. /\ pc[w] = "create" /\ Stored /\ Granted(w) /\ Frame(w)
      /\ tx'[w].terms = tx[w].terms /\ tx'[w].locks = tx[w].locks \cup Taken(w)
  BY <1>1, CreateFacts DEF TxIs, OnlyLocks
<1>3. Own(w)'
  BY <1>1, OwnCreate
<1> QED BY <1>1, <1>2, <1>3, LockedStep

(* A gap is locked.                                                        *)
LEMMA GapStep ==
    ASSUME StoreParameters, IInv, NEW p \in Process, Frame(p), Stored, Granted(p),
           NEW o, OnlyLocks(p, {Lock("gap", o)}), Clear', Own(p)'
    PROVE  IInv'
<1>1. /\ tx'[p].terms = tx[p].terms /\ OthersTx(p) /\ UNCHANGED terms
      /\ tx'[p].locks = tx[p].locks \cup Taken(p) \cup {Lock("gap", o)}
  BY DEF OnlyLocks, TxIs, Frame, Stored
<1>2. OneRowEach'
  BY <1>1, OneRowStays DEF IInv, TablesOK
<1>3. Exclusive'
  BY <1>1, GrantedExclusive DEF IInv
<1> QED BY <1>2, <1>3, QuietStep

(* The locking read of a label.                                            *)
LEMMA LookUpStep ==
    ASSUME StoreParameters, IInv, NEW p \in Process, LookUp(p)
    PROVE  IInv'
<1>1. Before(p) /\ Able(p) /\ Own(p) /\ pc[p] = "lookUp" /\ Own(p)'
  BY IInvBefore, OwnLookUp DEF LookUp
<1>2. p \in Writer /\ ~at[p].recovering => at[p].concept \in View(p).keys
  BY <1>1, SeenByView DEF Attaching
<1> DEFINE l == locale(p)  n == norm(p)
<1>3. /\ Stored /\ Granted(p) /\ Frame(p)
      /\ \/ FoundRows(p, l, n) = {} /\ OnlyLocks(p, {Lock("gap", SurfaceGap(l, n))})
         \/ \E i : RowKept(p, i)
         \/ \E i : OtherOwner(p, i)
  BY <1>1, <1>2, LookUpFacts
<1>4. CASE FoundRows(p, l, n) = {} /\ OnlyLocks(p, {Lock("gap", SurfaceGap(l, n))})
  <2>1. Clear'
    <3> HIDE DEF l, n
    <3>1. l = locale(p) /\ n = norm(p)
      BY DEF l, n
    <3> QED BY <1>1, <1>3, <1>4, <3>1, SurfaceGapClear DEF Frame, Stored, IInv
  <2> HIDE DEF l, n
  <2> QED BY <1>1, <1>3, <1>4, <2>1, GapStep
<1>5. CASE \E i : RowKept(p, i)
  BY <1>1, <1>3, <1>5, KeptStep
<1>6. CASE \E i : OtherOwner(p, i)
  <2>1. PICK i : OtherOwner(p, i)
    BY <1>6
  <2>2. CASE RowKept(p, i)
    BY <1>5, <2>2
  <2>3. CASE OnlyLocks(p, {})
    <3>1. tx'[p].terms = tx[p].terms /\ tx'[p].locks = tx[p].locks \cup Taken(p)
      BY <2>3 DEF OnlyLocks, TxIs
    <3> QED BY <1>1, <1>3, <3>1, LockedStep
  <2>4. CASE /\ p \in Writer /\ ~at[p].recovering
             /\ TxIs(p, tx[p].snap, at[p].save.keys, at[p].save.terms, tx[p].edges,
                     tx[p].evidence, {a \in tx[p].locks \cup Taken(p) : a.on \notin Gone(p)})
    <3>1. at[p].save.terms = tx[p].terms
      BY <1>1, <2>4 DEF Own, SaveOK, Nested
    <3>2. tx'[p].terms = tx[p].terms /\ tx'[p].locks \subseteq tx[p].locks \cup Taken(p)
      BY <2>4, <3>1 DEF TxIs
    <3> QED BY <1>1, <1>3, <3>2, LockedStep
  <2> QED BY <2>1, <2>2, <2>3, <2>4 DEF OtherOwner
<1> QED BY <1>3, <1>4, <1>5, <1>6

(* The locking read of a concept's row.                                    *)
LEMMA LockPreferredStep ==
    ASSUME StoreParameters, IInv, NEW p \in Process, LockPreferred(p)
    PROVE  IInv'
<1>1. Before(p) /\ Able(p) /\ pc[p] = "preferred" /\ Own(p)'
  BY IInvBefore, OwnLockPreferred DEF LockPreferred
<1>2. PICK c, l : c = at[p].concept /\ l = locale(p)
  OBVIOUS
<1>3. /\ Stored /\ Granted(p) /\ Frame(p)
      /\ \/ ConceptRows(p, c, l) = {} /\ OnlyLocks(p, {Lock("gap", PreferredGap(c, l))})
         \/ \E i : RowKept(p, i)
  BY <1>1, <1>2, LockPreferredFacts
<1>4. CASE ConceptRows(p, c, l) = {} /\ OnlyLocks(p, {Lock("gap", PreferredGap(c, l))})
  <2>1. Clear'
    BY <1>1, <1>2, <1>3, <1>4, ConceptGapClear DEF Frame, Stored, IInv, TablesOK
  <2> QED BY <1>1, <1>3, <1>4, <2>1, GapStep
<1>5. CASE \E i : RowKept(p, i)
  BY <1>1, <1>3, <1>5, KeptStep
<1> QED BY <1>3, <1>4, <1>5

(* The row that gives way: no other has locked the gap of the label.       *)
LEMMA RenameStep ==
    ASSUME StoreParameters, IInv, NEW p \in Process, Rename(p)
    PROVE  IInv'
<1>1. Before(p) /\ Able(p) /\ Own(p) /\ StoredClearOK(p) /\ pc[p] = "rename" /\ Own(p)'
  BY IInvBefore, OwnRename DEF Rename
<1>2. p \in Writer /\ ~at[p].recovering => at[p].concept \in View(p).keys
  BY <1>1, SeenByView DEF Attaching
<1>3. PICK i, l, n : i = at[p].id /\ l = locale(p) /\ n = norm(p)
  OBVIOUS
<1>4. /\ i \in DOMAIN tx[p].terms /\ i \in AllIds(p) /\ RowAt(p, i) = tx[p].terms[i]
      /\ tx[p].terms[i].locale = l /\ FoundRows(p, l, n) = {}
  BY <1>1, <1>3, NothingFound DEF Own, ConceptOK, AllIds, RowAt
<1>5. /\ Stored /\ Granted(p) /\ Frame(p)
      /\ RowWritten(p, i, RowAt(p, i).concept, RowAt(p, i).locale, n)
  BY <1>1, <1>2, <1>3, <1>4, RenameFacts
<1>6. OneRowEach'
  BY <1>4, <1>5, OneRowWritten DEF IInv, TablesOK, Frame, Stored
<1>7. Exclusive'
  <2>1. tx'[p].locks = tx[p].locks \cup Taken(p)
    BY <1>5, WrittenFacts
  <2> QED BY <1>5, <2>1, GrantedExclusive DEF IInv, Frame
<1>8. Clear'
  <2>1. Lock("insert", SurfaceGap(l, n)) \in Wants(p)
    BY <1>1, <1>3, WantsFacts
  <2>2. ASSUME NEW q \in Process \ {p}
        PROVE  /\ Lock("gap", SurfaceGap(l, n)) \notin tx[q].locks
               /\ Lock("gap", PreferredGap(RowAt(p, i).concept, l)) \notin tx[q].locks
    <3>1. GapOfConcept(tx[p].terms[i]) \notin tx[q].locks
      BY <1>4, ClearFacts DEF IInv
    <3> QED BY <1>4, <1>5, <2>1, <3>1, GrantedX DEF GapOfConcept
  <2> QED BY <1>1, <1>4, <1>5, <2>2, TakenModes, ClearWritten DEF IInv, Frame, Stored
<1> QED BY <1>1, <1>5, <1>6, <1>7, <1>8, QuietStep

(* The new row: no other has locked either gap.                            *)
LEMMA InsertStep ==
    ASSUME StoreParameters, IInv, NEW p \in Process, Insert(p)
    PROVE  IInv'
<1>1. Before(p) /\ Able(p) /\ Own(p) /\ StoredClearOK(p) /\ pc[p] = "insert" /\ Own(p)'
  BY IInvBefore, OwnInsert DEF Insert
<1>2. p \in Writer /\ ~at[p].recovering => at[p].concept \in View(p).keys
  BY <1>1, SeenByView DEF Attaching
<1>3. FoundRows(p, locale(p), norm(p)) = {}
  BY <1>1, NothingFound
<1>4. /\ Stored /\ Granted(p) /\ Frame(p)
      /\ RowWritten(p, NewId, at[p].concept, locale(p), norm(p))
  BY <1>1, <1>2, <1>3, InsertFacts
<1>5. PICK i, c, l, n : i = NewId /\ c = at[p].concept /\ l = locale(p) /\ n = norm(p)
  OBVIOUS
<1>6. OneRowEach'
  BY <1>1, <1>4, OneRowInserted DEF IInv, TablesOK, Frame, Stored
<1>7. RowWritten(p, i, c, l, n)
  BY <1>4, <1>5
<1>8. Exclusive'
  <2>1. tx'[p].locks = tx[p].locks \cup Taken(p)
    BY <1>7, WrittenFacts
  <2> QED BY <1>4, <2>1, GrantedExclusive DEF IInv, Frame
<1>9. Clear'
  <2>1. /\ Lock("insert", SurfaceGap(l, n)) \in Wants(p)
        /\ Lock("insert", PreferredGap(c, l)) \in Wants(p)
    BY <1>1, <1>5, WantsFacts
  <2>2. ASSUME NEW q \in Process \ {p}
        PROVE  /\ Lock("gap", SurfaceGap(l, n)) \notin tx[q].locks
               /\ Lock("gap", PreferredGap(c, l)) \notin tx[q].locks
    BY <1>4, <2>1, GrantedX
  <2> QED BY <1>1, <1>4, <1>7, <2>2, TakenModes, ClearWritten DEF IInv, Frame, Stored
<1> QED BY <1>1, <1>4, <1>6, <1>8, <1>9, QuietStep

(* The recovery: the row.                                                  *)
LEMMA RecoverStep ==
    ASSUME StoreParameters, IInv, NEW w \in Writer, Recover(w)
    PROVE  IInv'
<1>1. w \in Process /\ Before(w) /\ Able(w) /\ Own(w)'
  BY IInvBefore, OwnRecover DEF Process
<1>2. PICK l, n : l = "en" /\ n = label(w) /\ l = locale(w) /\ n = norm(w)
  BY WriterPlace
<1>3. /\ pc[w] = "recover" /\ Stored /\ Granted(w) /\ Frame(w)
      /\ \/ FoundRows(w, l, n) = {} /\ OnlyLocks(w, {Lock("gap", SurfaceGap(l, n))})
         \/ \E i : RowKept(w, i)
  BY <1>1, <1>2, RecoverFacts
<1>4. CASE FoundRows(w, l, n) = {} /\ OnlyLocks(w, {Lock("gap", SurfaceGap(l, n))})
  <2>1. Clear'
    BY <1>1, <1>2, <1>3, <1>4, SurfaceGapClear DEF Frame, Stored, IInv
  <2> QED BY <1>1, <1>3, <1>4, <2>1, GapStep
<1>5. CASE \E i : RowKept(w, i)
  BY <1>1, <1>3, <1>5, KeptStep
<1> QED BY <1>3, <1>4, <1>5

(* And the concept.                                                        *)
LEMMA RecoverKeyStep ==
    ASSUME StoreParameters, IInv, NEW w \in Writer, RecoverKey(w)
    PROVE  IInv'
<1>1. w \in Process /\ Before(w) /\ Able(w) /\ Own(w) /\ Own(w)' /\ pc[w] = "recoverKey"
  BY IInvBefore, OwnRecoverKey DEF Process, RecoverKey
<1>2. label(w) \in Keys(w)
  BY <1>1 DEF Own, ConceptOK
<1>3. /\ Stored /\ Granted(w) /\ Frame(w)
      /\ tx'[w].terms = tx[w].terms /\ tx'[w].locks = tx[w].locks \cup Taken(w)
  BY <1>1, <1>2, RecoverKeyFacts DEF TxIs, OnlyLocks
<1> QED BY <1>1, <1>3, LockedStep

(* Another's concept is taken.                                             *)
LEMMA LockConceptStep ==
    ASSUME StoreParameters, IInv, NEW w \in Writer, LockConcept(w)
    PROVE  IInv'
<1>1. w \in Process /\ Before(w) /\ Able(w) /\ Own(w) /\ Own(w)' /\ pc[w] = "lockConcept"
  BY IInvBefore, OwnLockConcept DEF Process, LockConcept
<1>2. at[w].concept \in Keys(w)
  BY <1>1 DEF Own, ConceptOK
<1>3. /\ Stored /\ Granted(w) /\ Frame(w)
      /\ tx'[w].terms = tx[w].terms /\ tx'[w].locks = tx[w].locks \cup Taken(w)
  BY <1>1, <1>2, LockConceptFacts DEF TxIs, OnlyLocks
<1> QED BY <1>1, <1>3, LockedStep

(* A new edge.                                                             *)
LEMMA InsertEdgeStep ==
    ASSUME StoreParameters, IInv, NEW w \in Writer, InsertEdge(w)
    PROVE  IInv'
<1>1. w \in Process /\ Before(w) /\ Able(w) /\ Own(w)' /\ pc[w] = "edge"
  BY IInvBefore, OwnInsertEdge DEF Process, InsertEdge, IInv
<1>2. /\ Stored /\ Granted(w) /\ Frame(w)
      /\ tx'[w].terms = tx[w].terms /\ tx'[w].locks = tx[w].locks \cup Taken(w)
  BY <1>1, InsertEdgeFacts DEF TxIs, OnlyLocks, EdgeWritten
<1> QED BY <1>1, <1>2, LockedStep

(* One that is counted.                                                    *)
LEMMA CountEdgeStep ==
    ASSUME StoreParameters, IInv, NEW w \in Writer, CountEdge(w)
    PROVE  IInv'
<1>1. w \in Process /\ Before(w) /\ Able(w) /\ Own(w) /\ Own(w)' /\ pc[w] = "bump"
  BY IInvBefore, OwnCountEdge DEF Process, CountEdge
<1>2. edgeOf(w) \in DOMAIN edges \cup DOMAIN tx[w].edges
  BY <1>1 DEF Own, ConceptOK
<1>3. /\ Stored /\ Granted(w) /\ Frame(w)
      /\ tx'[w].terms = tx[w].terms /\ tx'[w].locks = tx[w].locks \cup Taken(w)
  BY <1>1, <1>2, CountEdgeFacts DEF TxIs, EdgeWritten
<1> QED BY <1>1, <1>3, LockedStep

(* Locks that are given up take nothing from the others.                   *)
LEMMA EndedClear ==
    ASSUME NEW p \in Process, OthersTx(p), tx'[p] = NoTx,
           \A q \in Process \ {p} : StoredClearOK(q)',
           Clear, Exclusive
    PROVE  Exclusive' /\ Clear'
<1>1. Exclusive'
  BY ExclusiveKept, NoTxFields
<1>2. StoredClearOK(p)'
  BY NoTxFields DEF StoredClearOK
<1>3. ASSUME NEW r \in Process, NEW q \in Process \ {r} PROVE ClearOK(r, q)'
  <2>1. CASE r = p \/ q = p
    BY <2>1, NoTxFields DEF ClearOK
  <2>2. CASE r # p /\ q # p
    BY <2>2 DEF ClearOK, OthersTx, Clear
  <2> QED BY <2>1, <2>2
<1> QED BY <1>1, <1>2, <1>3 DEF Clear

(* The victim of a deadlock.                                               *)
LEMMA DeadlockStep ==
    ASSUME StoreParameters, IInv, NEW p \in Process, Deadlock(p)
    PROVE  IInv'
<1>1. Stored /\ Frame(p) /\ tx'[p] = NoTx /\ pc'[p] = "idle"
  BY EndsFacts DEF Deadlock, IInv
<1>2. Own(p)'
  BY <1>1, OwnEnded DEF IInv
<1>3. \A q \in Process \ {p} : StoredClearOK(q)'
  BY <1>1 DEF IInv, Clear, StoredClearOK, Frame, OthersTx, Stored
<1>4. Exclusive' /\ Clear'
  BY <1>1, <1>3, EndedClear DEF IInv, Frame
<1>5. OneRowEach'
  BY <1>1, OneRowStays, NoTxFields DEF IInv, TablesOK, Frame, Stored
<1> QED BY <1>1, <1>2, <1>4, <1>5, QuietStep

(* What the tables are when a transaction is committed.                    *)
Committed(p) ==
    /\ keys' = Keys(p) /\ DOMAIN terms' = AllIds(p)
    /\ \A i \in AllIds(p) : terms'[i] = RowAt(p, i)
    /\ DOMAIN edges' = DOMAIN edges \cup DOMAIN tx[p].edges
    /\ \A e \in DOMAIN edges' : edges'[e] = EdgeIn(p, e)
    /\ DOMAIN evidence' = DOMAIN evidence \cup DOMAIN tx[p].evidence
    /\ \A e \in DOMAIN evidence' :
         evidence'[e] = Rows(evidence, e) + Rows(tx[p].evidence, e)
    /\ \/ named' = named
       \/ /\ p \in Writer /\ DOMAIN named' = DOMAIN named \cup DOMAIN at[p].resolved
          /\ \A n \in DOMAIN named' :
               named'[n] = IF n \in DOMAIN at[p].resolved THEN at[p].resolved[n] ELSE named[n]

(* What a commit does to the tables.                                       *)
LEMMA CommitFacts ==
    ASSUME NEW p \in Process, ShapeOK, Commit(p)
    PROVE  pc[p] = "commit" /\ Frame(p) /\ tx'[p] = NoTx /\ pc'[p] = "idle" /\ Committed(p)
<1>1. pc[p] = "commit" /\ Frame(p) /\ tx'[p] = NoTx /\ pc'[p] = "idle"
  BY EndsFacts DEF Commit
<1>2. keys' = Current(p).keys /\ terms' = Current(p).terms /\ edges' = Current(p).edges
  BY DEF Commit
<1>3. /\ keys' = Keys(p) /\ DOMAIN terms' = AllIds(p)
      /\ \A i \in AllIds(p) : terms'[i] = RowAt(p, i)
  BY <1>2, CurrentFacts
<1>4. /\ DOMAIN edges' = DOMAIN edges \cup DOMAIN tx[p].edges
      /\ \A e \in DOMAIN edges' : edges'[e] = EdgeIn(p, e)
  BY <1>2, CurrentFacts DEF EdgeIn
<1>5. /\ DOMAIN evidence' = DOMAIN evidence \cup DOMAIN tx[p].evidence
      /\ \A e \in DOMAIN evidence' :
           evidence'[e] = Rows(evidence, e) + Rows(tx[p].evidence, e)
  BY DEF Commit
<1>6. \/ named' = named
      \/ /\ p \in Writer /\ DOMAIN named' = DOMAIN named \cup DOMAIN at[p].resolved
         /\ \A n \in DOMAIN named' :
              named'[n] = IF n \in DOMAIN at[p].resolved THEN at[p].resolved[n] ELSE named[n]
  BY DEF Commit, Updated
<1> QED BY <1>1, <1>3, <1>4, <1>5, <1>6 DEF Committed

(* Stored rows keep their concept and language.                            *)
LEMMA TagsStored ==
    ASSUME OneRowEach, NEW p \in Process, Committed(p), NEW i \in DOMAIN terms
    PROVE  /\ i \in DOMAIN terms' /\ terms'[i].concept = terms[i].concept
           /\ terms'[i].locale = terms[i].locale
<1>1. i \in AllIds(p) /\ terms'[i] = RowAt(p, i) /\ i \in DOMAIN terms'
  BY DEF AllIds, Committed
<1>2. <<i, RowAt(p, i).concept, RowAt(p, i).locale>> \in AllTags
      /\ <<i, terms[i].concept, terms[i].locale>> \in AllTags
  BY <1>1, TagsOfAll, TagFacts
<1> QED BY <1>1, <1>2 DEF OneRowEach

(* Ids stay one to one with pairs: the rows are the same ones.             *)
LEMMA CommitOneRow ==
    ASSUME OneRowEach, NEW p \in Process, OthersTx(p), tx'[p] = NoTx, Committed(p)
    PROVE  OneRowEach'
<1>1. AllTags' \subseteq AllTags
  <2> SUFFICES ASSUME NEW a \in AllTags' PROVE a \in AllTags
    OBVIOUS
  <2>1. CASE a \in Tags(terms')
    <3>1. PICK i \in DOMAIN terms' : a = <<i, terms'[i].concept, terms'[i].locale>>
      BY <2>1 DEF Tags
    <3> QED BY <3>1, TagsOfAll DEF Committed
  <2>2. CASE a \in UNION {Tags(tx'[q].terms) : q \in Process}
    <3>1. PICK q \in Process : a \in Tags(tx'[q].terms)
      BY <2>2
    <3>2. q # p
      BY <3>1, NoTxFields DEF Tags
    <3>3. PICK i \in DOMAIN tx[q].terms :
            a = <<i, tx[q].terms[i].concept, tx[q].terms[i].locale>>
      BY <3>1, <3>2 DEF Tags, OthersTx
    <3> QED BY <3>3, TagFacts
  <2> QED BY <2>1, <2>2 DEF AllTags
<1> QED BY <1>1 DEF OneRowEach

(* The tables are as they should be: the rows were of concepts that are    *)
(* there, the counts are ahead by their evidence, and what was named has   *)
(* its English row.                                                        *)
LEMMA CommitTables ==
    ASSUME StoreParameters, IInv, NEW p \in Process, pc[p] = "commit", Committed(p),
           OneRowEach'
    PROVE  /\ TablesOK' /\ Norm \subseteq DOMAIN named' /\ IsFiniteSet(DOMAIN terms')
<1>0. Own(p) /\ TablesOK /\ OneRowEach /\ KeysBefore(p) = tx[p].keys
  BY DEF IInv, AllOwn, TablesOK, KeysBefore, Nested
<1>1. Norm \subseteq DOMAIN named'
  BY DEF Committed, IInv, ShapeOK
<1>2. IsFiniteSet(DOMAIN terms')
  <2>1. IsFiniteSet(DOMAIN terms \cup DOMAIN tx[p].terms)
    BY <1>0, FS_Union DEF IInv, ShapeOK, Own, PlaceOK
  <2> QED BY <2>1 DEF Committed, AllIds
<1>3. \A i \in DOMAIN terms' : terms'[i].concept \in keys'
  BY <1>0 DEF Committed, AllIds, RowAt, Keys, TablesOK, Own, ConceptsOK
<1>4. /\ DOMAIN tx[p].edges = DOMAIN tx[p].evidence /\ DOMAIN edges = DOMAIN evidence
      /\ \A e \in DOMAIN tx[p].edges :
           /\ tx[p].evidence[e] \in Nat
           /\ tx[p].edges[e] = Rows(edges, e) + tx[p].evidence[e]
      /\ \A e \in DOMAIN edges : edges[e] \in Nat /\ edges[e] = evidence[e]
  BY <1>0 DEF Own, CountsOK, TablesOK, EdgesAreCounted
<1>5. ASSUME NEW e \in DOMAIN edges'
      PROVE  e \in DOMAIN evidence' /\ edges'[e] \in Nat /\ edges'[e] = evidence'[e]
  <2>1. /\ e \in DOMAIN edges \cup DOMAIN tx[p].edges /\ e \in DOMAIN evidence'
        /\ edges'[e] = EdgeIn(p, e)
        /\ evidence'[e] = Rows(evidence, e) + Rows(tx[p].evidence, e)
    BY <1>4, <1>5 DEF Committed
  <2>2. Rows(edges, e) = Rows(evidence, e) /\ Rows(edges, e) \in Nat
    BY <1>4 DEF Rows
  <2>3. CASE e \in DOMAIN tx[p].edges
    <3>1. edges'[e] = Rows(edges, e) + tx[p].evidence[e] /\ tx[p].evidence[e] \in Nat
      BY <1>4, <2>1, <2>3 DEF EdgeIn
    <3>2. Rows(tx[p].evidence, e) = tx[p].evidence[e]
      BY <1>4, <2>3 DEF Rows
    <3> QED BY <2>1, <2>2, <3>1, <3>2
  <2>4. CASE e \notin DOMAIN tx[p].edges
    <3>1. edges'[e] = Rows(edges, e)
      BY <2>1, <2>4 DEF EdgeIn, Rows
    <3>2. Rows(tx[p].evidence, e) = 0
      BY <1>4, <2>4 DEF Rows
    <3> QED BY <2>1, <2>2, <3>1, <3>2
  <2> QED BY <2>3, <2>4
<1>6. EdgesAreCounted'
  BY <1>4, <1>5 DEF EdgesAreCounted, Committed
<1>7. NamedInEnglish'
  <2> SUFFICES ASSUME NEW n \in Norm, named'[n] # None
               PROVE  named'[n] \in keys' /\ Preferred(Tables, named[n], "en")' # {}
    BY DEF NamedInEnglish
  <2>1. PICK c : c = named'[n]
    OBVIOUS
  <2>2. c \in keys' /\ \E i \in DOMAIN terms' : terms'[i].concept = c /\ terms'[i].locale = "en"
    <3>1. CASE p \in Writer /\ n \in DOMAIN at[p].resolved /\ c = at[p].resolved[n]
      <4>1. c \in Keys(p) /\ c \in English(p)
        BY <1>0, <3>1 DEF Own, ResolvedOK, Keys
      <4> QED BY <4>1 DEF English, Committed
    <3>2. CASE c = named[n]
      <4>1. c \in keys /\ Preferred(Tables, c, "en") # {}
        BY <1>0, <2>1, <3>2 DEF TablesOK, NamedInEnglish
      <4>2. PICK i \in DOMAIN terms : terms[i].concept = c /\ terms[i].locale = "en"
        BY <4>1 DEF Preferred, Tables
      <4> QED BY <1>0, <4>1, <4>2, TagsStored DEF Committed, Keys
    <3> QED BY <2>1, <3>1, <3>2, <1>1 DEF Committed
  <2> QED BY <2>1, <2>2 DEF Preferred, Tables
<1> QED BY <1>1, <1>2, <1>3, <1>5, <1>6, <1>7 DEF TablesOK

(* What a commit of another leaves of a process.                           *)
LEMMA CommitKeeps ==
    ASSUME StoreParameters, IInv, NEW p \in Process, Committed(p), Frame(p), TablesOK',
           pc[p] = "commit", NEW q \in Process \ {p}
    PROVE  Own(q)' /\ StoredClearOK(q)'
<1>0. Own(q) /\ Own(p) /\ OneRowEach /\ TablesOK
  BY DEF IInv, AllOwn, TablesOK
<1>1. tx'[q] = tx[q] /\ at'[q] = at[q] /\ pc'[q] = pc[q]
  BY DEF Frame, OthersTx, LocalIs, PcIs
<1>2. /\ keys \subseteq keys' /\ DOMAIN terms \subseteq DOMAIN terms'
      /\ DOMAIN edges \subseteq DOMAIN edges'
  BY DEF Committed, Keys, AllIds
<1>3. \A i \in DOMAIN terms :
        terms'[i].concept = terms[i].concept /\ terms'[i].locale = terms[i].locale
  BY <1>0, TagsStored
<1>4. /\ KeysBefore(q)' = KeysBefore(q) /\ Keys(q) \subseteq Keys(q)'
      /\ AllIds(q) \subseteq AllIds(q)' /\ (Nested(q)' <=> Nested(q))
  BY <1>1, <1>2 DEF KeysBefore, Nested, Keys, AllIds
<1>5. Base(q).keys \subseteq Base(q)'.keys /\ BaseOK(q)'
  <2>1. CASE tx[q].snap = None
    <3>1. Base(q) = Tables /\ Base(q)' = Tables'
      BY <1>1, <2>1 DEF Base
    <3> QED BY <1>2, <3>1 DEF Tables, BaseOK, TablesOK
  <2>2. CASE tx[q].snap # None
    <3>1. Base(q)' = Base(q)
      BY <1>1, <2>2 DEF Base
    <3> QED BY <1>0, <1>2, <1>3, <3>1 DEF BaseOK, Own
  <2> QED BY <2>1, <2>2
<1>6. ASSUME NEW i \in AllIds(q)
      PROVE  /\ RowAt(q, i)'.concept = RowAt(q, i).concept
             /\ RowAt(q, i)'.locale = RowAt(q, i).locale
  <2>1. CASE i \in DOMAIN tx[q].terms
    BY <1>1, <2>1 DEF RowAt
  <2>2. CASE i \notin DOMAIN tx[q].terms
    BY <1>1, <1>3, <1>6, <2>2 DEF RowAt, AllIds
  <2> QED BY <2>1, <2>2
<1>7. English(q) \subseteq English(q)'
  <2> SUFFICES ASSUME NEW c \in English(q) PROVE c \in English(q)'
    OBVIOUS
  <2>1. PICK i \in AllIds(q) : RowAt(q, i).locale = "en" /\ c = RowAt(q, i).concept
    BY DEF English
  <2> QED BY <1>4, <1>6, <2>1 DEF English
<1>8. /\ label(q)' = label(q) /\ norm(q)' = norm(q) /\ locale(q)' = locale(q)
      /\ edgeOf(q)' = edgeOf(q) /\ Place(q)' = Place(q)
  BY <1>1 DEF label, norm, locale, edgeOf, Place
<1>9. PlaceOK(q)'
  BY <1>0, <1>1, <1>8 DEF Own, PlaceOK
<1>10. SaveOK(q)' /\ ConceptsOK(q)'
  BY <1>0, <1>1, <1>2, <1>4 DEF Own, SaveOK, ConceptsOK
<1>11. SeenOK(q)'
  BY <1>0, <1>1, <1>4, <1>5, <1>8 DEF Own, SeenOK
<1>12. ResolvedOK(q)'
  BY <1>0, <1>1, <1>2, <1>4, <1>7 DEF Own, ResolvedOK
<1>13. ConceptOK(q)'
  <2>1. pc'[q] \in Attaching \cup {"lockConcept"} => at'[q].concept \in Keys(q)'
    BY <1>0, <1>1, <1>4 DEF Own, ConceptOK
  <2>2. q \in Writer /\ pc'[q] \in Attaching /\ ~at'[q].recovering =>
          at'[q].concept \in Base(q)'.keys \cup tx'[q].keys
    BY <1>0, <1>1, <1>5 DEF Own, ConceptOK
  <2>3. pc'[q] = "create" => at'[q].concept = label(q)'
    BY <1>0, <1>1, <1>8 DEF Own, ConceptOK
  <2>4. pc'[q] = "enrich" =>
          /\ at'[q].id \in AllIds(q)'
          /\ RowAt(q, at[q].id)'.concept = at'[q].concept
          /\ RowAt(q, at[q].id)'.locale = "en"
    <3> SUFFICES ASSUME pc[q] = "enrich"
                 PROVE  /\ at'[q].id \in AllIds(q)'
                        /\ RowAt(q, at[q].id)'.concept = at'[q].concept
                        /\ RowAt(q, at[q].id)'.locale = "en"
      BY <1>1
    <3>1. PICK i : i = at[q].id
      OBVIOUS
    <3>2. i \in AllIds(q) /\ RowAt(q, i).concept = at[q].concept /\ RowAt(q, i).locale = "en"
      BY <1>0, <3>1 DEF Own, ConceptOK
    <3>3. i \in AllIds(q)' /\ RowAt(q, i)'.concept = at[q].concept
          /\ RowAt(q, i)'.locale = "en"
      BY <1>4, <1>6, <3>2
    <3> QED BY <1>1, <3>1, <3>3 DEF RowAt
  <2>5. pc'[q] = "rename" =>
         /\ at'[q].id \in DOMAIN tx'[q].terms
         /\ tx'[q].terms[at'[q].id].concept = at'[q].concept
         /\ tx'[q].terms[at'[q].id].locale = locale(q)'
    BY <1>0, <1>1, <1>8 DEF Own, ConceptOK
  <2>6. pc'[q] = "lockConcept" => at'[q].concept \in English(q)'
    BY <1>0, <1>1, <1>7 DEF Own, ConceptOK
  <2>7. pc'[q] = "recover" =>
         \/ label(q)' \in Keys(q)'
         \/ \E i \in AllIds(q)' : /\ Lock("X", Row(i)) \in tx'[q].locks
                                  /\ RowAt(q, i)'.norm = label(q)'
                                  /\ RowAt(q, i)'.locale = "en"
    <3> SUFFICES ASSUME pc[q] = "recover", NEW i \in AllIds(q),
                        Lock("X", Row(i)) \in tx[q].locks,
                        RowAt(q, i).norm = label(q), RowAt(q, i).locale = "en"
                 PROVE  RowAt(q, i)' = RowAt(q, i)
      BY <1>0, <1>1, <1>4, <1>8 DEF Own, ConceptOK
    <3>1. CASE i \in DOMAIN tx[q].terms
      BY <1>1, <3>1 DEF RowAt
    <3>2. CASE i \notin DOMAIN tx[q].terms
      <4>1. Lock("X", Row(i)).mode = "X"
        BY LockFacts
      <4>2. Lock("X", Row(i)) \notin tx[p].locks
        BY <4>1 DEF IInv, Exclusive, ExclusiveOK
      <4>3. i \notin DOMAIN tx[p].terms
        BY <1>0, <4>2 DEF Own, LocksOK
      <4>4. i \in DOMAIN terms /\ RowAt(q, i) = terms[i]
        BY <3>2 DEF AllIds, RowAt
      <4>5. terms'[i] = terms[i]
        BY <4>3, <4>4 DEF Committed, AllIds, RowAt
      <4> QED BY <1>1, <3>2, <4>4, <4>5 DEF RowAt
    <3> QED BY <3>1, <3>2
  <2>8. pc'[q] = "recoverKey" => label(q)' \in Keys(q)'
    BY <1>0, <1>1, <1>4, <1>8 DEF Own, ConceptOK
  <2>9. pc'[q] = "bump" => edgeOf(q)' \in DOMAIN edges' \cup DOMAIN tx'[q].edges
    BY <1>0, <1>1, <1>2, <1>8 DEF Own, ConceptOK
  <2> QED BY <2>1, <2>2, <2>3, <2>4, <2>5, <2>6, <2>7, <2>8, <2>9 DEF ConceptOK
<1>14. GapsOK(q)' /\ LocksOK(q)'
  BY <1>0, <1>1, <1>8 DEF Own, GapsOK, LocksOK
<1>15. CountsOK(q)'
  <2>1. ASSUME NEW e \in DOMAIN tx[q].edges PROVE Rows(edges', e) = Rows(edges, e)
    <3>1. Lock("X", Edge(e)) \in tx[q].locks /\ Lock("X", Edge(e)).mode = "X"
      BY <1>0, LockFacts DEF Own, LocksOK
    <3>2. Lock("X", Edge(e)) \notin tx[p].locks
      BY <3>1 DEF IInv, Exclusive, ExclusiveOK
    <3>3. e \notin DOMAIN tx[p].edges
      BY <1>0, <3>2 DEF Own, LocksOK
    <3> QED BY <3>3 DEF Rows, Committed, EdgeIn
  <2> QED BY <1>0, <1>1, <2>1 DEF Own, CountsOK
<1>16. StoredClearOK(q)'
  <2> SUFFICES ASSUME NEW i \in DOMAIN terms'
               PROVE  /\ GapOfSurface(terms'[i]) \in tx[q].locks => i \in DOMAIN tx[q].terms
                      /\ GapOfConcept(terms'[i]) \notin tx[q].locks
    BY <1>1 DEF StoredClearOK, GapOfSurface, GapOfConcept
  <2>1. i \in AllIds(p) /\ terms'[i] = RowAt(p, i)
    BY DEF Committed
  <2>2. CASE i \in DOMAIN tx[p].terms
    BY <2>1, <2>2, ClearFacts DEF IInv, RowAt
  <2>3. CASE i \notin DOMAIN tx[p].terms
    <3>1. i \in DOMAIN terms /\ terms'[i] = terms[i]
      BY <2>1, <2>3 DEF AllIds, RowAt
    <3>2. StoredClearOK(q)
      BY DEF IInv, Clear
    <3> QED BY <3>1, <3>2 DEF StoredClearOK, GapOfSurface, GapOfConcept
  <2> QED BY <2>2, <2>3
<1> QED BY <1>5, <1>9, <1>10, <1>11, <1>12, <1>13, <1>14, <1>15, <1>16 DEF Own

(* A commit.                                                               *)
LEMMA CommitStep ==
    ASSUME StoreParameters, IInv, NEW p \in Process, Commit(p)
    PROVE  IInv'
<1>1. pc[p] = "commit" /\ Frame(p) /\ tx'[p] = NoTx /\ pc'[p] = "idle" /\ Committed(p)
  BY CommitFacts DEF IInv
<1>2. OneRowEach'
  BY <1>1, CommitOneRow DEF IInv, TablesOK, Frame
<1>3. TablesOK' /\ Norm \subseteq DOMAIN named' /\ IsFiniteSet(DOMAIN terms')
  BY <1>1, <1>2, CommitTables
<1>4. ShapeOK'
  BY <1>1, <1>3 DEF ShapeOK, Frame, OthersTx, LocalIs, PcIs
<1>5. \A q \in Process \ {p} : Own(q)' /\ StoredClearOK(q)'
  BY <1>1, <1>3, CommitKeeps
<1>6. Own(p)'
  <2>1. Base(p)' = Tables'
    BY <1>1, NoTxFields DEF Base
  <2>2. BaseOK(p)'
    BY <1>3, <2>1 DEF BaseOK, Tables, TablesOK
  <2>3. PlaceOK(p)'
    BY <1>1, NoTxFields, FS_EmptySet DEF PlaceOK, Place, Naming
  <2>4. ConceptsOK(p)' /\ SeenOK(p)' /\ LocksOK(p)' /\ CountsOK(p)' /\ GapsOK(p)'
    BY <1>1, NoTxFields DEF ConceptsOK, SeenOK, LocksOK, CountsOK, GapsOK
  <2>5. SaveOK(p)' /\ ResolvedOK(p)' /\ ConceptOK(p)'
    BY <1>1 DEF SaveOK, Nested, ResolvedOK, ConceptOK, Attaching
  <2> QED BY <2>2, <2>3, <2>4, <2>5 DEF Own
<1>7. AllOwn'
  BY <1>5, <1>6 DEF AllOwn
<1>8. Exclusive' /\ Clear'
  BY <1>1, <1>5, EndedClear DEF IInv, Frame
<1> QED BY <1>3, <1>4, <1>7, <1>8 DEF IInv

(* The tables that there were before.                                      *)
LEMMA InitialTables ==
    ASSUME Init
    PROVE  /\ IsFiniteSet(DOMAIN terms)
           /\ \A i \in DOMAIN terms : terms[i].concept \in keys
           /\ \A i, j \in DOMAIN terms :
                i = j <=> terms[i].concept = terms[j].concept
                          /\ terms[i].locale = terms[j].locale
           /\ \A e \in DOMAIN edges : edges[e] \in Nat
<1>1. ASSUME terms = Empty
      PROVE  /\ DOMAIN terms = {} /\ IsFiniteSet(DOMAIN terms)
  BY <1>1, FS_EmptySet DEF Empty
<1>2. ASSUME NEW a, terms = <<a>>
      PROVE  DOMAIN terms = {1} /\ IsFiniteSet(DOMAIN terms) /\ terms[1] = a
  <2>1. DOMAIN terms = {1} /\ terms[1] = a
    BY <1>2
  <2> QED BY <2>1, FS_Singleton
<1>3. ASSUME NEW a, NEW b, terms = <<a, b>>
      PROVE  /\ DOMAIN terms = {1, 2} /\ IsFiniteSet(DOMAIN terms)
             /\ terms[1] = a /\ terms[2] = b
  <2>1. DOMAIN terms = {1, 2} /\ terms[1] = a /\ terms[2] = b
    BY <1>3
  <2>2. IsFiniteSet({1, 2})
    <3>1. {1, 2} = {1} \cup {2}
      OBVIOUS
    <3>2. IsFiniteSet({1}) /\ IsFiniteSet({2})
      BY FS_Singleton
    <3> QED BY <3>1, <3>2, FS_Union
  <2> QED BY <2>1, <2>2
<1>4. \A c, l, n, t : /\ InitialRow(c, l, n, t).concept = c
                      /\ InitialRow(c, l, n, t).locale = l
  <2> SUFFICES ASSUME NEW c, NEW l, NEW n, NEW t
               PROVE  LET row == InitialRow(c, l, n, t) IN row.concept = c /\ row.locale = l
    OBVIOUS
  <2> QED BY TermRowFacts DEF InitialRow
<1>e. edges = Empty => DOMAIN edges = {}
  BY DEF Empty
<1>5. CASE keys = {} /\ terms = Empty /\ edges = Empty
  BY <1>1, <1>5, <1>e
<1>6. ASSUME NEW c \in Norm, NEW t \in {None, Given}, keys = {c}, edges = Empty,
             terms \in {Empty, <<InitialRow(c, "en", c, t)>>}
               \cup {<<InitialRow(c, "en", c, t), InitialRow(c, "es", n, None)>> : n \in Norm}
      PROVE  /\ IsFiniteSet(DOMAIN terms)
             /\ \A i \in DOMAIN terms : terms[i].concept \in keys
             /\ \A i, j \in DOMAIN terms :
                  i = j <=> terms[i].concept = terms[j].concept
                            /\ terms[i].locale = terms[j].locale
             /\ \A e \in DOMAIN edges : edges[e] \in Nat
  <2>1. CASE terms = Empty
    BY <1>1, <1>6, <1>e, <2>1
  <2>2. CASE terms = <<InitialRow(c, "en", c, t)>>
    BY <1>2, <1>4, <1>6, <1>e, <2>2
  <2>3. CASE \E n \in Norm : terms = <<InitialRow(c, "en", c, t), InitialRow(c, "es", n, None)>>
    BY <1>3, <1>4, <1>6, <1>e, <2>3
  <2> QED BY <1>6, <2>1, <2>2, <2>3
<1>7. ASSUME NEW c \in Norm, NEW d \in Norm \ {c}, keys = {c, d},
             edges \in {Empty, Only(<<c, d>>, 1)},
             terms = <<InitialRow(c, "en", c, Given), InitialRow(d, "en", d, Given)>>
      PROVE  /\ IsFiniteSet(DOMAIN terms)
             /\ \A i \in DOMAIN terms : terms[i].concept \in keys
             /\ \A i, j \in DOMAIN terms :
                  i = j <=> terms[i].concept = terms[j].concept
                            /\ terms[i].locale = terms[j].locale
             /\ \A e \in DOMAIN edges : edges[e] \in Nat
  <2>1. \A e \in DOMAIN edges : edges[e] \in Nat
    BY <1>7, <1>e DEF Only
  <2> QED BY <1>3, <1>4, <1>7, <2>1
<1> QED BY <1>5, <1>6, <1>7 DEF Init

(* The invariant holds at first.                                           *)
LEMMA InitIInv == ASSUME StoreParameters, Init PROVE IInv
<1>1. /\ evidence = edges /\ tx = [p \in Process |-> NoTx]
      /\ pc = [p \in Process |-> "idle"] /\ at = [p \in Process |-> Idle]
      /\ named = [n \in Norm |-> None]
  BY DEF Init
<1>2. \A p \in Process : tx[p] = NoTx /\ pc[p] = "idle"
  BY <1>1
<1>3. ShapeOK
  BY <1>1, InitialTables DEF ShapeOK
<1>4. TablesOK
  <2>1. OneRowEach
    <3> SUFFICES ASSUME NEW a \in AllTags, NEW b \in AllTags
                 PROVE  a[1] = b[1] <=> (a[2] = b[2] /\ a[3] = b[3])
      BY DEF OneRowEach
    <3>1. \A q \in Process : DOMAIN tx[q].terms = {}
      BY <1>2, NoTxFields
    <3>2. PICK i \in DOMAIN terms : a = <<i, terms[i].concept, terms[i].locale>>
      BY <3>1, TagFacts
    <3>3. PICK j \in DOMAIN terms : b = <<j, terms[j].concept, terms[j].locale>>
      BY <3>1, TagFacts
    <3> QED BY <3>2, <3>3, InitialTables
  <2>2. NamedInEnglish /\ EdgesAreCounted
    BY <1>1 DEF NamedInEnglish, EdgesAreCounted
  <2> QED BY <2>1, <2>2, InitialTables DEF TablesOK
<1>5. AllOwn
  <2> SUFFICES ASSUME NEW p \in Process PROVE Own(p)
    BY DEF AllOwn
  <2>1. tx[p] = NoTx /\ pc[p] = "idle"
    BY <1>2
  <2>2. BaseOK(p)
    <3>1. Base(p) = Tables
      BY <2>1, NoTxFields DEF Base
    <3> QED BY <1>4, <3>1 DEF BaseOK, Tables, TablesOK
  <2>3. PlaceOK(p)
    BY <2>1, NoTxFields, FS_EmptySet DEF PlaceOK, Place, Naming
  <2>4. ConceptsOK(p) /\ SeenOK(p) /\ LocksOK(p) /\ CountsOK(p) /\ GapsOK(p)
    BY <2>1, NoTxFields DEF ConceptsOK, SeenOK, LocksOK, CountsOK, GapsOK
  <2>5. SaveOK(p) /\ ResolvedOK(p) /\ ConceptOK(p)
    BY <2>1 DEF SaveOK, Nested, ResolvedOK, ConceptOK, Attaching
  <2> QED BY <2>2, <2>3, <2>4, <2>5 DEF Own
<1>6. Exclusive /\ Clear
  BY <1>2, NoTxFields DEF Exclusive, ExclusiveOK, Clear, ClearOK, StoredClearOK
<1> QED BY <1>3, <1>4, <1>5, <1>6 DEF IInv

(* It is inductive.                                                        *)
LEMMA NextIInv == ASSUME StoreParameters, IInv, [Next]_vars PROVE IInv'
<1>1. ASSUME NEW w \in Writer, StoreStep(w) PROVE IInv'
  BY <1>1, StartStep, FindStep, EnrichStep, CreateStep, RecoverStep, RecoverKeyStep,
     LockConceptStep, InsertEdgeStep, CountEdgeStep DEF StoreStep
<1>2. ASSUME NEW p \in Localizer, NEW c \in Norm, NEW n \in Norm, Localize(p, c, n)
      PROVE  IInv'
  BY <1>2, LocalizeStep
<1>3. ASSUME NEW p \in Process,
             \/ LookUp(p) \/ LockPreferred(p) \/ Rename(p) \/ Insert(p)
             \/ Commit(p) \/ Deadlock(p)
      PROVE  IInv'
  BY <1>3, LookUpStep, LockPreferredStep, RenameStep, InsertStep, CommitStep, DeadlockStep
<1>4. CASE UNCHANGED vars
  <2>1. /\ keys' = keys /\ terms' = terms /\ edges' = edges /\ evidence' = evidence
        /\ tx' = tx /\ pc' = pc /\ at' = at /\ named' = named
    BY <1>4 DEF vars
  <2>2. ShapeOK'
    BY <2>1 DEF IInv, ShapeOK
  <2>3. TablesOK'
    <3>1. OneRowEach' /\ EdgesAreCounted'
      BY <2>1 DEF IInv, TablesOK, OneRowEach, AllTags, Tags, EdgesAreCounted
    <3>2. NamedInEnglish'
      BY <2>1 DEF IInv, TablesOK, NamedInEnglish, Preferred, Tables
    <3> QED BY <2>1, <3>1, <3>2 DEF IInv, TablesOK
  <2>4. AllOwn'
    <3> SUFFICES ASSUME NEW p \in Process PROVE Own(p)'
      BY DEF AllOwn
    <3> USE <2>1
    <3>0. /\ Own(p) /\ Base(p)' = Base(p) /\ English(p)' = English(p)
          /\ Keys(p)' = Keys(p) /\ KeysBefore(p)' = KeysBefore(p) /\ AllIds(p)' = AllIds(p)
      BY DEF IInv, AllOwn, Base, Tables, English, Keys, KeysBefore, Nested, AllIds, RowAt
    <3>1. PlaceOK(p)' /\ SaveOK(p)' /\ LocksOK(p)'
      BY <3>0 DEF Own, PlaceOK, SaveOK, Nested, LocksOK
    <3>2. BaseOK(p)' /\ ConceptsOK(p)' /\ ResolvedOK(p)'
      BY <3>0 DEF Own, BaseOK, ConceptsOK, ResolvedOK
    <3>3. SeenOK(p)'
      BY <3>0 DEF Own, SeenOK, label
    <3>4. ConceptOK(p)'
      BY <3>0 DEF Own, ConceptOK, RowAt, label, locale, edgeOf
    <3>5. GapsOK(p)'
      BY <3>0 DEF Own, GapsOK, label, locale, norm
    <3>6. CountsOK(p)'
      BY <3>0 DEF Own, CountsOK, Rows
    <3> QED BY <3>1, <3>2, <3>3, <3>4, <3>5, <3>6 DEF Own
  <2>5. Exclusive' /\ Clear'
    BY <2>1 DEF IInv, Exclusive, ExclusiveOK, Clear, ClearOK, StoredClearOK
  <2> QED BY <2>2, <2>3, <2>4, <2>5 DEF IInv
<1> QED BY <1>1, <1>2, <1>3, <1>4 DEF Next

(* It says more than what was to be shown.                                 *)
LEMMA IInvSound == ASSUME StoreParameters, IInv PROVE StoreIsSound
<1>1. OnePreferred
  <2> SUFFICES ASSUME NEW i \in DOMAIN terms, NEW j \in DOMAIN terms,
                      terms[i].concept = terms[j].concept, terms[i].locale = terms[j].locale
               PROVE  i = j
    BY DEF OnePreferred
  <2>1. /\ <<i, terms[i].concept, terms[i].locale>> \in AllTags
        /\ <<j, terms[j].concept, terms[j].locale>> \in AllTags
    BY TagFacts
  <2> QED BY <2>1 DEF IInv, TablesOK, OneRowEach
<1>2. NobodyFails
  BY DEF NobodyFails, IInv, AllOwn, Own, PlaceOK, Place, Naming
<1> QED BY <1>1, <1>2 DEF StoreIsSound, IInv, TablesOK

(* However many writers and localizers there are: a concept has one        *)
(* preferred term in a language, each sighting of an edge is counted once  *)
(* and has its evidence, nobody fails to find what another has stored, and *)
(* the concept that a label was stored for is there, with an English term  *)
(* (ConceptGraphStore, ConceptCanonicalizer).                              *)
THEOREM StoreSound == StoreParameters => (Spec => []StoreIsSound)
<1> SUFFICES ASSUME StoreParameters PROVE Spec => []StoreIsSound
  OBVIOUS
<1>1. Init => IInv
  BY InitIInv
<1>2. IInv /\ [Next]_vars => IInv'
  BY NextIInv
<1>3. IInv => StoreIsSound
  BY IInvSound
<1> QED BY <1>1, <1>2, <1>3, PTL DEF Spec
=============================================================================
