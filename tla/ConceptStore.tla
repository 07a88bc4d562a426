---------------------------- MODULE ConceptStore ----------------------------
(***************************************************************************)
(* How graphs and translations come into the tables of concepts, terms and *)
(* relationships (ConceptGraphStore, ConceptCanonicalizer), while several  *)
(* jobs write them at once.  A graph is stored in one transaction, which   *)
(* finds or creates a concept for each label and then counts its edges;    *)
(* a translation is attached in a transaction of its own.                  *)
(*                                                                         *)
(* The database is MySQL (InnoDB, REPEATABLE READ).  A plain read sees the *)
(* snapshot of the transaction's first one, a locking read what is         *)
(* committed.  What is locked: rows, and gaps where a row was looked for   *)
(* and not found, against inserts into them.  Each key has a gap of its    *)
(* own here.  A statement that would wait in a cycle is a deadlock, and    *)
(* one transaction of the cycle is undone.                                 *)
(*                                                                         *)
(* A concept is its canonical key, the normalised label it was created     *)
(* for.  A term's text stands for description, wiki and media, which are   *)
(* filled in once: it is the process that wrote it.  Its grade is the      *)
(* complexity, which is overwritten.  All terms are preferred: the code    *)
(* creates no others.                                                      *)
(***************************************************************************)
EXTENDS Integers, Sequences, FiniteSets, SequencesExt

CONSTANTS
    Norm,        \* normalised labels
    Writer,      \* jobs that store graphs
    Localizer,   \* jobs that attach translations
    Graphs,      \* [labels, edges, grade]: sequences of labels and of pairs of
                 \* them, and their complexity
    Given,       \* text of a term that was there before
    Grade,       \* and its complexity
    MaxGraphs,   \* bound: graphs that a writer stores
    MaxWords,    \* bound: translations that a localizer attaches
    None

VARIABLES
    keys,        \* concepts
    terms,       \* [id -> row] of concept_terms
    edges,       \* [pair -> llm_occurrences]
    evidence,    \* [pair -> number of rows of evidence]
    tx,          \* [Process -> open transaction]
    pc,
    at,          \* [Process -> local variables]
    rounds,      \* [Process -> what it has finished]
    named        \* [Norm -> concept that the last graph with it found] (history)

vars == <<keys, terms, edges, evidence, tx, pc, at, rounds, named>>

Process == Writer \cup Localizer

(* What the code gives: the labels of a graph are normalised ones, each    *)
(* there once (mergeGraphs(), limitNewConcepts()); a graph without labels  *)
(* has nothing to store.                                                   *)
StoreParameters ==
    /\ IsFiniteSet(Process) /\ Writer \cap Localizer = {}
    /\ \A g \in Graphs :
         /\ g.labels \in Seq(Norm) /\ g.labels # <<>>
         /\ \A i, j \in DOMAIN g.labels : g.labels[i] = g.labels[j] => i = j

(* A table or a record with other entries in it.                           *)
Updated(f, new) ==
    [x \in DOMAIN f \cup DOMAIN new |-> IF x \in DOMAIN new THEN new[x] ELSE f[x]]
Only(x, value) == [y \in {x} |-> value]
Put(f, x, value) == Updated(f, Only(x, value))

-----------------------------------------------------------------------------
(* Transactions (external).                                                *)

Empty == <<>>
NoTx == [snap |-> None, keys |-> {}, terms |-> Empty, edges |-> Empty,
         evidence |-> Empty, locks |-> {}]
Tables == [keys |-> keys, terms |-> terms, edges |-> edges]

(* What a process sees: by locking reads, and by plain ones.               *)
Over(base, t) == [keys |-> base.keys \cup t.keys,
                  terms |-> Updated(base.terms, t.terms),
                  edges |-> Updated(base.edges, t.edges)]
Current(p) == Over(Tables, tx[p])
View(p) == Over(IF tx[p].snap = None THEN Tables ELSE tx[p].snap, tx[p])

(* Rows of a table state with this locale and label, or of this concept.   *)
Surface(db, l, n) == {i \in DOMAIN db.terms : db.terms[i].locale = l
                                              /\ db.terms[i].norm = n}
Preferred(db, c, l) == {i \in DOMAIN db.terms : db.terms[i].locale = l
                                                /\ db.terms[i].concept = c}

(* Rows whose entry a locking read or a duplicate check meets: committed   *)
(* ones, also those that another is about to rename, and others' own.      *)
Versions == {Tables} \cup {[Tables EXCEPT !.terms = tx[q].terms] : q \in Process}
MetBySurface(l, n) == UNION {Surface(db, l, n) : db \in Versions}
MetByConcept(c, l) == UNION {Preferred(db, c, l) : db \in Versions}
Exists(n) == n \in keys \/ \E q \in Process : n \in tx[q].keys
Linked(e) == e \in DOMAIN edges \/ \E q \in Process : e \in DOMAIN tx[q].edges

Row(i) == <<"row", i>>
Key(n) == <<"key", n>>
Edge(e) == <<"edge", e>>
SurfaceGap(l, n) == <<"surface", l, n>>
PreferredGap(c, l) == <<"preferred", c, l>>

Lock(mode, on) == [mode |-> mode, on |-> on]
Clash(wanted, held) ==
    /\ wanted.on = held.on
    /\ <<wanted.mode, held.mode>> \in {<<"X", "X">>, <<"X", "S">>, <<"S", "X">>,
                                       <<"insert", "gap">>}

-----------------------------------------------------------------------------
(* What the statement of a process at its place locks.                     *)

(* storeGraph() leaves out an edge of a label to itself, and one whose ends *)
(* are not among the labels.                                               *)
kept(g) ==
    SelectSeq(g.edges, LAMBDA e : e[1] # e[2]
                                  /\ {e[1], e[2]} \subseteq ToSet(g.labels))

label(p) == at[p].graph.labels[at[p].i]
norm(p) == IF p \in Writer THEN label(p) ELSE at[p].word
locale(p) == IF p \in Writer THEN "en" ELSE "es"    \* en is the default
edgeOf(p) ==
    LET e == kept(at[p].graph)[at[p].i]
    IN <<at[p].resolved[e[1]], at[p].resolved[e[2]]>>

(* The id of the next term: one that no row has.                           *)
Ids == DOMAIN terms \cup UNION {DOMAIN tx[q].terms : q \in Process}
NewId == CHOOSE i \in 1..Cardinality(Ids) + 1 : i \notin Ids

grade(p) == IF p \in Writer THEN at[p].graph.grade ELSE at[p].grade
Dirty(p, row) == row.text = None \/ row.grade # grade(p)

All(mode, rows) == {Lock(mode, Row(i)) : i \in rows}
Wants(p) ==
    LET l == locale(p)  c == at[p].concept IN
    CASE pc[p] = "enrich" -> IF Dirty(p, at[p].read) THEN All("X", {at[p].id}) ELSE {}
      [] pc[p] = "create" -> {Lock(IF Exists(label(p)) THEN "S" ELSE "X", Key(label(p)))}
      [] pc[p] \in {"lookUp", "recover"} -> All("X", MetBySurface(l, norm(p)))
      [] pc[p] = "preferred" -> All("X", MetByConcept(c, l))
      [] pc[p] = "rename" ->
           All("S", MetBySurface(l, norm(p)) \ {at[p].id})
           \cup {Lock("insert", SurfaceGap(l, norm(p)))}
      [] pc[p] = "insert" ->
           All("S", MetBySurface(l, norm(p)))
           \cup {Lock("insert", SurfaceGap(l, norm(p))),
                 Lock("insert", PreferredGap(c, l)), Lock("S", Key(c)),
                 Lock("X", Row(NewId))}
      [] pc[p] = "recoverKey" ->
           IF Exists(label(p)) THEN {Lock("X", Key(label(p)))} ELSE {}
      [] pc[p] = "lockConcept" -> {Lock("X", Key(c))}
      [] pc[p] = "edge" ->
           {Lock(IF Linked(edgeOf(p)) THEN "S" ELSE "X", Edge(edgeOf(p)))}
           \cup {Lock("S", Key(c2)) : c2 \in {edgeOf(p)[1], edgeOf(p)[2]}}
      [] pc[p] = "bump" -> {Lock("X", Edge(edgeOf(p)))}
      [] OTHER -> {}

WaitsFor(p) == {q \in Process \ {p} :
                  \E a \in Wants(p), b \in tx[q].locks : Clash(a, b)}
Granted(p) == WaitsFor(p) = {}
Taken(p) == {a \in Wants(p) : a.mode # "insert"}

(* Processes that wait, in the end, for themselves.                        *)
Reach[n \in Nat] ==
    [p \in Process |->
        IF n = 0 THEN WaitsFor(p)
        ELSE Reach[n - 1][p] \cup UNION {WaitsFor(q) : q \in Reach[n - 1][p]}]
InCycle(p) == p \in Reach[Cardinality(Process)][p]
-----------------------------------------------------------------------------
Idle == [none |-> None]
TermRow(c, l, n, text, g) ==
    [concept |-> c, locale |-> l, norm |-> n, text |-> text, grade |-> g]
InitialRow(c, l, n, text) == TermRow(c, l, n, text, Grade)

(* Nothing is stored; or one concept, which has no term yet, one, or one   *)
(* in each language; or two that have an edge, or none.                    *)
Init ==
    /\ \/ keys = {} /\ terms = Empty /\ edges = Empty
       \/ \E c \in Norm, text \in {None, Given} :
            /\ keys = {c} /\ edges = Empty
            /\ terms \in {Empty, <<InitialRow(c, "en", c, text)>>}
                 \cup {<<InitialRow(c, "en", c, text),
                         InitialRow(c, "es", n, None)>> : n \in Norm}
       \/ \E c \in Norm : \E d \in Norm \ {c} :
            /\ keys = {c, d} /\ edges \in {Empty, Only(<<c, d>>, 1)}
            /\ terms = <<InitialRow(c, "en", c, Given), InitialRow(d, "en", d, Given)>>
    /\ evidence = edges
    /\ tx = [p \in Process |-> NoTx] /\ pc = [p \in Process |-> "idle"]
    /\ at = [p \in Process |-> Idle] /\ rounds = [p \in Process |-> 0]
    /\ named = [n \in Norm |-> None]

Goto(p, to) == pc' = [pc EXCEPT ![p] = to]
Local(p, new) == at' = [at EXCEPT ![p] = Updated(@, new)]
Sets(p, new) == tx' = [tx EXCEPT ![p] = Updated(@, new)]
Locks(p, more) == [locks |-> tx[p].locks \cup Taken(p) \cup more]
JustLocks(p) == Sets(p, Locks(p, {}))
Gap(p, on) == Sets(p, Locks(p, {Lock("gap", on)}))
Writes(p, new) == Sets(p, Updated(Locks(p, {}), new))
Stored == UNCHANGED <<keys, terms, edges, evidence, rounds, named>>

(* storeGraph() of a graph that is not empty begins with its first label.  *)
Start(w, g) ==
    /\ pc[w] = "idle" /\ rounds[w] < MaxGraphs
    /\ Goto(w, "find")
    /\ at' = [at EXCEPT ![w] = [graph |-> g, i |-> 1, resolved |-> Empty]]
    /\ UNCHANGED tx /\ Stored

(* resolveOrCreate(): a term in this locale, else one in another, whose    *)
(* concept is taken, else a new concept.  The savepoint of the nested      *)
(* transaction is here.                                                    *)
Find(w) ==
    /\ pc[w] = "find"
    /\ LET db == View(w)  n == label(w)
           own == Surface(db, "en", n)  other == Surface(db, "es", n)
           to(new) == Local(w, Updated([recovering |-> FALSE, attempt |-> 0,
                                        save |-> tx[w]], new))
       IN /\ Sets(w, [snap |-> IF tx[w].snap = None THEN Tables ELSE tx[w].snap])
          /\ \/ \E i \in own : /\ Goto(w, "enrich")
                               /\ to([id |-> i, read |-> db.terms[i],
                                      concept |-> db.terms[i].concept])
             \/ /\ own = {}
                /\ \E i \in other : /\ Goto(w, "lookUp")
                                    /\ to([concept |-> db.terms[i].concept])
             \/ /\ own \cup other = {}
                /\ Goto(w, "create") /\ to([concept |-> n])
    /\ Stored

(* The concept of a label is found, and the next label is due, or edges.   *)
Found(w, c) ==
    LET g == at[w].graph  more == at[w].i < Len(g.labels) IN
    /\ Goto(w, IF more THEN "find" ELSE IF kept(g) = <<>> THEN "commit" ELSE "edge")
    /\ at' = [at EXCEPT ![w] =
                [graph |-> g, i |-> IF more THEN @.i + 1 ELSE 1,
                 resolved |-> Put(@.resolved, label(w), c)]]

(* firstOrFail() by a plain read.                                          *)
FoundIfSeen(w, c) ==
    IF c \in View(w).keys THEN Found(w, c) ELSE Goto(w, "failed") /\ UNCHANGED at

(* enrichTerm(): fills what was empty when it was read; the grade is new.  *)
Enriched(p, read, row) ==
    TermRow(row.concept, row.locale, row.norm,
            IF read.text = None THEN p ELSE row.text,
            IF read.grade # grade(p) THEN grade(p) ELSE row.grade)
WritesRow(p, i, row) == Writes(p, [terms |-> Put(tx[p].terms, i, row)])
EnrichesLocked(p, i) ==
    LET row == Current(p).terms[i] IN WritesRow(p, i, Enriched(p, row, row))

Enrich(w) ==
    /\ pc[w] = "enrich" /\ Granted(w)
    /\ LET i == at[w].id IN
       IF Dirty(w, at[w].read)
       THEN WritesRow(w, i, Enriched(w, at[w].read, Current(w).terms[i]))
       ELSE UNCHANGED tx
    /\ FoundIfSeen(w, at[w].concept)
    /\ Stored

(* A new concept; a duplicate key undoes nothing, and is recovered from.   *)
Create(w) ==
    /\ pc[w] = "create" /\ Granted(w)
    /\ IF label(w) \in Current(w).keys
       THEN JustLocks(w) /\ Goto(w, "recover")
       ELSE /\ Writes(w, [keys |-> tx[w].keys \cup {label(w)}])
            /\ Goto(w, "lookUp")
    /\ UNCHANGED at /\ Stored

(* attachPreferredTerm() ends for the process that called it.              *)
Attached(p) ==
    IF p \in Localizer THEN Goto(p, "commit") /\ UNCHANGED at
    ELSE IF at[p].recovering THEN Found(p, at[p].concept)
    ELSE FoundIfSeen(p, at[p].concept)

(* The label is another concept's.  A translation is given up; a new       *)
(* concept is undone to its savepoint, which keeps the locks on what is    *)
(* still there; in the recovery the owner is taken.                        *)
Undone(w) ==
    LET old == at[w].save
        gone == {Key(n) : n \in tx[w].keys \ old.keys}
                \cup {Row(i) : i \in DOMAIN tx[w].terms \ (DOMAIN old.terms \cup DOMAIN terms)}
    IN Sets(w, [keys |-> old.keys, terms |-> old.terms,
                locks |-> {a \in tx[w].locks \cup Taken(w) : a.on \notin gone}])
OwnedByOther(p, i) ==
    CASE p \in Localizer -> JustLocks(p) /\ Goto(p, "commit") /\ UNCHANGED at
      [] p \in Writer /\ ~at[p].recovering ->
           Undone(p) /\ Goto(p, "recover") /\ UNCHANGED at
      [] OTHER -> /\ EnrichesLocked(p, i) /\ Goto(p, "lockConcept")
                  /\ Local(p, [concept |-> Current(p).terms[i].concept])

(* attachPreferredTerm(): the label, by a locking read, and whose it is    *)
(* (resolveOwnedTerm()).                                                   *)
LookUp(p) ==
    /\ pc[p] = "lookUp" /\ Granted(p)
    /\ LET l == locale(p)  n == norm(p)  rows == Surface(Current(p), l, n) IN
       \/ /\ rows = {}
          /\ Gap(p, SurfaceGap(l, n)) /\ Goto(p, "preferred") /\ UNCHANGED at
       \/ \E i \in rows :
            IF Current(p).terms[i].concept = at[p].concept
            THEN EnrichesLocked(p, i) /\ Attached(p)
            ELSE OwnedByOther(p, i)
    /\ Stored

(* The preferred term that the concept has in this locale gives way to the *)
(* label; else there will be a new one.                                    *)
LockPreferred(p) ==
    /\ pc[p] = "preferred" /\ Granted(p)
    /\ LET c == at[p].concept  l == locale(p)  rows == Preferred(Current(p), c, l) IN
       \/ /\ rows = {}
          /\ Gap(p, PreferredGap(c, l)) /\ Goto(p, "insert") /\ UNCHANGED at
       \/ \E i \in rows : /\ EnrichesLocked(p, i) /\ Goto(p, "rename")
                          /\ Local(p, [id |-> i])
    /\ Stored

(* A duplicate is looked up again (resolveUniqueConflict()); the gap that  *)
(* LookUp has locked leaves no room for one.                               *)
SavesTerm(p, i, row) ==
    /\ Granted(p)
    /\ IF Surface(Current(p), locale(p), norm(p)) # {}
       THEN JustLocks(p) /\ Goto(p, "lookUp") /\ UNCHANGED at
       ELSE WritesRow(p, i, row) /\ Attached(p)
    /\ Stored

Rename(p) ==
    /\ pc[p] = "rename"
    /\ LET row == Current(p).terms[at[p].id] IN
       SavesTerm(p, at[p].id, TermRow(row.concept, row.locale, norm(p), row.text, row.grade))

Insert(p) ==
    /\ pc[p] = "insert"
    /\ SavesTerm(p, NewId, TermRow(at[p].concept, locale(p), norm(p), p, grade(p)))

(* recoverFromUniqueRace(): by locking reads, the term that another has    *)
(* stored meanwhile, or else its concept, to which the label is attached.  *)
Recover(w) ==
    /\ pc[w] = "recover" /\ Granted(w)
    /\ LET n == label(w)  rows == Surface(Current(w), "en", n) IN
       \/ /\ rows = {}
          /\ Gap(w, SurfaceGap("en", n)) /\ Goto(w, "recoverKey") /\ UNCHANGED at
       \/ \E i \in rows : /\ EnrichesLocked(w, i) /\ Goto(w, "lockConcept")
                          /\ Local(w, [concept |-> Current(w).terms[i].concept])
    /\ Stored

RecoverKey(w) ==
    /\ pc[w] = "recoverKey" /\ Granted(w)
    /\ JustLocks(w)
    /\ IF label(w) \in Current(w).keys
       THEN Goto(w, "lookUp") /\ Local(w, [concept |-> label(w), recovering |-> TRUE])
       ELSE /\ Goto(w, IF at[w].attempt < 3 THEN "recover" ELSE "failed")
            /\ Local(w, [attempt |-> at[w].attempt + 1])
    /\ Stored

(* lockedConceptForTerm()                                                  *)
LockConcept(w) ==
    /\ pc[w] = "lockConcept" /\ Granted(w)
    /\ JustLocks(w)
    /\ IF at[w].concept \in Current(w).keys THEN Found(w, at[w].concept)
       ELSE Goto(w, "failed") /\ UNCHANGED at
    /\ Stored

-----------------------------------------------------------------------------
(* upsertEdge(), and a row of evidence for each edge.                      *)

NextEdge(w) ==
    LET more == at[w].i < Len(kept(at[w].graph)) IN
    /\ Goto(w, IF more THEN "edge" ELSE "commit")
    /\ Local(w, [i |-> IF more THEN at[w].i + 1 ELSE 1])
Rows(f, e) == IF e \in DOMAIN f THEN f[e] ELSE 0
WritesEdge(w, e, occurrences) ==
    Writes(w, [edges |-> Put(tx[w].edges, e, occurrences),
               evidence |-> Put(tx[w].evidence, e, Rows(tx[w].evidence, e) + 1)])

InsertEdge(w) ==
    /\ pc[w] = "edge" /\ Granted(w)
    /\ LET e == edgeOf(w) IN
       IF e \in DOMAIN Current(w).edges
       THEN JustLocks(w) /\ Goto(w, "bump") /\ UNCHANGED at
       ELSE WritesEdge(w, e, 1) /\ NextEdge(w)
    /\ Stored

(* Mutant: the edge is read as the snapshot has it.                        *)
EdgeInSnapshot(w) == View(w).edges
(* The edge is read again for update.                                      *)
EdgeForUpdate(w) == Current(w).edges

CountEdge(w) ==
    /\ pc[w] = "bump" /\ Granted(w)
    /\ LET e == edgeOf(w)  read == EdgeForUpdate(w) IN
       IF e \in DOMAIN read
       THEN WritesEdge(w, e, read[e] + 1) /\ NextEdge(w)
       ELSE Goto(w, "failed") /\ UNCHANGED <<tx, at>>
    /\ Stored

-----------------------------------------------------------------------------
Ends(p) == /\ tx' = [tx EXCEPT ![p] = NoTx] /\ Goto(p, "idle")
           /\ at' = [at EXCEPT ![p] = Idle]

Commit(p) ==
    /\ pc[p] = "commit"
    /\ LET db == Current(p) IN
       keys' = db.keys /\ terms' = db.terms /\ edges' = db.edges
    /\ evidence' = [e \in DOMAIN evidence \cup DOMAIN tx[p].evidence |->
                      Rows(evidence, e) + Rows(tx[p].evidence, e)]
    /\ named' = IF p \in Writer THEN Updated(named, at[p].resolved) ELSE named
    /\ rounds' = [rounds EXCEPT ![p] = @ + 1]
    /\ Ends(p)

(* The victim's exception ends its job, which is tried again.              *)
Deadlock(p) == InCycle(p) /\ Ends(p) /\ Stored

(* ConceptLocalizeService: a concept that has an English term, when it was *)
(* read, gets the word that the provider chose (attachLocalizedTerm()),    *)
(* whether or not it has a term in the language by now.                    *)
Localize(p, c, n) ==
    /\ pc[p] = "idle" /\ rounds[p] < MaxWords
    /\ c \in keys
    /\ \E i \in Preferred(Tables, c, "en") :
         at' = [at EXCEPT ![p] = [concept |-> c, word |-> n, grade |-> terms[i].grade]]
    /\ Goto(p, "lookUp") /\ UNCHANGED tx /\ Stored

StoreStep(w) ==
    \/ \E g \in Graphs : Start(w, g)
    \/ Find(w) \/ Enrich(w) \/ Create(w)
    \/ Recover(w) \/ RecoverKey(w) \/ LockConcept(w)
    \/ InsertEdge(w) \/ CountEdge(w)

Next ==
    \/ \E w \in Writer : StoreStep(w)
    \/ \E p \in Localizer, c \in Norm, n \in Norm : Localize(p, c, n)
    \/ \E p \in Process : LookUp(p) \/ LockPreferred(p) \/ Rename(p) \/ Insert(p)
                         \/ Commit(p) \/ Deadlock(p)

Spec == Init /\ [][Next]_vars

-----------------------------------------------------------------------------
(* A concept has at most one preferred term in a language.  No unique      *)
(* index says so: it is what the locking read before an insert is for.     *)
OnePreferred == \A i, j \in DOMAIN terms :
    terms[i].concept = terms[j].concept /\ terms[i].locale = terms[j].locale
      => i = j

(* Each sighting of an edge is counted once and has its evidence.          *)
EdgesAreCounted ==
    DOMAIN edges = DOMAIN evidence /\ \A e \in DOMAIN edges : edges[e] = evidence[e]

(* Whoever meets another's row finds it again: no snapshot hides it, and   *)
(* the recovery never runs out of attempts (recoverFromUniqueRace(),       *)
(* firstOrFail()).                                                         *)
NobodyFails == \A p \in Process : pc[p] # "failed"

(* The concept that a label was stored for is there, with an English term. *)
NamedInEnglish == \A n \in Norm :
    named[n] # None => named[n] \in keys /\ Preferred(Tables, named[n], "en") # {}

StoreIsSound == OnePreferred /\ EdgesAreCounted /\ NobodyFails /\ NamedInEnglish

(* Not so: a stored label stays an English term.  When it is a translation *)
(* of a concept, its English term is written over (attachPreferredTerm()). *)
LabelsStay ==
    \A n \in Norm : named[n] # None => Surface(Tables, "en", n) # {}

(* Not so: a label keeps its concept.  One graph takes the concept that    *)
(* has it as a translation, another, whose snapshot is older, makes a new  *)
(* one when the label has been written over.                               *)
LabelKeepsConcept ==
    [][\A n \in Norm : named[n] # None => named'[n] = named[n]]_named

(* Not so: storeGraph() keeps edges from a concept to itself out.  It      *)
(* compares labels, and two of them may be found to be one concept.        *)
NoSelfEdge == \A e \in DOMAIN edges : e[1] # e[2]

(* Not so: a description stays.  enrichTerm() may take the term from an    *)
(* older snapshot, in which it had none.                                   *)
TextIsKept ==
    [][\A i \in DOMAIN terms :
         terms[i].text # None => terms'[i].text = terms[i].text]_terms
=============================================================================
