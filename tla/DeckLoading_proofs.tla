------------------------- MODULE DeckLoading_proofs -------------------------
(***************************************************************************)
(* That the deck shows no concept twice, that the grade shown, the grade   *)
(* committed and, but for a pick before the first cards, that of the cards *)
(* ahead agree, that a waiting reader waits for something, that no         *)
(* answer meets a deck it was not asked for, and that the deck is walked   *)
(* as CardWalk says: for any number of cards, grades, retries and          *)
(* requests, and for any answers.                                          *)
(*                                                                         *)
(* The argument: an answer is merged so that only new cards are added,     *)
(* after a part of the deck that stays (Dealt, Extended). A reshuffle      *)
(* keeps the deck of before in its snapshot and, unless Retry of the       *)
(* offline line was pressed while it ran, has the deck to itself: the      *)
(* load-more that was in flight is outdated, the retry timer is off and no *)
(* other request begins (AloneOK). So the plan it lands is still a         *)
(* continuation of the cards on screen. Who waits, waits at the end of the *)
(* deck, and each thing he waits for is replaced by another one, by the    *)
(* status line, or by the next effect (WaitOK).                            *)
(***************************************************************************)
EXTENDS DeckLoading, FiniteSetTheorems, FunctionTheorems, SequenceTheorems,
        TLAPS

(* A deck and the reader's card on it.                                     *)
Standing(d, i) == Walk!IsDeck(d) /\ i \in Nat /\ i < Len(d)

Plan == [kind : {"fail"}]
        \cup [kind : {"deal", "noMatch"}, deck : Seq(Card), index : Nat]
Reshuffle == [phase : {"gather", "shuffle", "deal", "reverse"},
              stage : {"fetching", "planned", "settling"},
              lat : Laterality, plan : Plan \cup {None}]
Snapshot == [deck : Seq(Card), index : Nat, lat : Laterality]

(* The deck of before can still come back, or the reshuffle has landed.    *)
Pending == Swapping /\ swap.stage # "settling"
Landed == Swapping /\ swap.stage = "settling"

(* Only the first load deals a deck, and only once; what else is in flight *)
(* needs one.                                                              *)
DeckOK ==
    /\ deck # <<>> => Standing(deck, index) /\ first = None
    /\ deck = <<>> => more = None /\ tree = None /\ ~Swapping
    /\ deck # <<>> \/ first # None => ToLoad \subseteq hydrated

(* The records of a reshuffle, what it may put back and what it may deal.  *)
SwapOK ==
    /\ Swapping => swap \in Reshuffle /\ tree = None /\ ~swapFailed
    /\ Pending => snapshot \in Snapshot /\ Standing(snapshot.deck, snapshot.index)
    /\ Pending /\ swap.stage = "planned" =>
         /\ swap.plan \in Plan
         /\ swap.plan.kind # "fail" => Standing(swap.plan.deck, swap.plan.index)
    /\ Landed => swap.plan \in Plan

(* While a reshuffle is pending the grade shown is the one tried, and the  *)
(* deck is still that of the grade before; once it has landed, a failure   *)
(* is remembered by the grade to retry.                                    *)
GradesOK ==
    /\ Pending => /\ laterality = swap.lat /\ snapshot.lat = committed
                  /\ swap.lat # committed /\ retryGrade = None
    /\ ~Pending => laterality = committed
    /\ Landed /\ ~meddled => /\ swap.plan.kind = "fail" <=> retryGrade # None
                             /\ retryGrade # laterality
    /\ FailedSwapKeepsItsGrade

(* Unless Retry was pressed in it, nothing but the reshuffle itself is at  *)
(* work in a reshuffle, and it deals from the card on screen.              *)
AloneOK ==
    ~meddled =>
      /\ Swapping => ~cycle.timer /\ ~face.loadMoreError
      /\ more # None /\ more.current =>
           ~Swapping /\ more.lat = laterality /\ ~face.noNextIdea
      /\ Pending => deck = snapshot.deck /\ index = snapshot.index
      /\ Pending /\ swap.stage = "planned" /\ swap.plan.kind # "fail" =>
           /\ SubSeq(swap.plan.deck, 1, index + 1) = Visited
           /\ swap.plan.index \in {index, index + 1}

(* Whoever waits, waits for one of these; the count of empty batches       *)
(* exceeds its bound only when No next idea is said.                       *)
WaitOK ==
    /\ RetryCycleIsSound
    /\ cycle.empties > MaxEmpty => face.noNextIdea
    /\ more # None => cycle.empties <= MaxEmpty
    /\ face.pending => ~Landed
    /\ face.pending => \/ offline \/ due \/ cycle.timer \/ Swapping
                       \/ more # None \/ dropped
                       \/ face.loadMoreError \/ swapFailed

IInv == TypeOK /\ DeckOK /\ SwapOK /\ GradesOK /\ AloneOK /\ WaitOK

(* The type invariant, in the parts its proofs are made of.                *)
DeckTyped ==
    /\ hydrated \subseteq Preference /\ deck \in Seq(Card)
    /\ index \in Nat /\ (deck = <<>> => index = 0)
GradesTyped ==
    /\ complexity \in Complexity /\ {laterality, committed} \subseteq Laterality
    /\ {retryGrade, dealt} \subseteq Grade
LoadsTyped ==
    /\ first \in Request \cup {None} /\ superseded \subseteq Request
    /\ more \in MoreRequest \cup {None}
FaceTyped ==
    /\ face \in Face /\ cycle \in Cycle
FlagsTyped ==
    /\ {error, early, swapFailed, offline, due, dropped} \subseteq BOOLEAN

-----------------------------------------------------------------------------
(* Constants, positions and answers.                                       *)

(* What is assumed of the constants.                                       *)
LEMMA Constants ==
    /\ DefaultComplexity \in Complexity /\ Complexity \subseteq Int
    /\ {BatchSize, PrefetchAhead, MaxEmpty} \subseteq Nat
    /\ MaxEmpty \in Nat /\ PrefetchAhead \in Nat /\ BatchSize \in Nat
    /\ None \notin Laterality /\ None \notin MoreRequest
BY DeckAssumption

(* In a finite set of numbers, every position is that of one member.       *)
LEMMA Counted ==
    ASSUME NEW S \in SUBSET Nat, IsFiniteSet(S), NEW k \in 1..Cardinality(S)
    PROVE  \E i \in S : Cardinality({j \in S : j < i}) = k - 1
<1> DEFINE rank == [i \in S |-> Cardinality({j \in S : j < i})]
           n == Cardinality(S)
<1>1. n \in Nat
  BY FS_CardinalityType
<1>2. \A i \in S : IsFiniteSet({j \in S : j < i}) /\ rank[i] \in 0..(n-1)
  <2> TAKE i \in S
  <2> DEFINE P == {j \in S : j < i}
  <2>1. P \in SUBSET S /\ P # S
    OBVIOUS
  <2>2. IsFiniteSet(P) /\ Cardinality(P) <= n /\ Cardinality(P) # n
    BY <2>1, FS_Subset
  <2>3. Cardinality(P) \in Nat
    BY <2>2, FS_CardinalityType
  <2> QED BY <2>2, <2>3, <1>1
<1>3. \A i, m \in S : i < m => rank[i] < rank[m]
  <2> SUFFICES ASSUME NEW i \in S, NEW m \in S, i < m PROVE rank[i] < rank[m]
    OBVIOUS
  <2> DEFINE P == {j \in S : j < i}
             Q == {j \in S : j < m}
  <2>1. P \in SUBSET Q /\ P # Q
    <3>1. i \in Q /\ i \notin P
      OBVIOUS
    <3>2. \A j \in S : j < i => j < m
      OBVIOUS
    <3> QED BY <3>1, <3>2
  <2>2. IsFiniteSet(Q) /\ IsFiniteSet(P)
    BY <1>2
  <2>3. Cardinality(P) <= Cardinality(Q) /\ Cardinality(P) # Cardinality(Q)
    BY <2>1, <2>2, FS_Subset
  <2>4. Cardinality(P) \in Nat /\ Cardinality(Q) \in Nat
    BY <2>2, FS_CardinalityType
  <2> QED BY <2>3, <2>4
<1>4. rank \in Injection(S, 0..(n-1))
  <2>1. rank \in [S -> 0..(n-1)]
    BY <1>2
  <2>2. \A i, m \in S : rank[i] = rank[m] => i = m
    <3> HIDE DEF rank
    <3> QED BY <1>3, <2>1
  <2> HIDE DEF rank
  <2> QED BY <2>1, <2>2 DEF Injection, IsInjective
<1>5. IsFiniteSet(0..(n-1)) /\ Cardinality(0..(n-1)) = n
  <2> HIDE DEF n
  <2>1. ~(0 > n - 1) \/ n = 0
    BY <1>1
  <2> QED BY <1>1, <2>1, FS_Interval
<1>6. rank \in Surjection(S, 0..(n-1))
  <2> HIDE DEF rank
  <2> QED BY <1>4, <1>5, FS_Injection
<1>7. PICK i \in S : rank[i] = k - 1
  <2> HIDE DEF rank
  <2> QED BY <1>6, <1>1 DEF Surjection
<1> QED BY <1>7

(* What mergeUniqueRelated keeps of an answer are different cards, none of *)
(* which the deck has.                                                     *)
LEMMA Merged ==
    ASSUME NEW d \in Seq(Card), NEW b \in Seq(Card), Walk!Distinct(b)
    PROVE  LET add == mergeUniqueRelated(d, b)
           IN  /\ add \in Seq(Card)
               /\ Walk!Distinct(add)
               /\ Names(add) \cap Names(d) = {}
<1> DEFINE new == {i \in DOMAIN b : b[i] \notin Names(d)}
           before(i) == Cardinality({j \in new : j < i})
           at(k) == CHOOSE i \in new : before(i) = k - 1
           add == mergeUniqueRelated(d, b)
<1>1. DOMAIN b = 1..Len(b) /\ Len(b) \in Nat
  OBVIOUS
<1>2. new \in SUBSET Nat /\ IsFiniteSet(new) /\ Cardinality(new) \in Nat
  <2>1. IsFiniteSet(1..Len(b))
    BY <1>1, FS_Interval
  <2> QED BY <1>1, <2>1, FS_Subset, FS_CardinalityType
<1>3. \A k \in 1..Cardinality(new) : at(k) \in new /\ before(at(k)) = k - 1
  <2> TAKE k \in 1..Cardinality(new)
  <2>1. \E i \in new : before(i) = k - 1
    <3> HIDE DEF new
    <3> QED BY <1>2, Counted
  <2> HIDE DEF new, before
  <2> QED BY <2>1
<1>4. add = [k \in 1..Cardinality(new) |-> b[at(k)]]
  BY DEF mergeUniqueRelated
<1> HIDE DEF add
<1>5. \A k \in 1..Cardinality(new) : b[at(k)] \in Card /\ b[at(k)] \notin Names(d)
  <2>1. \A i \in new : b[i] \in Card /\ b[i] \notin Names(d)
    BY <1>1
  <2> HIDE DEF at, new
  <2> QED BY <1>3, <2>1
<1>6. add \in Seq(Card) /\ DOMAIN add = 1..Cardinality(new)
  <2> HIDE DEF new, at
  <2> QED BY <1>2, <1>4, <1>5
<1>7. Walk!Distinct(add)
  <2> SUFFICES ASSUME NEW i \in 1..Cardinality(new), NEW j \in 1..Cardinality(new),
                      add[i] = add[j]
               PROVE  i = j
    BY <1>6 DEF Walk!Distinct
  <2>1. at(i) \in new /\ at(j) \in new /\ b[at(i)] = b[at(j)]
    BY <1>3, <1>4
  <2>2. at(i) = at(j)
    <3> HIDE DEF at
    <3> QED BY <2>1 DEF Walk!Distinct
  <2>3. before(at(i)) = i - 1 /\ before(at(j)) = j - 1
    BY <1>3
  <2> HIDE DEF new, at, before
  <2> QED BY <2>2, <2>3, <1>2
<1>8. Names(add) \cap Names(d) = {}
  <2> HIDE DEF at, new
  <2> QED BY <1>4, <1>5, <1>6 DEF Names
<1> QED BY <1>6, <1>7, <1>8 DEF add

(* An answer that brings cards brings at least one, and none twice.        *)
LEMMA CardsFacts ==
    ASSUME NEW outcome \in Outcome, NEW b \in Cards(outcome)
    PROVE  b \in Seq(Card) /\ Walk!Distinct(b) /\ (outcome = "batch" => b # <<>>)
<1>1. CASE outcome = "batch"
  <2>1. PICK n \in 1..BatchSize : b \in [1..n -> Card]
    BY <1>1 DEF Cards, Batch
  <2>2. n \in Nat /\ n > 0
    BY Constants
  <2>3. b \in Seq(Card) /\ Len(b) = n
    BY <2>1, <2>2
  <2> QED BY <1>1, <2>2, <2>3 DEF Cards, Batch, Walk!Distinct
<1>2. CASE outcome # "batch"
  BY <1>2 DEF Cards, Walk!Distinct
<1> QED BY <1>1, <1>2

(* A deck extended by what is new in an answer has no card twice, and      *)
(* begins with the deck it was.                                            *)
LEMMA Appended ==
    ASSUME NEW d, Walk!IsDeck(d), NEW b \in Seq(Card), Walk!Distinct(b)
    PROVE  LET add == mergeUniqueRelated(d, b)
           IN  /\ add \in Seq(Card)
               /\ Walk!IsDeck(d \o add)
               /\ Len(d \o add) = Len(d) + Len(add)
               /\ SubSeq(d \o add, 1, Len(d)) = d
               /\ add # <<>> => Len(add) > 0
<1> DEFINE add == mergeUniqueRelated(d, b)
<1>0. d \in Seq(Card) /\ Walk!Distinct(d)
  BY DEF Walk!IsDeck
<1>1. add \in Seq(Card) /\ Walk!Distinct(add) /\ Names(add) \cap Names(d) = {}
  BY <1>0, Merged
<1> HIDE DEF add
<1>2. d \o add \in Seq(Card) /\ Len(d \o add) = Len(d) + Len(add)
  BY <1>0, <1>1
<1>3. \A i \in 1..Len(d \o add) :
         (d \o add)[i] = IF i <= Len(d) THEN d[i] ELSE add[i - Len(d)]
  BY <1>0, <1>1, <1>2
<1>4. \A i \in 1..Len(d), j \in 1..Len(add) : d[i] # add[j]
  BY <1>0, <1>1 DEF Names
<1>5. Walk!Distinct(d \o add)
  <2> SUFFICES ASSUME NEW i \in 1..Len(d \o add), NEW j \in 1..Len(d \o add),
                      (d \o add)[i] = (d \o add)[j]
               PROVE  i = j
    BY <1>2 DEF Walk!Distinct
  <2>1. CASE i <= Len(d) /\ j <= Len(d)
    BY <2>1, <1>0, <1>3 DEF Walk!Distinct
  <2>2. CASE i > Len(d) /\ j > Len(d)
    <3>1. i - Len(d) \in DOMAIN add /\ j - Len(d) \in DOMAIN add
      BY <2>2, <1>0, <1>1, <1>2
    <3>2. add[i - Len(d)] = add[j - Len(d)]
      BY <2>2, <1>0, <1>3
    <3>3. i - Len(d) = j - Len(d)
      BY <3>1, <3>2, <1>1 DEF Walk!Distinct
    <3> QED BY <3>3, <1>0
  <2>3. CASE i <= Len(d) /\ j > Len(d)
    <3>1. j - Len(d) \in 1..Len(add) /\ i \in 1..Len(d)
      BY <2>3, <1>0, <1>1, <1>2
    <3> QED BY <2>3, <3>1, <1>3, <1>4, <1>0
  <2>4. CASE i > Len(d) /\ j <= Len(d)
    <3>1. i - Len(d) \in 1..Len(add) /\ j \in 1..Len(d)
      BY <2>4, <1>0, <1>1, <1>2
    <3> QED BY <2>4, <3>1, <1>3, <1>4, <1>0
  <2> QED BY <2>1, <2>2, <2>3, <2>4, <1>0
<1>6. SubSeq(d \o add, 1, Len(d)) = d
  BY <1>0, <1>1, <1>2, <1>3
<1>7. add # <<>> => Len(add) > 0
  BY <1>1
<1> QED BY <1>1, <1>2, <1>5, <1>6, <1>7 DEF add, Walk!IsDeck

(* The cards up to the one on screen are a deck with the reader on its     *)
(* last card.                                                              *)
LEMMA VisitedFacts ==
    ASSUME Standing(deck, index)
    PROVE  /\ Standing(Visited, index) /\ Len(Visited) = index + 1
           /\ SubSeq(Visited, 1, index + 1) = Visited
<1>1. deck \in Seq(Card) /\ index \in Nat /\ index + 1 \in 1..Len(deck) /\ Walk!Distinct(deck)
  BY DEF Standing, Walk!IsDeck
<1>2. /\ Visited \in Seq(Card) /\ Len(Visited) = index + 1
      /\ \A i \in 1..(index + 1) : Visited[i] = deck[i]
  BY <1>1 DEF Visited
<1>3. SubSeq(Visited, 1, index + 1) = Visited
  BY <1>1, <1>2
<1>4. Walk!Distinct(Visited)
  BY <1>1, <1>2 DEF Walk!Distinct
<1> QED BY <1>1, <1>2, <1>3, <1>4 DEF Standing, Walk!IsDeck

-----------------------------------------------------------------------------
(* Faces, cycles and requests.                                             *)

(* What the handlers do to the face and to the retry cycle keeps their     *)
(* types.                                                                  *)
LEMMA FaceFacts ==
    /\ NoFace \in Face /\ FreshCycle \in Cycle
    /\ [NoFace EXCEPT !.pending = TRUE] \in Face
    /\ [NoFace EXCEPT !.pending = TRUE].noNextIdea = FALSE
    /\ \A f \in Face :
         /\ Calm(f) \in Face /\ Calm(f).pending = f.pending
         /\ ~Calm(f).loadMoreError /\ ~Calm(f).noNextIdea
    /\ \A f \in Face : LET g == [f EXCEPT !.loadMoreError = FALSE]
                       IN  /\ g \in Face /\ g.pending = f.pending
                           /\ g.noNextIdea = f.noNextIdea /\ ~g.loadMoreError
    /\ \A f \in Face : [f EXCEPT !.pending = FALSE] \in Face
    /\ \A c \in Cycle : LET d == [c EXCEPT !.timer = FALSE]
                        IN  d \in Cycle /\ d.empties = c.empties /\ ~d.timer
<1>1. NoFace \in Face /\ NoFace.noNextIdea = FALSE
  BY DEF NoFace, Face
<1>2. FreshCycle \in Cycle
  BY Constants DEF FreshCycle, Cycle
<1>3. \A f \in Face : [f EXCEPT !.pending = TRUE] \in Face
                      /\ [f EXCEPT !.pending = TRUE].noNextIdea = f.noNextIdea
  BY DEF Face
<1>4. \A f \in Face : Calm(f) \in Face /\ Calm(f).pending = f.pending
                      /\ ~Calm(f).loadMoreError /\ ~Calm(f).noNextIdea
  BY DEF Face, Calm
<1>5. \A f \in Face : LET g == [f EXCEPT !.loadMoreError = FALSE]
                      IN  /\ g \in Face /\ g.pending = f.pending
                          /\ g.noNextIdea = f.noNextIdea /\ ~g.loadMoreError
  BY DEF Face
<1>6. \A c \in Cycle : LET d == [c EXCEPT !.timer = FALSE]
                       IN  d \in Cycle /\ d.empties = c.empties /\ ~d.timer
  BY DEF Cycle
<1>7. \A f \in Face : [f EXCEPT !.pending = FALSE] \in Face
  BY DEF Face
<1> QED BY <1>1, <1>2, <1>3, <1>4, <1>5, <1>6, <1>7

(* What loadMoreConcepts has done when it first awaits.                    *)
Loaded(f, c) ==
    /\ more' \in MoreRequest \cup {None}
    /\ face' \in Face /\ cycle' \in Cycle
    /\ face'.pending = f.pending /\ face'.noNextIdea = f.noNextIdea
    /\ cycle'.empties = c.empties
    /\ more # None \/ deck = <<>> =>
         more' = more /\ face' = f /\ cycle' = c
    /\ more = None /\ deck # <<>> =>
         /\ more' # None /\ more'.current /\ more'.lat = laterality
         /\ ~face'.loadMoreError /\ ~cycle'.timer

(* loadMoreConcepts asks with the grades shown, calls off the retry and    *)
(* clears the error, or leaves everything as its caller left it.           *)
LEMMA LoadMoreFacts ==
    ASSUME TypeOK, NEW f \in Face, NEW c \in Cycle, LoadMore(f, c)
    PROVE  Loaded(f, c)
<1>1. CASE more # None \/ deck = <<>>
  BY <1>1 DEF LoadMore, Loaded, TypeOK
<1>2. CASE more = None /\ deck # <<>>
  <2>1. more' \in MoreRequest /\ more'.current /\ more'.lat = laterality
    <3>1. complexity \in Complexity /\ laterality \in Laterality
      BY DEF TypeOK
    <3>2. more' = [cx |-> complexity, lat |-> laterality, tier |-> "asked",
                   step |-> "seed", current |-> TRUE]
      BY <1>2 DEF LoadMore
    <3> QED BY <3>1, <3>2 DEF MoreRequest
  <2>2. face' = [f EXCEPT !.loadMoreError = FALSE]
    BY <1>2 DEF LoadMore
  <2>3. cycle' = [c EXCEPT !.timer = FALSE]
    BY <1>2 DEF LoadMore
  <2> QED BY <1>2, <2>1, <2>2, <2>3, FaceFacts, Constants DEF Loaded
<1> QED BY <1>1, <1>2

(* A batch that is dealt leaves the cards walked through where they were,  *)
(* adds only cards not seen, and makes a deck the reader stands on.        *)
LEMMA Dealt ==
    ASSUME Standing(deck, index),
           NEW outcome \in Outcome, NEW b \in Cards(outcome)
    PROVE  LET add == mergeUniqueRelated(Visited, b)
               new == Visited \o add
           IN  /\ new \in Seq(Card) /\ SubSeq(new, 1, index + 1) = Visited
               /\ Standing(new, index) /\ new # <<>>
               /\ add # <<>> => Standing(new, index + 1)
<1> DEFINE add == mergeUniqueRelated(Visited, b)
           new == Visited \o add
<1>1. b \in Seq(Card) /\ Walk!Distinct(b)
  BY CardsFacts
<1>2. Walk!IsDeck(Visited) /\ Len(Visited) = index + 1 /\ index \in Nat
  BY VisitedFacts DEF Standing
<1>3. /\ add \in Seq(Card) /\ Walk!IsDeck(new)
      /\ Len(new) = Len(Visited) + Len(add)
      /\ SubSeq(new, 1, Len(Visited)) = Visited
      /\ add # <<>> => Len(add) > 0
  BY <1>1, <1>2, Appended
<1> HIDE DEF add, new
<1>4. new \in Seq(Card) /\ Len(add) \in Nat
  BY <1>3 DEF Walk!IsDeck
<1>5. Len(new) > index /\ new # <<>> /\ (add # <<>> => Len(new) > index + 1)
  BY <1>2, <1>3, <1>4
<1> QED BY <1>2, <1>3, <1>4, <1>5 DEF Standing, add, new

(* The same for a batch at the end of the whole deck.                      *)
LEMMA Extended ==
    ASSUME Standing(deck, index),
           NEW outcome \in Outcome, NEW b \in Cards(outcome)
    PROVE  LET add == mergeUniqueRelated(deck, b)
               new == deck \o add
           IN  /\ new \in Seq(Card) /\ SubSeq(new, 1, Len(deck)) = deck
               /\ Standing(new, index) /\ new # <<>>
               /\ add # <<>> => Standing(new, Len(deck))
<1> DEFINE add == mergeUniqueRelated(deck, b)
           new == deck \o add
<1>1. b \in Seq(Card) /\ Walk!Distinct(b)
  BY CardsFacts
<1>2. Walk!IsDeck(deck) /\ Len(deck) \in Nat /\ index \in Nat /\ index < Len(deck)
  BY DEF Standing, Walk!IsDeck
<1>3. /\ add \in Seq(Card) /\ Walk!IsDeck(new)
      /\ Len(new) = Len(deck) + Len(add)
      /\ SubSeq(new, 1, Len(deck)) = deck
      /\ add # <<>> => Len(add) > 0
  BY <1>1, <1>2, Appended
<1> HIDE DEF add, new
<1>4. new \in Seq(Card) /\ Len(add) \in Nat
  BY <1>3 DEF Walk!IsDeck
<1>5. Len(new) > index /\ new # <<>> /\ (add # <<>> => Len(new) > Len(deck))
  BY <1>2, <1>3, <1>4
<1> QED BY <1>2, <1>3, <1>4, <1>5 DEF Standing, add, new

-----------------------------------------------------------------------------
(* One lemma for every action.                                             *)

(* A stored preference read: the first load begins with the third.         *)
LEMMA HydrateKeeps ==
    ASSUME NEW p \in Preference, IInv, Hydrate(p)
    PROVE  IInv'
<1>1. TypeOK'
  <2> USE DEF IInv
  <2>1. DeckTyped'
    BY Constants
       DEF DeckTyped, TypeOK, Preference, ToLoad, Hydrate, LoadConcepts, Ask,
           ghosts, swapVars
  <2>2. GradesTyped'
    BY Constants
       DEF GradesTyped, TypeOK, Grade, Hydrate, LoadConcepts, Ask, ghosts,
           swapVars
  <2>3. LoadsTyped'
    BY Constants
       DEF LoadsTyped, TypeOK, Request, MoreRequest, Hydrate, LoadConcepts,
           Ask, ghosts, swapVars
  <2>4. FaceTyped'
    BY Constants, FaceFacts
       DEF FaceTyped, TypeOK, Hydrate, LoadConcepts, Ask, ghosts, swapVars
  <2>5. FlagsTyped'
    BY Constants
       DEF FlagsTyped, TypeOK, Rendered, Hydrate, LoadConcepts, Ask, ghosts,
           swapVars
  <2> QED BY <2>1, <2>2, <2>3, <2>4, <2>5
             DEF TypeOK, DeckTyped, GradesTyped, LoadsTyped, FaceTyped,
                 FlagsTyped
<1>2. DeckOK'
  BY Constants
     DEF IInv, TypeOK, DeckOK, SwapOK, Swapping, NoSwap, Reshuffle, Pending,
         Standing, ToLoad, Preference, Walk!IsDeck, Hydrate, LoadConcepts, Ask,
         ghosts, swapVars, Rendered, Grade
<1>3. SwapOK'
  BY Constants
     DEF IInv, TypeOK, SwapOK, Swapping, NoSwap, Pending, Landed, Reshuffle,
         Snapshot, Plan, DeckOK, Hydrate, LoadConcepts, Ask, ghosts, swapVars,
         Rendered
<1>4. GradesOK'
  BY Constants
     DEF IInv, TypeOK, Face, Cycle, SwapOK, GradesOK, AloneOK, Swapping,
         NoSwap, Pending, Landed, FailedSwapKeepsItsGrade, Reshuffle, Hydrate,
         LoadConcepts, Ask, ghosts, swapVars, Rendered
<1>5. AloneOK'
  BY Constants
     DEF IInv, TypeOK, Face, Cycle, SwapOK, AloneOK, WaitOK, DeckOK,
         MoreRequest, Swapping, NoSwap, Pending, RetryCycleIsSound, Visited,
         NoFace, Hydrate, LoadConcepts, Ask, ghosts, swapVars, Rendered
<1>6. WaitOK'
  BY Constants
     DEF IInv, TypeOK, Face, Cycle, WaitOK, DeckOK, AloneOK, SwapOK,
         MoreRequest, RetryCycleIsSound, IsLast, Pending, Landed, Swapping,
         NoSwap, Reshuffle, Hydrate, LoadConcepts, Ask, ghosts, swapVars,
         Rendered, NoFace, FreshCycle
<1> QED BY <1>1, <1>2, <1>3, <1>4, <1>5, <1>6 DEF IInv

(* The first load answered: its batch is dealt into an empty deck.         *)
LEMMA FirstAnsweredKeeps ==
    ASSUME NEW outcome \in Outcome, NEW b \in Cards(outcome), IInv, FirstAnswered(outcome, b)
    PROVE  IInv'
<1>1. TypeOK'
  <2> USE DEF IInv
  <2>1. DeckTyped'
    BY Constants, CardsFacts
       DEF DeckTyped, TypeOK, Preference, ToLoad, FirstAnswered,
           ComplexityAfter, FallsBack, FellBack, ghosts, swapVars
  <2>2. GradesTyped'
    <3>1. dealt' \in {dealt, first.lat} /\ dealt \in Grade
      BY DEF TypeOK, FirstAnswered
    <3>2. first.lat \in Laterality
      BY DEF TypeOK, Request, FirstAnswered
    <3>3. dealt' \in Grade
      BY <3>1, <3>2 DEF Grade
    <3>4. /\ complexity' \in Complexity /\ {laterality', committed'} \subseteq Laterality
          /\ retryGrade' \in Grade
      BY Constants DEF TypeOK, FirstAnswered, ComplexityAfter, swapVars, Grade
    <3> QED BY <3>3, <3>4 DEF GradesTyped, Grade
  <2>3. LoadsTyped'
    BY Constants, CardsFacts
       DEF LoadsTyped, TypeOK, Request, MoreRequest, FirstAnswered,
           ComplexityAfter, FallsBack, FellBack, ghosts, swapVars
  <2>4. FaceTyped'
    BY Constants, FaceFacts, CardsFacts
       DEF FaceTyped, TypeOK, FirstAnswered, ComplexityAfter, FallsBack,
           FellBack, ghosts, swapVars
  <2>5. FlagsTyped'
    BY Constants, CardsFacts
       DEF FlagsTyped, TypeOK, Rendered, FirstAnswered, ComplexityAfter,
           FallsBack, FellBack, ghosts, swapVars
  <2> QED BY <2>1, <2>2, <2>3, <2>4, <2>5
             DEF TypeOK, DeckTyped, GradesTyped, LoadsTyped, FaceTyped,
                 FlagsTyped
<1>2. DeckOK'
  BY Constants, CardsFacts
     DEF IInv, TypeOK, DeckOK, SwapOK, Swapping, NoSwap, Reshuffle, Pending,
         Standing, ToLoad, Preference, Walk!IsDeck, FirstAnswered,
         ComplexityAfter, FallsBack, FellBack, ghosts, swapVars, Rendered,
         Grade
<1>3. SwapOK'
  BY Constants, CardsFacts
     DEF IInv, TypeOK, SwapOK, Swapping, NoSwap, Pending, Landed, Reshuffle,
         Snapshot, Plan, DeckOK, FirstAnswered, ComplexityAfter, FallsBack,
         FellBack, ghosts, swapVars, Rendered
<1>4. GradesOK'
  BY Constants, CardsFacts
     DEF IInv, TypeOK, Face, Cycle, SwapOK, GradesOK, AloneOK, Swapping,
         NoSwap, Pending, Landed, FailedSwapKeepsItsGrade, Reshuffle,
         FirstAnswered, ComplexityAfter, FallsBack, FellBack, ghosts, swapVars,
         Rendered
<1>5. AloneOK'
  BY Constants, CardsFacts
     DEF IInv, TypeOK, Face, Cycle, SwapOK, AloneOK, WaitOK, DeckOK,
         MoreRequest, Swapping, NoSwap, Pending, RetryCycleIsSound, Visited,
         FirstAnswered, ComplexityAfter, FallsBack, FellBack, ghosts, swapVars,
         Rendered
<1>6. WaitOK'
  BY Constants, CardsFacts
     DEF IInv, TypeOK, Face, Cycle, WaitOK, DeckOK, AloneOK, SwapOK,
         MoreRequest, RetryCycleIsSound, IsLast, Pending, Landed, Swapping,
         NoSwap, Reshuffle, FirstAnswered, ComplexityAfter, FallsBack,
         FellBack, ghosts, swapVars, Rendered
<1> QED BY <1>1, <1>2, <1>3, <1>4, <1>5, <1>6 DEF IInv

(* The answer to an overtaken load is dropped.                             *)
LEMMA SupersededAnsweredKeeps ==
    ASSUME NEW outcome, NEW r, IInv, SupersededAnswered(r, outcome)
    PROVE  IInv'
<1>1. TypeOK'
  <2> USE DEF IInv
  <2>1. DeckTyped'
    BY Constants
       DEF DeckTyped, TypeOK, Preference, ToLoad, SupersededAnswered,
           ComplexityAfter, FallsBack, FellBack, ghosts, swapVars
  <2>2. GradesTyped'
    BY Constants
       DEF GradesTyped, TypeOK, Grade, SupersededAnswered, ComplexityAfter,
           FallsBack, FellBack, ghosts, swapVars
  <2>3. LoadsTyped'
    BY Constants
       DEF LoadsTyped, TypeOK, Request, MoreRequest, SupersededAnswered,
           ComplexityAfter, FallsBack, FellBack, ghosts, swapVars
  <2>4. FaceTyped'
    BY Constants, FaceFacts
       DEF FaceTyped, TypeOK, SupersededAnswered, ComplexityAfter, FallsBack,
           FellBack, ghosts, swapVars
  <2>5. FlagsTyped'
    BY Constants
       DEF FlagsTyped, TypeOK, SupersededAnswered, ComplexityAfter, FallsBack,
           FellBack, ghosts, swapVars
  <2> QED BY <2>1, <2>2, <2>3, <2>4, <2>5
             DEF TypeOK, DeckTyped, GradesTyped, LoadsTyped, FaceTyped,
                 FlagsTyped
<1>2. DeckOK'
  BY Constants
     DEF IInv, TypeOK, DeckOK, SwapOK, Swapping, NoSwap, Reshuffle, Pending,
         Standing, ToLoad, Preference, Walk!IsDeck, SupersededAnswered,
         ComplexityAfter, FallsBack, FellBack, ghosts, swapVars, Grade
<1>3. SwapOK'
  BY Constants
     DEF IInv, TypeOK, SwapOK, Swapping, NoSwap, Pending, Landed, Reshuffle,
         Snapshot, Plan, DeckOK, SupersededAnswered, ComplexityAfter,
         FallsBack, FellBack, ghosts, swapVars
<1>4. GradesOK'
  BY Constants
     DEF IInv, TypeOK, Face, Cycle, SwapOK, GradesOK, AloneOK, Swapping,
         NoSwap, Pending, Landed, FailedSwapKeepsItsGrade, Reshuffle,
         SupersededAnswered, ComplexityAfter, FallsBack, FellBack, ghosts,
         swapVars
<1>5. AloneOK'
  BY Constants
     DEF IInv, TypeOK, Face, Cycle, SwapOK, AloneOK, WaitOK, DeckOK,
         MoreRequest, Swapping, NoSwap, Pending, RetryCycleIsSound, Visited,
         SupersededAnswered, ComplexityAfter, FallsBack, FellBack, ghosts,
         swapVars
<1>6. WaitOK'
  BY Constants
     DEF IInv, TypeOK, Face, Cycle, WaitOK, DeckOK, AloneOK, SwapOK,
         MoreRequest, RetryCycleIsSound, IsLast, Pending, Landed, Swapping,
         NoSwap, Reshuffle, SupersededAnswered, ComplexityAfter, FallsBack,
         FellBack, ghosts, swapVars
<1> QED BY <1>1, <1>2, <1>3, <1>4, <1>5, <1>6 DEF IInv

(* The reshuffle answered: its plan continues the cards walked through.    *)
LEMMA SwapAnsweredKeeps ==
    ASSUME NEW outcome \in Outcome, NEW b \in Cards(outcome), IInv, SwapAnswered(outcome, b)
    PROVE  IInv'
<1>a. Standing(deck, index)
  BY DEF IInv, DeckOK, SwapAnswered
<1> DEFINE add == mergeUniqueRelated(Visited, b)
           new == Visited \o add
<1>b. /\ new \in Seq(Card) /\ SubSeq(new, 1, index + 1) = Visited
      /\ add # <<>> => Standing(new, index + 1)
      /\ Standing(Visited, index) /\ SubSeq(Visited, 1, index + 1) = Visited
      /\ Visited \in Seq(Card) /\ index \in Nat
  BY <1>a, Dealt, VisitedFacts DEF Standing, Walk!IsDeck
<1> DEFINE fail == [kind |-> "fail"]
           deal == [kind |-> "deal", deck |-> new, index |-> index + 1]
           noMatch == [kind |-> "noMatch", deck |-> Visited, index |-> index]
<1>c. \E plan \in {fail, deal, noMatch} :
        /\ swap' = [swap EXCEPT !.stage = "planned", !.plan = plan]
        /\ plan = deal => add # <<>>
  <2>1. CASE outcome = "failed"
    BY <2>1 DEF SwapAnswered
  <2>2. CASE outcome = "batch" /\ add # <<>>
    BY <2>2 DEF SwapAnswered
  <2>3. CASE outcome # "failed" /\ ~(outcome = "batch" /\ add # <<>>)
    BY <2>3 DEF SwapAnswered
  <2> QED BY <2>1, <2>2, <2>3
<1> HIDE DEF add, new
<1>d. PICK plan \in {fail, deal, noMatch} :
        /\ swap' = [swap EXCEPT !.stage = "planned", !.plan = plan]
        /\ plan = deal => add # <<>>
  BY <1>c
<1>e. /\ plan \in Plan
      /\ plan.kind # "fail" =>
           /\ Standing(plan.deck, plan.index)
           /\ SubSeq(plan.deck, 1, index + 1) = Visited
           /\ plan.index \in {index, index + 1}
  BY <1>b, <1>d DEF Plan
<1> HIDE DEF fail, deal, noMatch
<1>f. /\ Swapping /\ swap \in Reshuffle /\ swap.stage = "fetching"
      /\ swap' \in Reshuffle /\ swap'.stage = "planned" /\ swap'.plan = plan
      /\ swap'.lat = swap.lat /\ swap'.phase = swap.phase
  <2>1. Swapping /\ swap \in Reshuffle /\ swap.stage = "fetching"
    BY DEF IInv, SwapOK, SwapAnswered
  <2> QED BY <2>1, <1>d, <1>e DEF Reshuffle
<1>g. UNCHANGED <<hydrated, deck, index, grades, loads, more, tree, face,
                  cycle, snapshot, retryGrade, swapFailed, offline, due, ghosts>>
  BY DEF SwapAnswered
<1>1. TypeOK'
  BY Constants, <1>e, <1>f, <1>g DEF IInv, TypeOK, Grade, grades, loads, ghosts
<1>2. DeckOK'
  BY Constants, <1>e, <1>f, <1>g
     DEF IInv, TypeOK, DeckOK, SwapOK, Swapping, NoSwap, Reshuffle, Pending,
         Standing, ToLoad, Preference, Walk!IsDeck, grades, loads, ghosts,
         Grade
<1>3. SwapOK'
  BY Constants, <1>e, <1>f, <1>g
     DEF IInv, TypeOK, SwapOK, Swapping, NoSwap, Pending, Landed, Reshuffle,
         Snapshot, Plan, DeckOK, grades, loads, ghosts
<1>4. GradesOK'
  BY Constants, <1>e, <1>f, <1>g
     DEF IInv, TypeOK, Face, Cycle, SwapOK, GradesOK, AloneOK, Swapping,
         NoSwap, Pending, Landed, FailedSwapKeepsItsGrade, Reshuffle, grades,
         loads, ghosts
<1>5. AloneOK'
  BY Constants, <1>e, <1>f, <1>g
     DEF IInv, TypeOK, Face, Cycle, SwapOK, AloneOK, WaitOK, DeckOK,
         MoreRequest, Swapping, NoSwap, Pending, RetryCycleIsSound, Visited,
         grades, loads, ghosts
<1>6. WaitOK'
  BY Constants, <1>e, <1>f, <1>g
     DEF IInv, TypeOK, Face, Cycle, WaitOK, DeckOK, AloneOK, SwapOK,
         MoreRequest, RetryCycleIsSound, IsLast, Pending, Landed, Swapping,
         NoSwap, Reshuffle, grades, loads, ghosts
<1> QED BY <1>1, <1>2, <1>3, <1>4, <1>5, <1>6 DEF IInv

(* Load-more answered: what the answer does is one of four things.         *)
LEMMA MoreAnsweredKeeps ==
    ASSUME NEW outcome \in Outcome, NEW b \in Cards(outcome), IInv, MoreAnswered(outcome, b)
    PROVE  IInv'
<1>a. Standing(deck, index)
  BY DEF IInv, DeckOK, MoreAnswered
<1>t. /\ more \in MoreRequest
      /\ LET m == FellBack(more)
         IN  m \in MoreRequest /\ m.current = more.current /\ m.lat = laterality
      /\ \A st \in {"seed", "unseeded", "cold"} :
           LET m == [more EXCEPT !.step = st, !.cx = complexity',
                                 !.lat = laterality, !.tier = "asked"]
           IN  m \in MoreRequest /\ m.current = more.current /\ m.lat = laterality
  <2>1. complexity' \in Complexity /\ laterality \in Laterality
    BY Constants DEF IInv, TypeOK, MoreAnswered, ComplexityAfter
  <2>2. more \in MoreRequest
    BY DEF IInv, TypeOK, MoreAnswered
  <2> QED BY <2>1, <2>2 DEF MoreRequest, FellBack
<1> DEFINE add == mergeUniqueRelated(deck, b)
           new == deck \o add
<1>b. /\ new \in Seq(Card) /\ new # <<>> /\ Standing(new, index)
      /\ add # <<>> => Standing(new, Len(deck))
  BY <1>a, Extended
<1> DEFINE Kept == /\ UNCHANGED <<deck, index, face, cycle, offline>>
                   /\ more' = None => ~more.current
                   /\ more' # None => more'.current = more.current
                                      /\ more'.lat = laterality
           Added == more.current /\ more' = None /\ add # <<>> /\ AppendBatch(add)
           Missed == more.current /\ more' = None /\ EmptyBatch
           Caught == /\ more' = None /\ UNCHANGED <<deck, index, cycle, offline>>
                     /\ face' = [face EXCEPT !.loadMoreError =
                                    @ \/ (more.current /\ ~offline)]
<1>c. /\ more' \in MoreRequest \cup {None}
      /\ \/ Kept \/ Added \/ Missed \/ Caught
  <2>1. CASE FallsBack(more, outcome)
    BY <2>1, <1>t, Constants DEF MoreAnswered
  <2>2. CASE outcome = "notFound" /\ ~FallsBack(more, outcome)
    BY <2>2, <1>t, Constants DEF MoreAnswered
  <2>3. CASE outcome = "batch"
    <3>1. ~FallsBack(more, outcome) /\ more.current \in BOOLEAN
      BY <2>3, <1>t DEF FallsBack, MoreRequest
    <3> QED BY <2>3, <3>1, <1>t, Constants DEF MoreAnswered
  <2>4. CASE outcome = "failed"
    BY <2>4, <1>t, Constants DEF MoreAnswered, FallsBack
  <2> QED BY <2>1, <2>2, <2>3, <2>4 DEF Outcome
<1>d. \/ UNCHANGED <<deck, index>>
      \/ deck' = new /\ index' \in {index, Len(deck)} /\ add # <<>>
  BY <1>c DEF AppendBatch, EmptyBatch
<1>e. face' \in Face /\ cycle' \in Cycle
  <2>1. face \in Face /\ cycle \in Cycle
    BY DEF IInv, TypeOK
  <2>2. /\ [face EXCEPT !.noNextIdea = FALSE, !.pending = FALSE] \in Face
        /\ [face EXCEPT !.pending = FALSE, !.noNextIdea = TRUE] \in Face
    BY <2>1 DEF Face
  <2>3. cycle.empties + 1 <= MaxEmpty + 1
        => /\ [empties |-> cycle.empties + 1, timer |-> TRUE] \in Cycle
           /\ [empties |-> cycle.empties + 1, timer |-> FALSE] \in Cycle
    BY <2>1, Constants DEF Cycle
  <2>4. CASE AppendBatch(add)
    BY <2>2, <2>4, FaceFacts DEF AppendBatch
  <2>5. CASE EmptyBatch
    <3>1. cycle.empties \in Nat /\ cycle.empties <= MaxEmpty
      BY <2>1, Constants DEF Cycle, IInv, WaitOK, MoreAnswered
    <3>2. CASE cycle.empties + 1 > MaxEmpty
      <4>1. face' = [face EXCEPT !.pending = FALSE, !.noNextIdea = TRUE]
            /\ cycle' = [empties |-> cycle.empties + 1, timer |-> FALSE]
        BY <2>5, <3>2 DEF EmptyBatch
      <4> QED BY <4>1, <2>2, <2>3, <3>1, Constants
    <3>3. CASE ~(cycle.empties + 1 > MaxEmpty)
      <4>1. face' = face /\ cycle' = [empties |-> cycle.empties + 1, timer |-> TRUE]
        BY <2>5, <3>3 DEF EmptyBatch
      <4> QED BY <4>1, <2>1, <2>3, <3>1, Constants
    <3> QED BY <3>2, <3>3
  <2> QED BY <1>c, <2>1, <2>2, <2>4, <2>5 DEF Face
<1>f. ASSUME EmptyBatch
      PROVE  /\ cycle.empties \in Nat /\ cycle.empties <= MaxEmpty
             /\ cycle'.empties = cycle.empties + 1
             /\ cycle.empties + 1 > MaxEmpty =>
                  ~face'.pending /\ face'.noNextIdea /\ ~cycle'.timer
             /\ cycle.empties + 1 <= MaxEmpty => face' = face /\ cycle'.timer
             /\ face'.loadMoreError = face.loadMoreError
             /\ UNCHANGED <<deck, index, offline>>
  <2>1. face \in Face /\ cycle.empties \in Nat /\ cycle.empties <= MaxEmpty
    BY Constants DEF IInv, TypeOK, Cycle, WaitOK, MoreAnswered
  <2>2. CASE cycle.empties + 1 > MaxEmpty
    <3>1. face' = [face EXCEPT !.pending = FALSE, !.noNextIdea = TRUE]
          /\ cycle' = [empties |-> cycle.empties + 1, timer |-> FALSE]
      BY <1>f, <2>2 DEF EmptyBatch
    <3>2. ~face'.pending /\ face'.noNextIdea /\ face'.loadMoreError = face.loadMoreError
      BY <2>1, <3>1 DEF Face
    <3> QED BY <1>f, <2>1, <2>2, <3>1, <3>2, Constants DEF EmptyBatch
  <2>3. CASE ~(cycle.empties + 1 > MaxEmpty)
    <3>1. face' = face /\ cycle' = [empties |-> cycle.empties + 1, timer |-> TRUE]
      BY <1>f, <2>3 DEF EmptyBatch
    <3> QED BY <1>f, <2>1, <2>3, <3>1, Constants DEF EmptyBatch
  <2> QED BY <2>2, <2>3
<1> HIDE DEF add, new
<1>1. TypeOK'
  <2> USE DEF IInv
  <2>1. DeckTyped'
    BY Constants, <1>a, <1>b, <1>c, <1>d, <1>e, <1>t
       DEF DeckTyped, TypeOK, Standing, Walk!IsDeck, Preference, ToLoad,
           MoreAnswered, ComplexityAfter, FallsBack, FellBack, AppendBatch,
           EmptyBatch, FreshCycle, loads, swapVars
  <2>2. GradesTyped'
    BY Constants, <1>a, <1>b, <1>c, <1>d, <1>e, <1>t
       DEF GradesTyped, TypeOK, Grade, MoreAnswered, ComplexityAfter,
           FallsBack, FellBack, AppendBatch, EmptyBatch, FreshCycle, loads,
           swapVars
  <2>3. LoadsTyped'
    BY <1>c DEF LoadsTyped, TypeOK, MoreAnswered, loads
  <2>4. FaceTyped'
    BY <1>e DEF FaceTyped
  <2>5. FlagsTyped'
    BY Constants, <1>a, <1>b, <1>c, <1>d, <1>e, <1>t
       DEF FlagsTyped, TypeOK, Rendered, MoreAnswered, ComplexityAfter,
           FallsBack, FellBack, AppendBatch, EmptyBatch, FreshCycle, loads,
           swapVars
  <2> QED BY <2>1, <2>2, <2>3, <2>4, <2>5
             DEF TypeOK, DeckTyped, GradesTyped, LoadsTyped, FaceTyped,
                 FlagsTyped
<1>2. DeckOK'
  BY Constants, <1>a, <1>b, <1>c, <1>d, <1>e, <1>t
     DEF IInv, TypeOK, DeckOK, SwapOK, Swapping, NoSwap, Reshuffle, Pending,
         Standing, ToLoad, Preference, Walk!IsDeck, MoreAnswered,
         ComplexityAfter, FallsBack, FellBack, AppendBatch, EmptyBatch,
         FreshCycle, loads, swapVars, Rendered, Grade
<1>3. SwapOK'
  BY Constants, <1>a, <1>b, <1>c, <1>d, <1>e, <1>t
     DEF IInv, TypeOK, SwapOK, Swapping, NoSwap, Pending, Landed, Reshuffle,
         Snapshot, Plan, DeckOK, MoreAnswered, ComplexityAfter, FallsBack,
         FellBack, AppendBatch, EmptyBatch, FreshCycle, loads, swapVars,
         Rendered
<1>4. GradesOK'
  BY Constants, <1>a, <1>b, <1>c, <1>d, <1>e, <1>t
     DEF IInv, TypeOK, Face, Cycle, SwapOK, GradesOK, AloneOK, Swapping,
         NoSwap, Pending, Landed, FailedSwapKeepsItsGrade, Reshuffle,
         MoreAnswered, ComplexityAfter, FallsBack, FellBack, AppendBatch,
         EmptyBatch, FreshCycle, loads, swapVars, Rendered
<1>5. AloneOK'
  <2> HIDE DEF Kept, Added, Missed, Caught
  <2>1. CASE Kept
    BY <2>1, <1>a, <1>b, <1>t, <1>c, Constants
       DEF IInv, Kept, MoreAnswered, swapVars, AloneOK, TypeOK, Face, Cycle,
           SwapOK, WaitOK, DeckOK, MoreRequest, Swapping, Pending,
           RetryCycleIsSound, Visited
  <2>2. CASE Added
    BY <2>2, <1>a, <1>b, <1>t, <1>c, <1>e, Constants
       DEF IInv, Added, AppendBatch, FreshCycle, MoreAnswered, swapVars,
           AloneOK, TypeOK, Face, Cycle, SwapOK, WaitOK, DeckOK, MoreRequest,
           Swapping, Pending, RetryCycleIsSound, Visited
  <2>3. CASE Missed
    BY <2>3, <1>a, <1>t, <1>c, <1>e, <1>f, Constants
       DEF IInv, Missed, MoreAnswered, swapVars, AloneOK, TypeOK, Face, Cycle,
           SwapOK, WaitOK, DeckOK, MoreRequest, Swapping, Pending,
           RetryCycleIsSound, Visited
  <2>4. CASE Caught
    BY <2>4, <1>a, <1>b, <1>t, <1>c, <1>e, Constants
       DEF IInv, Caught, MoreAnswered, swapVars, AloneOK, TypeOK, Face, Cycle,
           SwapOK, WaitOK, DeckOK, MoreRequest, Swapping, Pending,
           RetryCycleIsSound, Visited
  <2> QED BY <1>c, <2>1, <2>2, <2>3, <2>4
<1>6. WaitOK'
  <2> HIDE DEF Kept, Added, Missed, Caught
  <2>1. CASE Kept
    BY <2>1, <1>a, <1>b, <1>t, <1>c, Constants
       DEF IInv, Kept, MoreAnswered, swapVars, WaitOK, TypeOK, Face, Cycle,
           SwapOK, AloneOK, DeckOK, MoreRequest, Swapping, Pending, Landed,
           RetryCycleIsSound, IsLast, Standing, Walk!IsDeck, Rendered, Watched
  <2>2. CASE Added
    BY <2>2, <1>a, <1>b, <1>t, <1>c, <1>e, Constants
       DEF IInv, Added, AppendBatch, FreshCycle, MoreAnswered, swapVars,
           WaitOK, TypeOK, Face, Cycle, SwapOK, AloneOK, DeckOK, MoreRequest,
           Swapping, Pending, Landed, RetryCycleIsSound, IsLast, Standing,
           Walk!IsDeck, Rendered, Watched
  <2>3. CASE Missed
    BY <2>3, <1>a, <1>t, <1>c, <1>e, <1>f, Constants
       DEF IInv, Missed, MoreAnswered, swapVars, WaitOK, TypeOK, Face, Cycle,
           SwapOK, AloneOK, DeckOK, MoreRequest, Swapping, Pending, Landed,
           RetryCycleIsSound, IsLast, Standing, Walk!IsDeck, Rendered, Watched
  <2>4. CASE Caught
    BY <2>4, <1>a, <1>b, <1>t, <1>c, <1>e, Constants
       DEF IInv, Caught, MoreAnswered, swapVars, WaitOK, TypeOK, Face, Cycle,
           SwapOK, AloneOK, DeckOK, MoreRequest, Swapping, Pending, Landed,
           RetryCycleIsSound, IsLast, Standing, Walk!IsDeck, Rendered, Watched
  <2> QED BY <1>c, <2>1, <2>2, <2>3, <2>4
<1> QED BY <1>1, <1>2, <1>3, <1>4, <1>5, <1>6 DEF IInv

(* The complexity prefetch answered: what lies ahead is exchanged.         *)
LEMMA TreeAnsweredKeeps ==
    ASSUME NEW outcome \in Outcome, NEW b \in Cards(outcome), IInv, TreeAnswered(outcome, b)
    PROVE  IInv'
<1>a. Standing(deck, index)
  BY DEF IInv, DeckOK, TreeAnswered
<1> DEFINE add == mergeUniqueRelated(Visited, b)
           new == Visited \o add
<1>b. /\ new \in Seq(Card) /\ new # <<>> /\ Standing(new, index)
      /\ add # <<>> => index + 1 < Len(new)
  BY <1>a, Dealt DEF Standing
<1>c. /\ deck' \in {deck, new} /\ face' \in {face, [face EXCEPT !.pending = FALSE]}
      /\ deck' # deck => face' = [face EXCEPT !.pending = FALSE]
  BY DEF TreeAnswered
<1> HIDE DEF add, new
<1>1. TypeOK'
  <2> USE DEF IInv
  <2>1. DeckTyped'
    BY Constants, <1>a, <1>b, <1>c
       DEF DeckTyped, TypeOK, Standing, Walk!IsDeck, Preference, ToLoad,
           TreeAnswered, Waits, grades, loads, swapVars
  <2>2. GradesTyped'
    BY Constants, <1>a, <1>b, <1>c
       DEF GradesTyped, TypeOK, Grade, TreeAnswered, Waits, grades, loads,
           swapVars
  <2>3. LoadsTyped'
    BY Constants, <1>a, <1>b, <1>c
       DEF LoadsTyped, TypeOK, Request, MoreRequest, TreeAnswered, Waits,
           grades, loads, swapVars
  <2>4. FaceTyped'
    BY Constants, FaceFacts, <1>a, <1>b, <1>c
       DEF FaceTyped, TypeOK, TreeAnswered, Waits, grades, loads, swapVars
  <2>5. FlagsTyped'
    BY Constants, <1>a, <1>b, <1>c
       DEF FlagsTyped, TypeOK, Rendered, TreeAnswered, Waits, grades, loads,
           swapVars
  <2> QED BY <2>1, <2>2, <2>3, <2>4, <2>5
             DEF TypeOK, DeckTyped, GradesTyped, LoadsTyped, FaceTyped,
                 FlagsTyped
<1>2. DeckOK'
  BY Constants, <1>a, <1>b, <1>c
     DEF IInv, TypeOK, DeckOK, SwapOK, Swapping, NoSwap, Reshuffle, Pending,
         Standing, ToLoad, Preference, Walk!IsDeck, TreeAnswered, Waits,
         grades, loads, swapVars, Rendered, Grade
<1>3. SwapOK'
  BY Constants, <1>a, <1>b, <1>c
     DEF IInv, TypeOK, SwapOK, Swapping, NoSwap, Pending, Landed, Reshuffle,
         Snapshot, Plan, DeckOK, TreeAnswered, Waits, grades, loads, swapVars,
         Rendered
<1>4. GradesOK'
  BY Constants, <1>a, <1>b, <1>c
     DEF IInv, TypeOK, Face, Cycle, SwapOK, GradesOK, AloneOK, Swapping,
         NoSwap, Pending, Landed, FailedSwapKeepsItsGrade, Reshuffle,
         TreeAnswered, Waits, grades, loads, swapVars, Rendered
<1>5. AloneOK'
  BY Constants, <1>a, <1>b, <1>c
     DEF IInv, TypeOK, Face, Cycle, SwapOK, AloneOK, WaitOK, DeckOK,
         MoreRequest, Swapping, NoSwap, Pending, RetryCycleIsSound, Visited,
         TreeAnswered, Waits, grades, loads, swapVars, Rendered
<1>6. WaitOK'
  BY Constants, <1>a, <1>b, <1>c
     DEF IInv, TypeOK, Face, Cycle, WaitOK, DeckOK, AloneOK, SwapOK,
         MoreRequest, RetryCycleIsSound, IsLast, Pending, Landed, Swapping,
         NoSwap, Reshuffle, TreeAnswered, Waits, grades, loads, swapVars,
         Rendered
<1> QED BY <1>1, <1>2, <1>3, <1>4, <1>5, <1>6 DEF IInv

(* The prefetch effect runs.                                               *)
LEMMA PrefetchEffectKeeps ==
    ASSUME IInv, PrefetchEffect
    PROVE  IInv'
<1>a. face \in Face /\ cycle \in Cycle
  BY DEF IInv, TypeOK
<1>b. NearTheEnd => Loaded(face, cycle)
  BY <1>a, LoadMoreFacts DEF IInv, PrefetchEffect
<1>1. TypeOK'
  <2> USE DEF IInv
  <2>1. DeckTyped'
    BY Constants, <1>a, <1>b
       DEF DeckTyped, TypeOK, Preference, ToLoad, Swapping, NoSwap,
           PrefetchEffect, NearTheEnd, grades, loads, ghosts, swapVars, Loaded,
           Face, Cycle
  <2>2. GradesTyped'
    BY Constants, <1>a, <1>b
       DEF GradesTyped, TypeOK, Grade, Swapping, NoSwap, PrefetchEffect,
           NearTheEnd, grades, loads, ghosts, swapVars, Loaded, Face, Cycle
  <2>3. LoadsTyped'
    BY Constants, <1>a, <1>b
       DEF LoadsTyped, TypeOK, Request, MoreRequest, PrefetchEffect,
           NearTheEnd, grades, loads, ghosts, swapVars, Loaded, Face, Cycle
  <2>4. FaceTyped'
    BY Constants, FaceFacts, <1>a, <1>b
       DEF FaceTyped, TypeOK, PrefetchEffect, NearTheEnd, grades, loads,
           ghosts, swapVars, Loaded
  <2>5. FlagsTyped'
    BY Constants, <1>a, <1>b
       DEF FlagsTyped, TypeOK, Swapping, PrefetchEffect, NearTheEnd, grades,
           loads, ghosts, swapVars, Loaded, Face, Cycle
  <2> QED BY <2>1, <2>2, <2>3, <2>4, <2>5
             DEF TypeOK, DeckTyped, GradesTyped, LoadsTyped, FaceTyped,
                 FlagsTyped
<1>2. DeckOK'
  BY Constants, <1>a, <1>b
     DEF IInv, TypeOK, DeckOK, SwapOK, Swapping, NoSwap, Reshuffle, Pending,
         Standing, ToLoad, Preference, Walk!IsDeck, PrefetchEffect, NearTheEnd,
         grades, loads, ghosts, swapVars, Loaded, Face, Cycle, Grade
<1>3. SwapOK'
  BY Constants, <1>a, <1>b
     DEF IInv, TypeOK, SwapOK, Swapping, NoSwap, Pending, Landed, Reshuffle,
         Snapshot, Plan, DeckOK, PrefetchEffect, NearTheEnd, grades, loads,
         ghosts, swapVars, Loaded, Face, Cycle
<1>4. GradesOK'
  BY Constants, <1>a, <1>b
     DEF IInv, TypeOK, Face, Cycle, SwapOK, GradesOK, AloneOK, Swapping,
         NoSwap, Pending, Landed, FailedSwapKeepsItsGrade, Reshuffle,
         PrefetchEffect, NearTheEnd, grades, loads, ghosts, swapVars, Loaded
<1>5. AloneOK'
  BY Constants, <1>a, <1>b
     DEF IInv, TypeOK, Face, Cycle, SwapOK, AloneOK, WaitOK, DeckOK,
         MoreRequest, Swapping, NoSwap, Pending, RetryCycleIsSound, Visited,
         PrefetchEffect, NearTheEnd, grades, loads, ghosts, swapVars, Loaded
<1>6. WaitOK'
  BY Constants, <1>a, <1>b
     DEF IInv, TypeOK, Face, Cycle, WaitOK, DeckOK, AloneOK, SwapOK,
         MoreRequest, RetryCycleIsSound, IsLast, Pending, Landed, Swapping,
         NoSwap, Reshuffle, PrefetchEffect, NearTheEnd, grades, loads, ghosts,
         swapVars, Loaded
<1> QED BY <1>1, <1>2, <1>3, <1>4, <1>5, <1>6 DEF IInv

(* The timer of the retry cycle fires.                                     *)
LEMMA RetryTimerKeeps ==
    ASSUME IInv, RetryTimer
    PROVE  IInv'
<1> DEFINE c == [cycle EXCEPT !.timer = FALSE]
<1>a. face \in Face /\ c \in Cycle /\ ~c.timer /\ c.empties = cycle.empties
  BY FaceFacts DEF IInv, TypeOK
<1>b. Loaded(face, c)
  BY <1>a, LoadMoreFacts DEF IInv, RetryTimer
<1> HIDE DEF c
<1>1. TypeOK'
  <2> USE DEF IInv
  <2>1. DeckTyped'
    BY Constants, <1>a, <1>b
       DEF DeckTyped, TypeOK, Preference, ToLoad, RetryTimer, grades, loads,
           ghosts, swapVars, Loaded, Face, Cycle
  <2>2. GradesTyped'
    BY Constants, <1>a, <1>b
       DEF GradesTyped, TypeOK, Grade, RetryTimer, grades, loads, ghosts,
           swapVars, Loaded, Face, Cycle
  <2>3. LoadsTyped'
    BY Constants, <1>a, <1>b
       DEF LoadsTyped, TypeOK, Request, MoreRequest, RetryTimer, grades, loads,
           ghosts, swapVars, Loaded, Face, Cycle
  <2>4. FaceTyped'
    BY Constants, FaceFacts, <1>a, <1>b
       DEF FaceTyped, TypeOK, RetryTimer, grades, loads, ghosts, swapVars,
           Loaded
  <2>5. FlagsTyped'
    BY Constants, <1>a, <1>b
       DEF FlagsTyped, TypeOK, Rendered, RetryTimer, grades, loads, ghosts,
           swapVars, Loaded, Face, Cycle
  <2> QED BY <2>1, <2>2, <2>3, <2>4, <2>5
             DEF TypeOK, DeckTyped, GradesTyped, LoadsTyped, FaceTyped,
                 FlagsTyped
<1>2. DeckOK'
  BY Constants, <1>a, <1>b
     DEF IInv, TypeOK, DeckOK, SwapOK, Swapping, NoSwap, Reshuffle, Pending,
         Standing, ToLoad, Preference, Walk!IsDeck, RetryTimer, grades, loads,
         ghosts, swapVars, Rendered, Loaded, Face, Cycle, Grade
<1>3. SwapOK'
  BY Constants, <1>a, <1>b
     DEF IInv, TypeOK, SwapOK, Swapping, NoSwap, Pending, Landed, Reshuffle,
         Snapshot, Plan, DeckOK, RetryTimer, grades, loads, ghosts, swapVars,
         Rendered, Loaded, Face, Cycle
<1>4. GradesOK'
  BY Constants, <1>a, <1>b
     DEF IInv, TypeOK, Face, Cycle, SwapOK, GradesOK, AloneOK, Swapping,
         NoSwap, Pending, Landed, FailedSwapKeepsItsGrade, Reshuffle,
         RetryTimer, grades, loads, ghosts, swapVars, Rendered, Loaded
<1>5. AloneOK'
  BY Constants, <1>a, <1>b
     DEF IInv, TypeOK, Face, Cycle, SwapOK, AloneOK, WaitOK, DeckOK,
         MoreRequest, Swapping, NoSwap, Pending, RetryCycleIsSound, Visited,
         RetryTimer, grades, loads, ghosts, swapVars, Rendered, Loaded
<1>6. WaitOK'
  BY Constants, <1>a, <1>b
     DEF IInv, TypeOK, Face, Cycle, WaitOK, DeckOK, AloneOK, SwapOK,
         MoreRequest, RetryCycleIsSound, IsLast, Pending, Landed, Swapping,
         NoSwap, Reshuffle, RetryTimer, grades, loads, ghosts, swapVars,
         Rendered, Loaded
<1> QED BY <1>1, <1>2, <1>3, <1>4, <1>5, <1>6 DEF IInv

(* The cards have gathered.                                                *)
LEMMA GatherTimerKeeps ==
    ASSUME IInv, GatherTimer
    PROVE  IInv'
<1>1. TypeOK'
  BY Constants
     DEF IInv, TypeOK, Grade, GatherTimer, grades, loads, ghosts, Rendered
<1>2. DeckOK'
  BY Constants
     DEF IInv, TypeOK, DeckOK, SwapOK, Swapping, NoSwap, Reshuffle, Pending,
         Standing, ToLoad, Preference, Walk!IsDeck, GatherTimer, grades, loads,
         ghosts, Rendered, Grade
<1>3. SwapOK'
  BY Constants
     DEF IInv, TypeOK, SwapOK, Swapping, NoSwap, Pending, Landed, Reshuffle,
         Snapshot, Plan, DeckOK, GatherTimer, grades, loads, ghosts, Rendered
<1>4. GradesOK'
  BY Constants
     DEF IInv, TypeOK, Face, Cycle, SwapOK, GradesOK, AloneOK, Swapping,
         NoSwap, Pending, Landed, FailedSwapKeepsItsGrade, Reshuffle,
         GatherTimer, grades, loads, ghosts, Rendered
<1>5. AloneOK'
  BY Constants
     DEF IInv, TypeOK, Face, Cycle, SwapOK, AloneOK, WaitOK, DeckOK,
         MoreRequest, Swapping, NoSwap, Pending, RetryCycleIsSound, Visited,
         GatherTimer, grades, loads, ghosts, Rendered
<1>6. WaitOK'
  BY Constants
     DEF IInv, TypeOK, Face, Cycle, WaitOK, DeckOK, AloneOK, SwapOK,
         MoreRequest, RetryCycleIsSound, IsLast, Pending, Landed, Swapping,
         NoSwap, Reshuffle, GatherTimer, grades, loads, ghosts, Rendered
<1> QED BY <1>1, <1>2, <1>3, <1>4, <1>5, <1>6 DEF IInv

(* The reshuffle lands: its plan is dealt, or the deck of before is put    *)
(* back with its grade.                                                    *)
LEMMA SwapLandsKeeps ==
    ASSUME IInv, SwapLands
    PROVE  IInv'
<1> DEFINE failed == swap.plan.kind = "fail"
           to == IF failed THEN snapshot ELSE swap.plan
<1>a. /\ Pending /\ swap \in Reshuffle /\ swap.stage = "planned"
      /\ swap.plan \in Plan /\ snapshot \in Snapshot
      /\ Standing(snapshot.deck, snapshot.index)
      /\ ~failed => Standing(swap.plan.deck, swap.plan.index)
      /\ deck # <<>>
  BY DEF IInv, SwapOK, DeckOK, SwapLands, Pending, Swapping, NoSwap
<1>b. deck' = to.deck /\ index' = to.index
  BY DEF SwapLands
<1>c. Standing(deck', index') /\ deck' # <<>> /\ deck' \in Seq(Card)
  BY <1>a, <1>b DEF Standing, Walk!IsDeck
<1>d. /\ Swapping' /\ swap' \in Reshuffle /\ swap'.stage = "settling"
      /\ swap'.lat = swap.lat /\ swap'.plan = swap.plan
  BY <1>a DEF SwapLands, Reshuffle, Swapping, NoSwap
<1>e. /\ laterality' = IF failed THEN snapshot.lat ELSE laterality
      /\ committed' = IF failed THEN committed ELSE swap.lat
      /\ retryGrade' = IF failed THEN swap.lat ELSE None
      /\ face' = [face EXCEPT !.pending = FALSE, !.loadMoreError =
                    @ /\ swap.plan.kind # "deal"]
      /\ dealt' = IF failed THEN dealt ELSE swap.lat
      /\ early' = (early /\ failed)
      /\ UNCHANGED <<hydrated, complexity, error, first, superseded, more, tree,
                     cycle, swapFailed, offline, meddled>>
      /\ dropped' = (dropped /\ face'.pending) /\ Rendered
  BY DEF SwapLands, Waits
<1>1. TypeOK'
  <2> USE DEF IInv
  <2>1. DeckTyped'
    BY Constants, <1>a, <1>c, <1>d, <1>e
       DEF DeckTyped, TypeOK, Standing, Walk!IsDeck, Preference, ToLoad,
           Pending, Swapping, NoSwap, loads
  <2>2. GradesTyped'
    BY Constants, <1>a, <1>c, <1>d, <1>e
       DEF GradesTyped, TypeOK, Grade, Swapping, Pending, NoSwap, Reshuffle,
           Snapshot, loads
  <2>3. LoadsTyped'
    BY Constants, <1>a, <1>c, <1>d, <1>e
       DEF LoadsTyped, TypeOK, Request, MoreRequest, loads
  <2>4. FaceTyped'
    <3>1. face \in Face /\ cycle' \in Cycle
      BY <1>e DEF TypeOK
    <3> QED BY <3>1, <1>e DEF FaceTyped, Face
  <2>5. FlagsTyped'
    BY Constants, <1>a, <1>c, <1>d, <1>e
       DEF FlagsTyped, TypeOK, Rendered, Plan, Reshuffle, Swapping, loads
  <2> QED BY <2>1, <2>2, <2>3, <2>4, <2>5
             DEF TypeOK, DeckTyped, GradesTyped, LoadsTyped, FaceTyped,
                 FlagsTyped
<1>2. DeckOK'
  BY Constants, <1>a, <1>c, <1>d, <1>e
     DEF IInv, TypeOK, DeckOK, SwapOK, Swapping, NoSwap, Reshuffle, Pending,
         Standing, ToLoad, Preference, Walk!IsDeck, loads, Rendered, Grade
<1>3. SwapOK'
  BY Constants, <1>a, <1>c, <1>d, <1>e
     DEF IInv, TypeOK, SwapOK, Swapping, NoSwap, Pending, Landed, Reshuffle,
         Snapshot, Plan, DeckOK, loads, Rendered
<1>4. GradesOK'
  BY Constants, <1>a, <1>c, <1>d, <1>e
     DEF IInv, TypeOK, Face, Cycle, SwapOK, GradesOK, AloneOK, Swapping,
         NoSwap, Pending, Landed, FailedSwapKeepsItsGrade, Reshuffle, loads,
         Rendered
<1>5. AloneOK'
  BY Constants, <1>a, <1>c, <1>d, <1>e
     DEF IInv, TypeOK, Face, Cycle, SwapOK, AloneOK, WaitOK, DeckOK,
         MoreRequest, Swapping, NoSwap, Pending, RetryCycleIsSound, Visited,
         loads, Rendered
<1>6. WaitOK'
  BY Constants, <1>a, <1>c, <1>d, <1>e
     DEF IInv, TypeOK, Face, Cycle, WaitOK, DeckOK, AloneOK, SwapOK,
         MoreRequest, RetryCycleIsSound, IsLast, Pending, Landed, Swapping,
         NoSwap, Reshuffle, loads, Rendered
<1> QED BY <1>1, <1>2, <1>3, <1>4, <1>5, <1>6 DEF IInv

(* The reshuffle ends, and says what it did not find.                      *)
LEMMA SwapEndsKeeps ==
    ASSUME IInv, SwapEnds
    PROVE  IInv'
<1>1. TypeOK'
  <2> USE DEF IInv
  <2>1. DeckTyped'
    BY Constants
       DEF DeckTyped, TypeOK, Preference, ToLoad, Swapping, NoSwap, SwapEnds,
           grades, loads, ghosts
  <2>2. GradesTyped'
    BY Constants
       DEF GradesTyped, TypeOK, Grade, Swapping, NoSwap, SwapEnds, grades,
           loads, ghosts
  <2>3. LoadsTyped'
    BY Constants
       DEF LoadsTyped, TypeOK, Request, MoreRequest, SwapEnds, grades, loads,
           ghosts
  <2>4. FaceTyped'
    <3>1. face \in Face /\ cycle' \in Cycle
      BY DEF TypeOK, SwapEnds
    <3> QED BY <3>1 DEF FaceTyped, Face, SwapEnds
  <2>5. FlagsTyped'
    BY Constants
       DEF FlagsTyped, TypeOK, Rendered, Swapping, SwapEnds, grades, loads,
           ghosts
  <2> QED BY <2>1, <2>2, <2>3, <2>4, <2>5
             DEF TypeOK, DeckTyped, GradesTyped, LoadsTyped, FaceTyped,
                 FlagsTyped
<1>2. DeckOK'
  BY Constants
     DEF IInv, TypeOK, DeckOK, SwapOK, Swapping, NoSwap, Reshuffle, Pending,
         Standing, ToLoad, Preference, Walk!IsDeck, SwapEnds, grades, loads,
         ghosts, Rendered, Grade
<1>3. SwapOK'
  BY Constants
     DEF IInv, TypeOK, SwapOK, Swapping, NoSwap, Pending, Landed, Reshuffle,
         Snapshot, Plan, DeckOK, SwapEnds, grades, loads, ghosts, Rendered
<1>4. GradesOK'
  BY Constants
     DEF IInv, TypeOK, Face, Cycle, SwapOK, GradesOK, AloneOK, Swapping,
         NoSwap, Pending, Landed, FailedSwapKeepsItsGrade, Reshuffle, SwapEnds,
         grades, loads, ghosts, Rendered
<1>5. AloneOK'
  BY Constants
     DEF IInv, TypeOK, Face, Cycle, SwapOK, AloneOK, WaitOK, DeckOK,
         MoreRequest, Swapping, NoSwap, Pending, RetryCycleIsSound, Visited,
         SwapEnds, grades, loads, ghosts, Rendered
<1>6. WaitOK'
  BY Constants
     DEF IInv, TypeOK, Face, Cycle, WaitOK, DeckOK, AloneOK, SwapOK,
         MoreRequest, RetryCycleIsSound, IsLast, Pending, Landed, Swapping,
         NoSwap, Reshuffle, SwapEnds, grades, loads, ghosts, Rendered
<1> QED BY <1>1, <1>2, <1>3, <1>4, <1>5, <1>6 DEF IInv

(* A swipe forward, or onto the loading face.                              *)
LEMMA OnSwipeLeftKeeps ==
    ASSUME IInv, OnSwipeLeft
    PROVE  IInv'
<1> DEFINE w == [NoFace EXCEPT !.pending = TRUE]
<1>a. /\ w \in Face /\ w.pending /\ ~w.noNextIdea /\ ~w.loadMoreError
      /\ Calm(face) \in Face /\ Calm(face).pending = face.pending
      /\ ~Calm(face).loadMoreError /\ ~Calm(face).noNextIdea
      /\ FreshCycle \in Cycle /\ ~FreshCycle.timer /\ FreshCycle.empties = 0
  BY FaceFacts DEF IInv, TypeOK, FreshCycle, NoFace
<1>b. IsLast /\ ~offline => Loaded(w, FreshCycle)
  BY <1>a, LoadMoreFacts DEF IInv, OnSwipeLeft
<1> HIDE DEF w
<1>1. TypeOK'
  <2> USE DEF IInv
  <2>1. DeckTyped'
    BY Constants, <1>a, <1>b
       DEF DeckTyped, TypeOK, IsLast, Preference, ToLoad, ErrorPage, Swapping,
           NoSwap, OnSwipeLeft, CanSwipeForward, CanSwipe, showMainDeck,
           NoFace, Waits, grades, loads, swapVars, Loaded, Face, Cycle
  <2>2. GradesTyped'
    BY Constants, <1>a, <1>b
       DEF GradesTyped, TypeOK, Grade, Swapping, NoSwap, OnSwipeLeft,
           CanSwipeForward, CanSwipe, showMainDeck, NoFace, Waits, grades,
           loads, swapVars, Loaded, Face, Cycle
  <2>3. LoadsTyped'
    BY Constants, <1>a, <1>b
       DEF LoadsTyped, TypeOK, Request, MoreRequest, OnSwipeLeft,
           CanSwipeForward, CanSwipe, showMainDeck, NoFace, Waits, grades,
           loads, swapVars, Loaded, Face, Cycle
  <2>4. FaceTyped'
    BY Constants, FaceFacts, <1>a, <1>b
       DEF FaceTyped, TypeOK, OnSwipeLeft, CanSwipeForward, CanSwipe,
           showMainDeck, Waits, grades, loads, swapVars, Loaded
  <2>5. FlagsTyped'
    BY Constants, <1>a, <1>b
       DEF FlagsTyped, TypeOK, Rendered, Swapping, OnSwipeLeft,
           CanSwipeForward, CanSwipe, showMainDeck, NoFace, Waits, grades,
           loads, swapVars, Loaded, Face, Cycle
  <2> QED BY <2>1, <2>2, <2>3, <2>4, <2>5
             DEF TypeOK, DeckTyped, GradesTyped, LoadsTyped, FaceTyped,
                 FlagsTyped
<1>2. DeckOK'
  BY Constants, <1>a, <1>b
     DEF IInv, TypeOK, DeckOK, SwapOK, Swapping, NoSwap, Reshuffle, Pending,
         Standing, ErrorPage, ToLoad, Preference, IsLast, Walk!IsDeck,
         OnSwipeLeft, CanSwipeForward, CanSwipe, showMainDeck, NoFace, Waits,
         grades, loads, swapVars, Rendered, Loaded, Face, Cycle, Grade
<1>3. SwapOK'
  BY Constants, <1>a, <1>b
     DEF IInv, TypeOK, SwapOK, Swapping, NoSwap, Pending, Landed, Reshuffle,
         Snapshot, Plan, DeckOK, OnSwipeLeft, CanSwipeForward, CanSwipe,
         showMainDeck, NoFace, Waits, grades, loads, swapVars, Rendered,
         Loaded, Face, Cycle
<1>4. GradesOK'
  BY Constants, <1>a, <1>b
     DEF IInv, TypeOK, Face, Cycle, SwapOK, GradesOK, AloneOK, Swapping,
         NoSwap, Pending, Landed, FailedSwapKeepsItsGrade, Reshuffle,
         OnSwipeLeft, CanSwipeForward, CanSwipe, showMainDeck, NoFace, Waits,
         grades, loads, swapVars, Rendered, Loaded
<1>5. AloneOK'
  BY Constants, <1>a, <1>b
     DEF IInv, TypeOK, Face, Cycle, SwapOK, AloneOK, WaitOK, DeckOK,
         MoreRequest, Swapping, NoSwap, Pending, RetryCycleIsSound, Visited,
         NoFace, OnSwipeLeft, CanSwipeForward, CanSwipe, showMainDeck, Waits,
         grades, loads, swapVars, Rendered, Loaded
<1>6. WaitOK'
  <2>1. CASE ~IsLast
    BY <2>1, <1>a, Constants
       DEF IInv, NoFace, OnSwipeLeft, CanSwipeForward, CanSwipe, deckSlotState,
           Waits, TypeOK, Face, Cycle, WaitOK, DeckOK, SwapOK, Standing,
           Walk!IsDeck, RetryCycleIsSound, Landed, Swapping, Rendered, grades,
           loads, swapVars
  <2>2. CASE IsLast /\ offline
    BY <2>2, <1>a, Constants
       DEF IInv, IsLast, OnSwipeLeft, CanSwipeForward, CanSwipe, deckSlotState,
           Waits, TypeOK, Face, Cycle, WaitOK, DeckOK, SwapOK, Standing,
           Walk!IsDeck, RetryCycleIsSound, Landed, Swapping, Rendered, grades,
           loads, swapVars
  <2>3. CASE IsLast /\ ~offline
    BY <2>3, <1>a, <1>b, Constants
       DEF IInv, Loaded, IsLast, OnSwipeLeft, CanSwipeForward, CanSwipe,
           deckSlotState, Waits, TypeOK, Face, Cycle, WaitOK, DeckOK, SwapOK,
           Standing, Walk!IsDeck, RetryCycleIsSound, Landed, Swapping,
           Rendered, grades, loads, swapVars
  <2> QED BY <2>1, <2>2, <2>3
<1> QED BY <1>1, <1>2, <1>3, <1>4, <1>5, <1>6 DEF IInv

(* A swipe back, or off the loading face.                                  *)
LEMMA OnSwipeRightKeeps ==
    ASSUME IInv, OnSwipeRight
    PROVE  IInv'
<1>1. TypeOK'
  <2> USE DEF IInv
  <2>1. DeckTyped'
    BY Constants
       DEF DeckTyped, TypeOK, IsLast, Preference, ToLoad, ErrorPage, Swapping,
           NoSwap, OnSwipeRight, CanSwipe, showMainDeck, deckSlotState, Waits,
           grades, loads, swapVars
  <2>2. GradesTyped'
    BY Constants
       DEF GradesTyped, TypeOK, Grade, Swapping, NoSwap, OnSwipeRight,
           CanSwipe, showMainDeck, deckSlotState, Waits, grades, loads,
           swapVars
  <2>3. LoadsTyped'
    BY Constants
       DEF LoadsTyped, TypeOK, Request, MoreRequest, OnSwipeRight, CanSwipe,
           showMainDeck, deckSlotState, Waits, grades, loads, swapVars
  <2>4. FaceTyped'
    BY Constants, FaceFacts
       DEF FaceTyped, TypeOK, OnSwipeRight, CanSwipe, showMainDeck,
           deckSlotState, Waits, grades, loads, swapVars
  <2>5. FlagsTyped'
    BY Constants
       DEF FlagsTyped, TypeOK, Rendered, Swapping, OnSwipeRight, CanSwipe,
           showMainDeck, deckSlotState, Waits, grades, loads, swapVars
  <2> QED BY <2>1, <2>2, <2>3, <2>4, <2>5
             DEF TypeOK, DeckTyped, GradesTyped, LoadsTyped, FaceTyped,
                 FlagsTyped
<1>2. DeckOK'
  BY Constants
     DEF IInv, TypeOK, DeckOK, SwapOK, Swapping, NoSwap, Reshuffle, Pending,
         Standing, ErrorPage, ToLoad, Preference, IsLast, Walk!IsDeck,
         OnSwipeRight, CanSwipe, showMainDeck, deckSlotState, Waits, grades,
         loads, swapVars, Rendered, Grade
<1>3. SwapOK'
  BY Constants
     DEF IInv, TypeOK, SwapOK, Swapping, NoSwap, Pending, Landed, Reshuffle,
         Snapshot, Plan, DeckOK, OnSwipeRight, CanSwipe, showMainDeck,
         deckSlotState, Waits, grades, loads, swapVars, Rendered
<1>4. GradesOK'
  BY Constants
     DEF IInv, TypeOK, Face, Cycle, SwapOK, GradesOK, AloneOK, Swapping,
         NoSwap, Pending, Landed, FailedSwapKeepsItsGrade, Reshuffle,
         OnSwipeRight, CanSwipe, showMainDeck, deckSlotState, Waits, grades,
         loads, swapVars, Rendered
<1>5. AloneOK'
  BY Constants
     DEF IInv, TypeOK, Face, Cycle, SwapOK, AloneOK, WaitOK, DeckOK,
         MoreRequest, Swapping, NoSwap, Pending, RetryCycleIsSound, Visited,
         OnSwipeRight, CanSwipe, showMainDeck, deckSlotState, Waits, grades,
         loads, swapVars, Rendered
<1>6. WaitOK'
  BY Constants
     DEF IInv, TypeOK, Face, Cycle, WaitOK, DeckOK, AloneOK, SwapOK,
         MoreRequest, RetryCycleIsSound, IsLast, Pending, Landed, Swapping,
         NoSwap, Reshuffle, OnSwipeRight, CanSwipe, showMainDeck,
         deckSlotState, Waits, grades, loads, swapVars, Rendered
<1> QED BY <1>1, <1>2, <1>3, <1>4, <1>5, <1>6 DEF IInv

(* A swipe to the neighbouring complexity.                                 *)
LEMMA OnSwipeVerticalKeeps ==
    ASSUME NEW c \in Complexity, IInv, OnSwipeVertical(c)
    PROVE  IInv'
<1>1. TypeOK'
  <2> USE DEF IInv
  <2>1. DeckTyped'
    BY Constants
       DEF DeckTyped, TypeOK, IsLast, Preference, ToLoad, ErrorPage, Swapping,
           NoSwap, OnSwipeVertical, CanSwipeForward, CanSwipe, showMainDeck,
           NoFace, FreshCycle, PrefetchComplexityTree, Outdated, Waits, loads,
           swapVars
  <2>2. GradesTyped'
    BY Constants
       DEF GradesTyped, TypeOK, Grade, Swapping, NoSwap, OnSwipeVertical,
           CanSwipeForward, CanSwipe, showMainDeck, NoFace, FreshCycle,
           PrefetchComplexityTree, Outdated, Waits, loads, swapVars
  <2>3. LoadsTyped'
    BY Constants
       DEF LoadsTyped, TypeOK, Request, MoreRequest, OnSwipeVertical,
           CanSwipeForward, CanSwipe, showMainDeck, NoFace, FreshCycle,
           PrefetchComplexityTree, Outdated, Waits, loads, swapVars
  <2>4. FaceTyped'
    BY Constants, FaceFacts
       DEF FaceTyped, TypeOK, OnSwipeVertical, CanSwipeForward, CanSwipe,
           showMainDeck, PrefetchComplexityTree, Outdated, Waits, loads,
           swapVars
  <2>5. FlagsTyped'
    BY Constants
       DEF FlagsTyped, TypeOK, Rendered, Swapping, OnSwipeVertical,
           CanSwipeForward, CanSwipe, showMainDeck, NoFace, FreshCycle,
           PrefetchComplexityTree, Outdated, Waits, loads, swapVars
  <2> QED BY <2>1, <2>2, <2>3, <2>4, <2>5
             DEF TypeOK, DeckTyped, GradesTyped, LoadsTyped, FaceTyped,
                 FlagsTyped
<1>2. DeckOK'
  BY Constants
     DEF IInv, TypeOK, DeckOK, SwapOK, Swapping, NoSwap, Reshuffle, Pending,
         Standing, ErrorPage, ToLoad, Preference, IsLast, Walk!IsDeck,
         OnSwipeVertical, CanSwipeForward, CanSwipe, showMainDeck, NoFace,
         FreshCycle, PrefetchComplexityTree, Outdated, Waits, loads, swapVars,
         Rendered, Grade
<1>3. SwapOK'
  BY Constants
     DEF IInv, TypeOK, SwapOK, Swapping, NoSwap, Pending, Landed, Reshuffle,
         Snapshot, Plan, DeckOK, OnSwipeVertical, CanSwipeForward, CanSwipe,
         showMainDeck, NoFace, FreshCycle, PrefetchComplexityTree, Outdated,
         Waits, loads, swapVars, Rendered
<1>4. GradesOK'
  BY Constants
     DEF IInv, TypeOK, Face, Cycle, SwapOK, GradesOK, AloneOK, Swapping,
         NoSwap, Pending, Landed, FailedSwapKeepsItsGrade, Reshuffle,
         OnSwipeVertical, CanSwipeForward, CanSwipe, showMainDeck, NoFace,
         FreshCycle, PrefetchComplexityTree, Outdated, Waits, loads, swapVars,
         Rendered
<1>5. AloneOK'
  BY Constants
     DEF IInv, TypeOK, Face, Cycle, SwapOK, AloneOK, WaitOK, DeckOK,
         MoreRequest, Swapping, NoSwap, Pending, RetryCycleIsSound, Visited,
         NoFace, OnSwipeVertical, CanSwipeForward, CanSwipe, showMainDeck,
         FreshCycle, PrefetchComplexityTree, Outdated, Waits, loads, swapVars,
         Rendered
<1>6. WaitOK'
  BY Constants
     DEF IInv, TypeOK, Face, Cycle, WaitOK, DeckOK, AloneOK, SwapOK,
         MoreRequest, RetryCycleIsSound, IsLast, Pending, Landed, Swapping,
         NoSwap, Reshuffle, OnSwipeVertical, CanSwipeForward, CanSwipe,
         showMainDeck, NoFace, FreshCycle, PrefetchComplexityTree, Outdated,
         Waits, loads, swapVars, Rendered
<1> QED BY <1>1, <1>2, <1>3, <1>4, <1>5, <1>6 DEF IInv

(* A complexity picked in the menu.                                        *)
LEMMA OnSelectComplexityKeeps ==
    ASSUME NEW c \in Complexity, IInv, OnSelectComplexity(c)
    PROVE  IInv'
<1>1. TypeOK'
  <2> USE DEF IInv
  <2>1. DeckTyped'
    BY Constants
       DEF DeckTyped, TypeOK, Preference, ToLoad, ErrorPage, Swapping, NoSwap,
           OnSelectComplexity, showMainDeck, Calm, FreshCycle,
           PrefetchComplexityTree, Outdated, loads, swapVars
  <2>2. GradesTyped'
    BY Constants
       DEF GradesTyped, TypeOK, Grade, Swapping, NoSwap, OnSelectComplexity,
           showMainDeck, Calm, FreshCycle, PrefetchComplexityTree, Outdated,
           loads, swapVars
  <2>3. LoadsTyped'
    BY Constants
       DEF LoadsTyped, TypeOK, Request, MoreRequest, OnSelectComplexity,
           showMainDeck, Calm, FreshCycle, PrefetchComplexityTree, Outdated,
           loads, swapVars
  <2>4. FaceTyped'
    BY Constants, FaceFacts
       DEF FaceTyped, TypeOK, OnSelectComplexity, showMainDeck,
           PrefetchComplexityTree, Outdated, loads, swapVars
  <2>5. FlagsTyped'
    BY Constants
       DEF FlagsTyped, TypeOK, Rendered, Swapping, OnSelectComplexity,
           showMainDeck, Calm, FreshCycle, PrefetchComplexityTree, Outdated,
           loads, swapVars
  <2> QED BY <2>1, <2>2, <2>3, <2>4, <2>5
             DEF TypeOK, DeckTyped, GradesTyped, LoadsTyped, FaceTyped,
                 FlagsTyped
<1>2. DeckOK'
  BY Constants
     DEF IInv, TypeOK, DeckOK, SwapOK, Swapping, NoSwap, Reshuffle, Pending,
         Standing, ErrorPage, ToLoad, Preference, Walk!IsDeck,
         OnSelectComplexity, showMainDeck, Calm, FreshCycle,
         PrefetchComplexityTree, Outdated, loads, swapVars, Rendered, Grade
<1>3. SwapOK'
  BY Constants
     DEF IInv, TypeOK, SwapOK, Swapping, NoSwap, Pending, Landed, Reshuffle,
         Snapshot, Plan, DeckOK, OnSelectComplexity, showMainDeck, Calm,
         FreshCycle, PrefetchComplexityTree, Outdated, loads, swapVars,
         Rendered
<1>4. GradesOK'
  BY Constants
     DEF IInv, TypeOK, Face, Cycle, SwapOK, GradesOK, AloneOK, Swapping,
         NoSwap, Pending, Landed, FailedSwapKeepsItsGrade, Reshuffle,
         OnSelectComplexity, showMainDeck, Calm, FreshCycle,
         PrefetchComplexityTree, Outdated, loads, swapVars, Rendered
<1>5. AloneOK'
  BY Constants
     DEF IInv, TypeOK, Face, Cycle, SwapOK, AloneOK, WaitOK, DeckOK,
         MoreRequest, Swapping, NoSwap, Pending, RetryCycleIsSound, Visited,
         OnSelectComplexity, showMainDeck, Calm, FreshCycle,
         PrefetchComplexityTree, Outdated, loads, swapVars, Rendered
<1>6. WaitOK'
  BY Constants
     DEF IInv, TypeOK, Face, Cycle, WaitOK, DeckOK, AloneOK, SwapOK,
         MoreRequest, RetryCycleIsSound, IsLast, Pending, Landed, Swapping,
         NoSwap, Reshuffle, OnSelectComplexity, showMainDeck, Calm, FreshCycle,
         PrefetchComplexityTree, Outdated, loads, swapVars, Rendered
<1> QED BY <1>1, <1>2, <1>3, <1>4, <1>5, <1>6 DEF IInv

(* A reshuffle begins, wherever it was asked for.                          *)
LEMMA BeginSwapKeeps ==
    ASSUME NEW g \in Laterality, IInv, g # laterality, ~Swapping, BeginSwap(g, face),
           UNCHANGED <<hydrated, deck, index, complexity, dealt, error, first,
                       superseded, offline>>,
           Waits, Rendered
    PROVE  IInv'
<1>a. /\ Calm(face) \in Face /\ Calm(face).pending = face.pending
      /\ ~Calm(face).loadMoreError /\ ~Calm(face).noNextIdea
  BY FaceFacts DEF IInv, TypeOK
<1>1. TypeOK'
  <2> USE DEF IInv
  <2>1. DeckTyped'
    BY Constants, <1>a
       DEF DeckTyped, TypeOK, Preference, ToLoad, Swapping, NoSwap, BeginSwap,
           FreshCycle, Outdated, Waits, loads
  <2>2. GradesTyped'
    BY Constants, <1>a
       DEF GradesTyped, TypeOK, Grade, Swapping, NoSwap, BeginSwap, FreshCycle,
           Outdated, Waits, loads
  <2>3. LoadsTyped'
    BY Constants, <1>a
       DEF LoadsTyped, TypeOK, Request, MoreRequest, BeginSwap, FreshCycle,
           Outdated, Waits, loads
  <2>4. FaceTyped'
    BY Constants, FaceFacts, <1>a
       DEF FaceTyped, TypeOK, BeginSwap, Outdated, Waits, loads
  <2>5. FlagsTyped'
    BY Constants, <1>a
       DEF FlagsTyped, TypeOK, Rendered, Swapping, BeginSwap, FreshCycle,
           Outdated, Waits, loads
  <2> QED BY <2>1, <2>2, <2>3, <2>4, <2>5
             DEF TypeOK, DeckTyped, GradesTyped, LoadsTyped, FaceTyped,
                 FlagsTyped
<1>2. DeckOK'
  BY Constants, <1>a
     DEF IInv, TypeOK, DeckOK, SwapOK, Swapping, NoSwap, Reshuffle, Pending,
         Standing, ToLoad, Preference, Walk!IsDeck, BeginSwap, FreshCycle,
         Outdated, Waits, loads, Rendered
<1>3. SwapOK'
  BY Constants, <1>a
     DEF IInv, TypeOK, SwapOK, Swapping, NoSwap, Pending, Landed, Reshuffle,
         Snapshot, Plan, DeckOK, BeginSwap, FreshCycle, Outdated, Waits, loads,
         Rendered
<1>4. GradesOK'
  BY Constants, <1>a
     DEF IInv, TypeOK, Face, Cycle, SwapOK, GradesOK, AloneOK, Swapping,
         NoSwap, Pending, Landed, FailedSwapKeepsItsGrade, Reshuffle,
         BeginSwap, FreshCycle, Outdated, Waits, loads, Rendered
<1>5. AloneOK'
  BY Constants, <1>a
     DEF IInv, TypeOK, Face, Cycle, SwapOK, AloneOK, WaitOK, DeckOK,
         MoreRequest, Swapping, NoSwap, Pending, RetryCycleIsSound, Visited,
         BeginSwap, FreshCycle, Outdated, Waits, loads, Rendered
<1>6. WaitOK'
  BY Constants, <1>a
     DEF IInv, TypeOK, Face, Cycle, WaitOK, DeckOK, AloneOK, SwapOK,
         MoreRequest, RetryCycleIsSound, IsLast, Pending, Landed, Swapping,
         NoSwap, Reshuffle, BeginSwap, FreshCycle, Outdated, Waits, loads,
         Rendered
<1> QED BY <1>1, <1>2, <1>3, <1>4, <1>5, <1>6 DEF IInv

(* Load-more is retried by hand.                                           *)
LEMMA RetryLoadMoreKeeps ==
    ASSUME IInv, RetryLoadMore, UNCHANGED hydrated, Rendered,
           dropped' \in BOOLEAN, dropped /\ face'.pending => dropped',
           meddled => meddled', Swapping => meddled'
    PROVE  IInv'
<1>a. /\ Calm(face) \in Face /\ Calm(face).pending = face.pending
      /\ ~Calm(face).loadMoreError /\ ~Calm(face).noNextIdea
      /\ FreshCycle \in Cycle /\ ~FreshCycle.timer /\ FreshCycle.empties = 0
  BY FaceFacts DEF IInv, TypeOK, FreshCycle
<1>b. Loaded(Calm(face), FreshCycle)
  BY <1>a, LoadMoreFacts DEF IInv, RetryLoadMore
<1>1. TypeOK'
  <2> USE DEF IInv
  <2>1. DeckTyped'
    BY Constants, <1>a, <1>b
       DEF DeckTyped, TypeOK, Preference, ToLoad, Swapping, NoSwap,
           RetryLoadMore, grades, loads, swapVars, Loaded, Face, Cycle
  <2>2. GradesTyped'
    BY Constants, <1>a, <1>b
       DEF GradesTyped, TypeOK, Grade, Swapping, NoSwap, RetryLoadMore, grades,
           loads, swapVars, Loaded, Face, Cycle
  <2>3. LoadsTyped'
    BY Constants, <1>a, <1>b
       DEF LoadsTyped, TypeOK, Request, MoreRequest, RetryLoadMore, grades,
           loads, swapVars, Loaded, Face, Cycle
  <2>4. FaceTyped'
    BY Constants, FaceFacts, <1>a, <1>b
       DEF FaceTyped, TypeOK, RetryLoadMore, grades, loads, swapVars, Loaded
  <2>5. FlagsTyped'
    BY Constants, <1>a, <1>b
       DEF FlagsTyped, TypeOK, Rendered, Swapping, RetryLoadMore, grades,
           loads, swapVars, Loaded, Face, Cycle
  <2> QED BY <2>1, <2>2, <2>3, <2>4, <2>5
             DEF TypeOK, DeckTyped, GradesTyped, LoadsTyped, FaceTyped,
                 FlagsTyped
<1>2. DeckOK'
  BY Constants, <1>a, <1>b
     DEF IInv, TypeOK, DeckOK, SwapOK, Swapping, NoSwap, Reshuffle, Pending,
         Standing, ToLoad, Preference, Walk!IsDeck, RetryLoadMore, grades,
         loads, swapVars, Rendered, Loaded, Face, Cycle
<1>3. SwapOK'
  BY Constants, <1>a, <1>b
     DEF IInv, TypeOK, SwapOK, Swapping, NoSwap, Pending, Landed, Reshuffle,
         Snapshot, Plan, DeckOK, RetryLoadMore, grades, loads, swapVars,
         Rendered, Loaded, Face, Cycle
<1>4. GradesOK'
  BY Constants, <1>a, <1>b
     DEF IInv, TypeOK, Face, Cycle, SwapOK, GradesOK, AloneOK, Swapping,
         NoSwap, Pending, Landed, FailedSwapKeepsItsGrade, Reshuffle,
         RetryLoadMore, grades, loads, swapVars, Rendered, Loaded
<1>5. AloneOK'
  BY Constants, <1>a, <1>b
     DEF IInv, TypeOK, Face, Cycle, SwapOK, AloneOK, WaitOK, DeckOK,
         MoreRequest, Swapping, NoSwap, Pending, RetryCycleIsSound, Visited,
         RetryLoadMore, grades, loads, swapVars, Rendered, Loaded
<1>6. WaitOK'
  BY Constants, <1>a, <1>b
     DEF IInv, TypeOK, Face, Cycle, WaitOK, DeckOK, AloneOK, SwapOK,
         MoreRequest, RetryCycleIsSound, IsLast, Pending, Landed, Swapping,
         NoSwap, Reshuffle, RetryLoadMore, grades, loads, swapVars, Rendered,
         Loaded
<1> QED BY <1>1, <1>2, <1>3, <1>4, <1>5, <1>6 DEF IInv

(* Retry of the offline line, with no deck yet.                            *)
LEMMA FirstRetryKeeps ==
    ASSUME IInv, deck = <<>>, OnOfflineRetry
    PROVE  IInv'
<1>1. TypeOK'
  <2> USE DEF IInv
  <2>1. DeckTyped'
    BY Constants
       DEF DeckTyped, TypeOK, Preference, ToLoad, ErrorPage, Swapping, NoSwap,
           OnOfflineRetry, chromeStatus, showMainDeck, LoadConcepts, Ask,
           NoFace, FreshCycle, grades, swapVars
  <2>2. GradesTyped'
    BY Constants
       DEF GradesTyped, TypeOK, Grade, Swapping, NoSwap, OnOfflineRetry,
           chromeStatus, showMainDeck, LoadConcepts, Ask, NoFace, FreshCycle,
           grades, swapVars
  <2>3. LoadsTyped'
    BY Constants
       DEF LoadsTyped, TypeOK, Request, MoreRequest, OnOfflineRetry,
           chromeStatus, showMainDeck, LoadConcepts, Ask, NoFace, FreshCycle,
           grades, swapVars
  <2>4. FaceTyped'
    BY Constants, FaceFacts
       DEF FaceTyped, TypeOK, OnOfflineRetry, chromeStatus, showMainDeck,
           LoadConcepts, Ask, grades, swapVars
  <2>5. FlagsTyped'
    BY Constants
       DEF FlagsTyped, TypeOK, Rendered, Swapping, OnOfflineRetry,
           chromeStatus, showMainDeck, LoadConcepts, Ask, NoFace, FreshCycle,
           grades, swapVars
  <2> QED BY <2>1, <2>2, <2>3, <2>4, <2>5
             DEF TypeOK, DeckTyped, GradesTyped, LoadsTyped, FaceTyped,
                 FlagsTyped
<1>2. DeckOK'
  BY Constants
     DEF IInv, TypeOK, DeckOK, SwapOK, Swapping, NoSwap, Reshuffle, Pending,
         Standing, ErrorPage, ToLoad, Preference, Walk!IsDeck, OnOfflineRetry,
         chromeStatus, showMainDeck, LoadConcepts, Ask, NoFace, FreshCycle,
         grades, swapVars, Rendered
<1>3. SwapOK'
  BY Constants
     DEF IInv, TypeOK, SwapOK, Swapping, NoSwap, Pending, Landed, Reshuffle,
         Snapshot, Plan, DeckOK, OnOfflineRetry, chromeStatus, showMainDeck,
         LoadConcepts, Ask, NoFace, FreshCycle, grades, swapVars, Rendered
<1>4. GradesOK'
  BY Constants
     DEF IInv, TypeOK, Face, Cycle, SwapOK, GradesOK, AloneOK, Swapping,
         NoSwap, Pending, Landed, FailedSwapKeepsItsGrade, Reshuffle,
         OnOfflineRetry, chromeStatus, showMainDeck, LoadConcepts, Ask, NoFace,
         FreshCycle, grades, swapVars, Rendered
<1>5. AloneOK'
  BY Constants
     DEF IInv, TypeOK, Face, Cycle, SwapOK, AloneOK, WaitOK, DeckOK,
         MoreRequest, Swapping, NoSwap, Pending, RetryCycleIsSound, Visited,
         NoFace, OnOfflineRetry, chromeStatus, showMainDeck, LoadConcepts, Ask,
         FreshCycle, grades, swapVars, Rendered
<1>6. WaitOK'
  BY Constants
     DEF IInv, TypeOK, Face, Cycle, WaitOK, DeckOK, AloneOK, SwapOK,
         MoreRequest, RetryCycleIsSound, IsLast, Pending, Landed, Swapping,
         NoSwap, Reshuffle, OnOfflineRetry, chromeStatus, showMainDeck,
         LoadConcepts, Ask, NoFace, FreshCycle, grades, swapVars, Rendered
<1> QED BY <1>1, <1>2, <1>3, <1>4, <1>5, <1>6 DEF IInv

(* Retry of a failed reshuffle for a grade that is shown by now.           *)
LEMMA GiveUpRetryKeeps ==
    ASSUME IInv, retryGrade # None, Swapping \/ retryGrade = laterality,
           OnDeckStatusRetry
    PROVE  IInv'
<1>a. due \in BOOLEAN /\ (due \/ swapFailed => due')
  BY DEF IInv, TypeOK, OnDeckStatusRetry, Rendered, Watched
<1>1. TypeOK'
  <2> USE DEF IInv
  <2>1. DeckTyped'
    BY Constants, <1>a
       DEF DeckTyped, TypeOK, Preference, ToLoad, ErrorPage, Swapping, NoSwap,
           OnDeckStatusRetry, chromeStatus, showMainDeck, Waits, loads
  <2>2. GradesTyped'
    BY Constants, <1>a
       DEF GradesTyped, TypeOK, Grade, Swapping, NoSwap, OnDeckStatusRetry,
           chromeStatus, showMainDeck, Waits, loads
  <2>3. LoadsTyped'
    BY Constants, <1>a
       DEF LoadsTyped, TypeOK, Request, MoreRequest, OnDeckStatusRetry,
           chromeStatus, showMainDeck, Waits, loads
  <2>4. FaceTyped'
    BY Constants, FaceFacts, <1>a
       DEF FaceTyped, TypeOK, OnDeckStatusRetry, chromeStatus, showMainDeck,
           Waits, loads
  <2>5. FlagsTyped'
    BY Constants, <1>a
       DEF FlagsTyped, TypeOK, Rendered, Swapping, OnDeckStatusRetry,
           chromeStatus, showMainDeck, Waits, loads
  <2> QED BY <2>1, <2>2, <2>3, <2>4, <2>5
             DEF TypeOK, DeckTyped, GradesTyped, LoadsTyped, FaceTyped,
                 FlagsTyped
<1>2. DeckOK'
  BY Constants, <1>a
     DEF IInv, TypeOK, DeckOK, SwapOK, Swapping, NoSwap, Reshuffle, Pending,
         Standing, ErrorPage, ToLoad, Preference, Walk!IsDeck,
         OnDeckStatusRetry, chromeStatus, showMainDeck, Waits, loads, Rendered
<1>3. SwapOK'
  BY Constants, <1>a
     DEF IInv, TypeOK, SwapOK, Swapping, NoSwap, Pending, Landed, Reshuffle,
         Snapshot, Plan, DeckOK, OnDeckStatusRetry, chromeStatus, showMainDeck,
         Waits, loads, Rendered
<1>4. GradesOK'
  BY Constants, <1>a
     DEF IInv, TypeOK, Face, Cycle, SwapOK, GradesOK, AloneOK, Swapping,
         NoSwap, Pending, Landed, FailedSwapKeepsItsGrade, Reshuffle,
         OnDeckStatusRetry, chromeStatus, showMainDeck, Waits, loads, Rendered
<1>5. AloneOK'
  BY Constants, <1>a
     DEF IInv, TypeOK, Face, Cycle, SwapOK, AloneOK, WaitOK, DeckOK,
         MoreRequest, Swapping, NoSwap, Pending, RetryCycleIsSound, Visited,
         OnDeckStatusRetry, chromeStatus, showMainDeck, Waits, loads, Rendered
<1>6. WaitOK'
  BY Constants, <1>a
     DEF IInv, TypeOK, Face, Cycle, WaitOK, DeckOK, AloneOK, SwapOK,
         MoreRequest, RetryCycleIsSound, IsLast, Pending, Landed, Swapping,
         NoSwap, Reshuffle, OnDeckStatusRetry, chromeStatus, showMainDeck,
         Waits, loads, Rendered
<1> QED BY <1>1, <1>2, <1>3, <1>4, <1>5, <1>6 DEF IInv

(* A laterality picked in the menu.                                        *)
LEMMA OnSelectLateralityKeeps ==
    ASSUME NEW g \in Laterality, IInv, OnSelectLaterality(g)
    PROVE  IInv'
BY BeginSwapKeeps DEF OnSelectLaterality

(* Retry of the offline line.                                              *)
LEMMA OnOfflineRetryKeeps ==
    ASSUME IInv, OnOfflineRetry
    PROVE  IInv'
<1>1. CASE deck = <<>>
  BY <1>1, FirstRetryKeeps DEF OnOfflineRetry
<1>2. CASE deck # <<>>
  <2>1. dropped' \in BOOLEAN /\ dropped = dropped'
    BY DEF OnOfflineRetry, IInv, TypeOK
  <2>2. RetryLoadMore /\ UNCHANGED hydrated /\ Rendered
    BY <1>2 DEF OnOfflineRetry
  <2>3. (meddled => meddled') /\ (Swapping => meddled')
    BY DEF OnOfflineRetry
  <2> QED BY <2>1, <2>2, <2>3, RetryLoadMoreKeeps
<1> QED BY <1>1, <1>2

(* Retry of the deck status line: load-more or the failed reshuffle.       *)
LEMMA OnDeckStatusRetryKeeps ==
    ASSUME IInv, OnDeckStatusRetry
    PROVE  IInv'
<1>1. CASE retryGrade = None
  <2>1. ~meddled => ~Swapping
    BY DEF IInv, AloneOK, SwapOK, OnDeckStatusRetry, chromeStatus
  <2>2. RetryLoadMore /\ UNCHANGED hydrated /\ Rendered /\ Waits
    BY <1>1 DEF OnDeckStatusRetry
  <2>3. dropped' \in BOOLEAN /\ (dropped /\ face'.pending => dropped')
    BY <2>2 DEF Waits, IInv, TypeOK
  <2>4. (meddled => meddled') /\ (Swapping => meddled')
    BY <2>1, <2>2 DEF Waits
  <2> QED BY <2>2, <2>3, <2>4, RetryLoadMoreKeeps
<1>2. CASE retryGrade # None /\ (Swapping \/ retryGrade = laterality)
  BY <1>2, GiveUpRetryKeeps
<1>3. CASE retryGrade # None /\ ~(Swapping \/ retryGrade = laterality)
  <2>1. retryGrade \in Laterality /\ retryGrade # laterality /\ ~Swapping
    BY <1>3 DEF IInv, TypeOK, Grade
  <2>2. /\ BeginSwap(retryGrade, face) /\ Waits /\ Rendered
        /\ UNCHANGED <<hydrated, deck, index, complexity, dealt, error, first,
                       superseded, offline>>
    BY <1>3 DEF OnDeckStatusRetry
  <2> QED BY <2>1, <2>2, BeginSwapKeeps
<1> QED BY <1>1, <1>2, <1>3

(* Adjust of the No next idea line.                                        *)
LEMMA OnAdjustNoNextIdeaKeeps ==
    ASSUME IInv, OnAdjustNoNextIdea
    PROVE  IInv'
<1>1. TypeOK'
  <2> USE DEF IInv
  <2>1. DeckTyped'
    BY Constants
       DEF DeckTyped, TypeOK, Preference, ToLoad, ErrorPage,
           OnAdjustNoNextIdea, chromeStatus, showMainDeck, Calm, FreshCycle,
           Waits, grades, loads, swapVars
  <2>2. GradesTyped'
    BY Constants
       DEF GradesTyped, TypeOK, Grade, OnAdjustNoNextIdea, chromeStatus,
           showMainDeck, Calm, FreshCycle, Waits, grades, loads, swapVars
  <2>3. LoadsTyped'
    BY Constants
       DEF LoadsTyped, TypeOK, Request, MoreRequest, OnAdjustNoNextIdea,
           chromeStatus, showMainDeck, Calm, FreshCycle, Waits, grades, loads,
           swapVars
  <2>4. FaceTyped'
    BY Constants, FaceFacts
       DEF FaceTyped, TypeOK, OnAdjustNoNextIdea, chromeStatus, showMainDeck,
           Waits, grades, loads, swapVars
  <2>5. FlagsTyped'
    BY Constants
       DEF FlagsTyped, TypeOK, Rendered, OnAdjustNoNextIdea, chromeStatus,
           showMainDeck, Calm, FreshCycle, Waits, grades, loads, swapVars
  <2> QED BY <2>1, <2>2, <2>3, <2>4, <2>5
             DEF TypeOK, DeckTyped, GradesTyped, LoadsTyped, FaceTyped,
                 FlagsTyped
<1>2. DeckOK'
  BY Constants
     DEF IInv, TypeOK, DeckOK, SwapOK, Swapping, NoSwap, Reshuffle, Pending,
         Standing, ErrorPage, ToLoad, Preference, Walk!IsDeck,
         OnAdjustNoNextIdea, chromeStatus, showMainDeck, Calm, FreshCycle,
         Waits, grades, loads, swapVars, Rendered, Grade
<1>3. SwapOK'
  BY Constants
     DEF IInv, TypeOK, SwapOK, Swapping, NoSwap, Pending, Landed, Reshuffle,
         Snapshot, Plan, DeckOK, OnAdjustNoNextIdea, chromeStatus,
         showMainDeck, Calm, FreshCycle, Waits, grades, loads, swapVars,
         Rendered
<1>4. GradesOK'
  BY Constants
     DEF IInv, TypeOK, Face, Cycle, SwapOK, GradesOK, AloneOK, Swapping,
         NoSwap, Pending, Landed, FailedSwapKeepsItsGrade, Reshuffle,
         OnAdjustNoNextIdea, chromeStatus, showMainDeck, Calm, FreshCycle,
         Waits, grades, loads, swapVars, Rendered
<1>5. AloneOK'
  BY Constants
     DEF IInv, TypeOK, Face, Cycle, SwapOK, AloneOK, WaitOK, DeckOK,
         MoreRequest, Swapping, NoSwap, Pending, RetryCycleIsSound, Visited,
         OnAdjustNoNextIdea, chromeStatus, showMainDeck, Calm, FreshCycle,
         Waits, grades, loads, swapVars, Rendered
<1>6. WaitOK'
  BY Constants
     DEF IInv, TypeOK, Face, Cycle, WaitOK, DeckOK, AloneOK, SwapOK,
         MoreRequest, RetryCycleIsSound, IsLast, Pending, Landed, Swapping,
         NoSwap, Reshuffle, OnAdjustNoNextIdea, chromeStatus, showMainDeck,
         Calm, FreshCycle, Waits, grades, loads, swapVars, Rendered
<1> QED BY <1>1, <1>2, <1>3, <1>4, <1>5, <1>6 DEF IInv

(* Retry on the error page.                                                *)
LEMMA ReloadKeeps ==
    ASSUME IInv, Reload
    PROVE  IInv'
<1>1. TypeOK'
  <2> USE DEF IInv
  <2>1. DeckTyped'
    BY Constants
       DEF DeckTyped, TypeOK, Preference, ToLoad, ErrorPage, Reload,
           LoadConcepts, Ask, NoFace, FreshCycle, grades, ghosts, swapVars
  <2>2. GradesTyped'
    BY Constants
       DEF GradesTyped, TypeOK, Grade, Reload, ErrorPage, LoadConcepts, Ask,
           NoFace, FreshCycle, grades, ghosts, swapVars
  <2>3. LoadsTyped'
    BY Constants
       DEF LoadsTyped, TypeOK, Request, MoreRequest, Reload, ErrorPage,
           LoadConcepts, Ask, NoFace, FreshCycle, grades, ghosts, swapVars
  <2>4. FaceTyped'
    BY Constants, FaceFacts
       DEF FaceTyped, TypeOK, Reload, ErrorPage, LoadConcepts, Ask, grades,
           ghosts, swapVars
  <2>5. FlagsTyped'
    BY Constants
       DEF FlagsTyped, TypeOK, Rendered, Reload, ErrorPage, LoadConcepts, Ask,
           NoFace, FreshCycle, grades, ghosts, swapVars
  <2> QED BY <2>1, <2>2, <2>3, <2>4, <2>5
             DEF TypeOK, DeckTyped, GradesTyped, LoadsTyped, FaceTyped,
                 FlagsTyped
<1>2. DeckOK'
  BY Constants
     DEF IInv, TypeOK, DeckOK, SwapOK, Swapping, NoSwap, Reshuffle, Pending,
         Standing, ErrorPage, ToLoad, Preference, Walk!IsDeck, Reload,
         LoadConcepts, Ask, NoFace, FreshCycle, grades, ghosts, swapVars,
         Rendered, Grade
<1>3. SwapOK'
  BY Constants
     DEF IInv, TypeOK, SwapOK, Swapping, NoSwap, Pending, Landed, Reshuffle,
         Snapshot, Plan, DeckOK, Reload, ErrorPage, LoadConcepts, Ask, NoFace,
         FreshCycle, grades, ghosts, swapVars, Rendered
<1>4. GradesOK'
  BY Constants
     DEF IInv, TypeOK, Face, Cycle, SwapOK, GradesOK, AloneOK, Swapping,
         NoSwap, Pending, Landed, FailedSwapKeepsItsGrade, Reshuffle, Reload,
         ErrorPage, LoadConcepts, Ask, NoFace, FreshCycle, grades, ghosts,
         swapVars, Rendered
<1>5. AloneOK'
  BY Constants
     DEF IInv, TypeOK, Face, Cycle, SwapOK, AloneOK, WaitOK, DeckOK,
         MoreRequest, Swapping, NoSwap, Pending, RetryCycleIsSound, Visited,
         NoFace, Reload, ErrorPage, LoadConcepts, Ask, FreshCycle, grades,
         ghosts, swapVars, Rendered
<1>6. WaitOK'
  BY Constants
     DEF IInv, TypeOK, Face, Cycle, WaitOK, DeckOK, AloneOK, SwapOK,
         MoreRequest, RetryCycleIsSound, IsLast, Pending, Landed, Swapping,
         NoSwap, Reshuffle, Reload, ErrorPage, LoadConcepts, Ask, NoFace,
         FreshCycle, grades, ghosts, swapVars, Rendered
<1> QED BY <1>1, <1>2, <1>3, <1>4, <1>5, <1>6 DEF IInv

(* The connection is lost.                                                 *)
LEMMA GoOfflineKeeps ==
    ASSUME IInv, GoOffline
    PROVE  IInv'
<1>1. TypeOK'
  <2> USE DEF IInv
  <2>1. DeckTyped'
    BY Constants
       DEF DeckTyped, TypeOK, Preference, ToLoad, GoOffline, grades, loads,
           ghosts, swapVars
  <2>2. GradesTyped'
    BY Constants
       DEF GradesTyped, TypeOK, Grade, GoOffline, grades, loads, ghosts,
           swapVars
  <2>3. LoadsTyped'
    BY Constants
       DEF LoadsTyped, TypeOK, Request, MoreRequest, GoOffline, grades, loads,
           ghosts, swapVars
  <2>4. FaceTyped'
    BY Constants, FaceFacts
       DEF FaceTyped, TypeOK, GoOffline, grades, loads, ghosts, swapVars
  <2>5. FlagsTyped'
    BY Constants
       DEF FlagsTyped, TypeOK, Rendered, GoOffline, grades, loads, ghosts,
           swapVars
  <2> QED BY <2>1, <2>2, <2>3, <2>4, <2>5
             DEF TypeOK, DeckTyped, GradesTyped, LoadsTyped, FaceTyped,
                 FlagsTyped
<1>2. DeckOK'
  BY Constants
     DEF IInv, TypeOK, DeckOK, SwapOK, Swapping, NoSwap, Reshuffle, Pending,
         Standing, ToLoad, Preference, Walk!IsDeck, GoOffline, grades, loads,
         ghosts, swapVars, Rendered, Grade
<1>3. SwapOK'
  BY Constants
     DEF IInv, TypeOK, SwapOK, Swapping, NoSwap, Pending, Landed, Reshuffle,
         Snapshot, Plan, DeckOK, GoOffline, grades, loads, ghosts, swapVars,
         Rendered
<1>4. GradesOK'
  BY Constants
     DEF IInv, TypeOK, Face, Cycle, SwapOK, GradesOK, AloneOK, Swapping,
         NoSwap, Pending, Landed, FailedSwapKeepsItsGrade, Reshuffle,
         GoOffline, grades, loads, ghosts, swapVars, Rendered
<1>5. AloneOK'
  BY Constants
     DEF IInv, TypeOK, Face, Cycle, SwapOK, AloneOK, WaitOK, DeckOK,
         MoreRequest, Swapping, NoSwap, Pending, RetryCycleIsSound, Visited,
         GoOffline, grades, loads, ghosts, swapVars, Rendered
<1>6. WaitOK'
  BY Constants
     DEF IInv, TypeOK, Face, Cycle, WaitOK, DeckOK, AloneOK, SwapOK,
         MoreRequest, RetryCycleIsSound, IsLast, Pending, Landed, Swapping,
         NoSwap, Reshuffle, GoOffline, grades, loads, ghosts, swapVars,
         Rendered
<1> QED BY <1>1, <1>2, <1>3, <1>4, <1>5, <1>6 DEF IInv

(* The connection is back.                                                 *)
LEMMA GoOnlineKeeps ==
    ASSUME IInv, GoOnline
    PROVE  IInv'
<1>1. TypeOK'
  BY Constants
     DEF IInv, TypeOK, Grade, GoOnline, Rendered, Watched, grades, loads,
         ghosts, swapVars
<1>2. DeckOK'
  BY Constants
     DEF IInv, TypeOK, DeckOK, SwapOK, Swapping, NoSwap, Reshuffle, Pending,
         Standing, ToLoad, Preference, Walk!IsDeck, GoOnline, Rendered,
         Watched, grades, loads, ghosts, swapVars, Grade
<1>3. SwapOK'
  BY Constants
     DEF IInv, TypeOK, SwapOK, Swapping, NoSwap, Pending, Landed, Reshuffle,
         Snapshot, Plan, DeckOK, GoOnline, Rendered, Watched, grades, loads,
         ghosts, swapVars
<1>4. GradesOK'
  BY Constants
     DEF IInv, TypeOK, Face, Cycle, SwapOK, GradesOK, AloneOK, Swapping,
         NoSwap, Pending, Landed, FailedSwapKeepsItsGrade, Reshuffle, GoOnline,
         Rendered, Watched, grades, loads, ghosts, swapVars
<1>5. AloneOK'
  BY Constants
     DEF IInv, TypeOK, Face, Cycle, SwapOK, AloneOK, WaitOK, DeckOK,
         MoreRequest, Swapping, NoSwap, Pending, RetryCycleIsSound, Visited,
         GoOnline, Rendered, Watched, grades, loads, ghosts, swapVars
<1>6. WaitOK'
  BY Constants
     DEF IInv, TypeOK, Face, Cycle, WaitOK, DeckOK, AloneOK, SwapOK,
         MoreRequest, RetryCycleIsSound, IsLast, Pending, Landed, Swapping,
         NoSwap, Reshuffle, GoOnline, Rendered, Watched, grades, loads, ghosts,
         swapVars
<1> QED BY <1>1, <1>2, <1>3, <1>4, <1>5, <1>6 DEF IInv

-----------------------------------------------------------------------------
(* The invariant, and what follows from it.                                *)

(* The app starts with the invariant.                                      *)
LEMMA InitIInv == Init => IInv
<1> SUFFICES ASSUME Init PROVE IInv
  OBVIOUS
<1>1. TypeOK
  <2>1. complexity \in Complexity /\ {laterality, committed} \subseteq Laterality
    BY Constants DEF Init
  <2>2. face \in Face /\ cycle \in Cycle
    BY FaceFacts DEF Init
  <2>3. {error, early, swapFailed, offline, due, dropped} \subseteq BOOLEAN
    BY DEF Init
  <2> QED BY <2>1, <2>2, <2>3 DEF Init, TypeOK, Grade
<1>2. DeckOK
  BY DEF Init, DeckOK, Swapping
<1>3. SwapOK
  BY DEF Init, SwapOK, Swapping, Pending, Landed
<1>4. GradesOK
  BY Constants
     DEF Init, GradesOK, Swapping, Pending, Landed, FailedSwapKeepsItsGrade
<1>5. AloneOK
  BY DEF Init, AloneOK, Swapping, Pending
<1>6. WaitOK
  BY Constants DEF Init, WaitOK, RetryCycleIsSound, FreshCycle, NoFace
<1> QED BY <1>1, <1>2, <1>3, <1>4, <1>5, <1>6 DEF IInv

(* Every step keeps the invariant.                                         *)
LEMMA NextKeeps == IInv /\ [Next]_vars => IInv'
<1>1. ASSUME IInv, UNCHANGED vars PROVE IInv'
  BY <1>1
     DEF IInv, vars, grades, loads, swapVars, ghosts, TypeOK, Grade, DeckOK,
         SwapOK, GradesOK, AloneOK, WaitOK, Standing, Swapping, Pending,
         Landed, FailedSwapKeepsItsGrade, RetryCycleIsSound, IsLast, Visited
<1>2. ASSUME IInv, Answered PROVE IInv'
  BY <1>2, FirstAnsweredKeeps, SupersededAnsweredKeeps, MoreAnsweredKeeps,
     TreeAnsweredKeeps, SwapAnsweredKeeps
     DEF Answered
<1>3. ASSUME IInv, Timed PROVE IInv'
  BY <1>3, PrefetchEffectKeeps, RetryTimerKeeps, GatherTimerKeeps,
     SwapLandsKeeps, SwapEndsKeeps
     DEF Timed
<1>4. ASSUME IInv, Reader PROVE IInv'
  BY <1>4, OnSwipeLeftKeeps, OnSwipeRightKeeps, OnSwipeVerticalKeeps,
     OnSelectComplexityKeeps, OnSelectLateralityKeeps, OnOfflineRetryKeeps,
     OnDeckStatusRetryKeeps, OnAdjustNoNextIdeaKeeps, ReloadKeeps
     DEF Reader
<1> QED BY <1>1, <1>2, <1>3, <1>4, HydrateKeeps, GoOfflineKeeps, GoOnlineKeeps
           DEF Next

(* The inductive invariant holds in every state of the client's deck,      *)
(* whatever the reader does and the network answers.                       *)
THEOREM Inductive == Spec => []IInv
<1> QED BY InitIInv, NextKeeps, PTL DEF Spec

(* A deck without a card twice has as many names as cards.                 *)
LEMMA DistinctCounts ==
    ASSUME NEW d, Walk!IsDeck(d)
    PROVE  Cardinality(Names(d)) = Len(d)
<1>1. d \in Seq(Card) /\ Len(d) \in Nat /\ DOMAIN d = 1..Len(d)
  BY DEF Walk!IsDeck
<1>2. Names(d) = {d[i] : i \in 1..Len(d)}
  BY <1>1 DEF Names
<1> DEFINE S == 1..Len(d)
           T == {d[i] : i \in 1..Len(d)}
<1>3. d \in Bijection(S, T)
  <2>1. d \in [S -> T]
    BY <1>1
  <2>2. \A i, j \in S : d[i] = d[j] => i = j
    BY <1>1 DEF Walk!IsDeck, Walk!Distinct
  <2>3. \A t \in T : \E i \in S : d[i] = t
    OBVIOUS
  <2> HIDE DEF S, T
  <2> QED BY <2>1, <2>2, <2>3 DEF Bijection, Injection, IsInjective, Surjection
<1>4. IsFiniteSet(S) /\ Cardinality(S) = Len(d)
  BY <1>1, FS_Interval
<1>5. Cardinality(T) = Cardinality(S)
  <2> HIDE DEF S, T
  <2> QED BY <1>3, <1>4, FS_Bijection DEF ExistsBijection
<1> QED BY <1>2, <1>4, <1>5

(* The deck never shows a concept twice, and the reader is always on one   *)
(* of its cards (mergeUniqueRelated, applyAppendedBatch,                   *)
(* applyComplexityTreeSwap, prefetchLateralityTree).                       *)
THEOREM WalkCorrect == Spec => []WalkIsSound
<1>1. IInv => WalkIsSound
  <2> SUFFICES ASSUME IInv PROVE WalkIsSound
    OBVIOUS
  <2>1. TypeOK /\ (deck # <<>> => Standing(deck, index))
    BY DEF IInv, DeckOK
  <2>2. Walk!IsDeck(deck)
    <3>1. CASE deck = <<>>
      BY <3>1, <2>1 DEF TypeOK, Walk!IsDeck, Walk!Distinct
    <3> QED BY <3>1, <2>1 DEF Standing
  <2> QED BY <2>1, <2>2, DistinctCounts DEF WalkIsSound, Standing
<1> QED BY <1>1, Inductive, PTL

(* The grade of the cards, through reshuffles that land or fail: the first *)
(* load deals what it was asked for, and a pick that it does not follow is *)
(* remembered by early; else the cards are of the committed grade.         *)
DealtOK ==
    /\ first # None => first.lat = laterality \/ early
    /\ deck # <<>> => dealt = committed \/ early

(* Most steps begin no first load, deal no cards and pick no grade.        *)
LEMMA DealtUndisturbed ==
    ASSUME DealtOK, UNCHANGED <<first, laterality, committed, dealt, early>>,
           deck' # <<>> => deck # <<>>
    PROVE  DealtOK'
BY DEF DealtOK

(* A first load is asked for with the grade of now.                        *)
LEMMA LoadDeals ==
    ASSUME DealtOK, NEW c, LoadConcepts(c, laterality),
           UNCHANGED <<deck, laterality, committed, dealt>>, deck = <<>>
    PROVE  DealtOK'
BY DEF DealtOK, LoadConcepts, Ask

(* Its cards are those of the grade it was asked for.                      *)
LEMMA FirstDeals ==
    ASSUME IInv, DealtOK, NEW outcome, NEW b, FirstAnswered(outcome, b)
    PROVE  DealtOK'
<1>1. deck = <<>> /\ laterality = committed /\ first # None
  BY DEF IInv, DeckOK, GradesOK, Pending, FirstAnswered
<1>2. UNCHANGED <<laterality, committed>>
  BY DEF FirstAnswered
<1>3. CASE FallsBack(first, outcome)
  <2>1. first' = FellBack(first) /\ deck' = deck
    BY <1>3 DEF FirstAnswered
  <2>2. first \in Request
    BY <1>1 DEF IInv, TypeOK
  <2>3. first'.lat = laterality
    BY <2>1, <2>2 DEF FellBack, Request
  <2> QED BY <1>1, <1>2, <2>1, <2>3 DEF DealtOK
<1>4. CASE ~FallsBack(first, outcome)
  <2>1. first' = None
    BY <1>4 DEF FirstAnswered
  <2>2. CASE outcome = "batch"
    <3>1. dealt' = first.lat /\ early' = (early /\ dealt' # laterality)
      BY <1>4, <2>2 DEF FirstAnswered
    <3> QED BY <1>1, <1>2, <2>1, <3>1 DEF DealtOK
  <2>3. CASE outcome # "batch"
    BY <1>1, <1>4, <2>1, <2>3 DEF FirstAnswered, DealtOK
  <2> QED BY <2>2, <2>3
<1> QED BY <1>3, <1>4

(* A pick before the first cards is remembered; one with cards leaves them *)
(* and the committed grade until the reshuffle lands.                      *)
LEMMA PickDeals ==
    ASSUME IInv, DealtOK, NEW g, BeginSwap(g, face), UNCHANGED <<deck, dealt, first>>
    PROVE  DealtOK'
<1>1. deck # <<>> => first = None
  BY DEF IInv, DeckOK
<1> QED BY <1>1 DEF DealtOK, BeginSwap

(* The cards of a reshuffle that lands are of the grade it was for; one    *)
(* that failed gives the ones of before back.                              *)
LEMMA LandingDeals ==
    ASSUME IInv, DealtOK, SwapLands
    PROVE  DealtOK'
<1>1. deck # <<>> /\ first = None /\ first' = None
  BY DEF IInv, DeckOK, SwapLands, Swapping, NoSwap
<1>2. IF swap.plan.kind = "fail"
      THEN UNCHANGED <<committed, dealt, early>>
      ELSE committed' = swap.lat /\ dealt' = swap.lat
  BY DEF SwapLands, IInv, TypeOK
<1> QED BY <1>1, <1>2 DEF DealtOK

(* Every step keeps the grade of the cards.                                *)
LEMMA DealtKeeps == IInv /\ DealtOK /\ [Next]_vars => DealtOK'
<1> SUFFICES ASSUME IInv, DealtOK, [Next]_vars PROVE DealtOK'
  OBVIOUS
<1>1. CASE UNCHANGED vars
  BY <1>1, DealtUndisturbed DEF vars, grades, loads
<1>2. ASSUME NEW p \in Preference, Hydrate(p) PROVE DealtOK'
  <2>1. UNCHANGED <<deck, laterality, committed, dealt>>
    BY <1>2 DEF Hydrate
  <2>2. CASE p \in ToLoad /\ ToLoad \subseteq hydrated'
    <3>1. deck = <<>>
      BY <1>2, <2>2 DEF Hydrate, IInv, DeckOK
    <3> QED BY <1>2, <2>1, <2>2, <3>1, LoadDeals DEF Hydrate
  <2>3. CASE ~(p \in ToLoad /\ ToLoad \subseteq hydrated')
    BY <1>2, <2>1, <2>3, DealtUndisturbed DEF Hydrate
  <2> QED BY <2>2, <2>3
<1>3. CASE Answered
  <2>1. PICK outcome \in Outcome : \E b \in Cards(outcome) :
           \/ FirstAnswered(outcome, b)
           \/ \E r \in superseded : SupersededAnswered(r, outcome)
           \/ MoreAnswered(outcome, b)
           \/ TreeAnswered(outcome, b)
           \/ SwapAnswered(outcome, b)
    BY <1>3 DEF Answered
  <2>2. CASE \E r \in superseded : SupersededAnswered(r, outcome)
    BY <2>2, DealtUndisturbed DEF SupersededAnswered
  <2>3. ASSUME NEW b, MoreAnswered(outcome, b) PROVE DealtOK'
    <3>1. deck # <<>>
      BY <2>3 DEF MoreAnswered, IInv, DeckOK
    <3> QED BY <2>3, <3>1, DealtUndisturbed DEF MoreAnswered, loads
  <2>4. ASSUME NEW b, TreeAnswered(outcome, b) PROVE DealtOK'
    <3>1. deck # <<>>
      BY <2>4 DEF TreeAnswered, IInv, DeckOK
    <3> QED BY <2>4, <3>1, DealtUndisturbed DEF TreeAnswered, grades, loads
  <2>5. ASSUME NEW b, SwapAnswered(outcome, b) PROVE DealtOK'
    BY <2>5, DealtUndisturbed DEF SwapAnswered, grades, loads
  <2> QED BY <2>1, <2>2, <2>3, <2>4, <2>5, FirstDeals
<1>4. CASE Timed
  <2>1. CASE PrefetchEffect
    BY <2>1, DealtUndisturbed DEF PrefetchEffect, grades, loads
  <2>2. CASE RetryTimer
    BY <2>2, DealtUndisturbed DEF RetryTimer, grades, loads
  <2>3. CASE GatherTimer
    BY <2>3, DealtUndisturbed DEF GatherTimer, grades, loads
  <2>4. CASE SwapEnds
    BY <2>4, DealtUndisturbed DEF SwapEnds, grades, loads
  <2> QED BY <1>4, <2>1, <2>2, <2>3, <2>4, LandingDeals DEF Timed
<1>5. CASE Reader
  <2>1. CASE OnSwipeLeft
    BY <2>1, DealtUndisturbed DEF OnSwipeLeft, grades, loads
  <2>2. CASE OnSwipeRight
    BY <2>2, DealtUndisturbed DEF OnSwipeRight, grades, loads
  <2>3. ASSUME NEW c \in Complexity, OnSwipeVertical(c) PROVE DealtOK'
    BY <2>3, DealtUndisturbed DEF OnSwipeVertical, loads
  <2>4. ASSUME NEW c \in Complexity, OnSelectComplexity(c) PROVE DealtOK'
    BY <2>4, DealtUndisturbed DEF OnSelectComplexity, loads
  <2>5. ASSUME NEW g \in Laterality, OnSelectLaterality(g) PROVE DealtOK'
    BY <2>5, PickDeals DEF OnSelectLaterality
  <2>6. CASE OnOfflineRetry
    <3>1. CASE deck = <<>>
      BY <2>6, <3>1, LoadDeals DEF OnOfflineRetry, grades
    <3>2. CASE deck # <<>>
      BY <2>6, <3>2, DealtUndisturbed DEF OnOfflineRetry, RetryLoadMore, grades, loads
    <3> QED BY <3>1, <3>2
  <2>7. CASE OnDeckStatusRetry
    <3>1. CASE retryGrade = None
      BY <2>7, <3>1, DealtUndisturbed DEF OnDeckStatusRetry, RetryLoadMore, grades, loads
    <3>2. CASE retryGrade # None /\ (Swapping \/ retryGrade = laterality)
      BY <2>7, <3>2, DealtUndisturbed DEF OnDeckStatusRetry
    <3>3. CASE retryGrade # None /\ ~(Swapping \/ retryGrade = laterality)
      BY <2>7, <3>3, PickDeals DEF OnDeckStatusRetry
    <3> QED BY <3>1, <3>2, <3>3
  <2>8. CASE OnAdjustNoNextIdea
    BY <2>8, DealtUndisturbed DEF OnAdjustNoNextIdea, grades, loads
  <2>9. CASE Reload
    BY <2>9, LoadDeals DEF Reload, ErrorPage, grades
  <2> QED BY <1>5, <2>1, <2>2, <2>3, <2>4, <2>5, <2>6, <2>7, <2>8, <2>9 DEF Reader
<1>6. CASE GoOffline
  BY <1>6, DealtUndisturbed DEF GoOffline, grades, loads
<1>7. CASE GoOnline
  BY <1>7, DealtUndisturbed DEF GoOnline, grades, loads
<1> QED BY <1>1, <1>2, <1>3, <1>4, <1>5, <1>6, <1>7 DEF Next

(* Between reshuffles the laterality shown is the committed one and, but   *)
(* for a pick made before the first cards came, the one that the cards     *)
(* ahead were dealt for; and Retry after a failed reshuffle is offered for *)
(* the grade that was tried (onSelectLaterality, beginCue).                *)
THEOREM GradesCorrect == Spec => []GradesAgree
<1>1. Init => DealtOK
  BY DEF Init, DealtOK
<1>2. IInv /\ DealtOK => GradesAgree
  BY DEF IInv, DealtOK, GradesOK, GradesAgree, CommittedBetweenSwaps, Pending,
         DeckOfShownGradeUnlessEarly, DeckOfShownGrade
<1> QED BY <1>1, <1>2, DealtKeeps, Inductive, PTL DEF Spec

(* Only at the end of the deck is a reader waiting, a retry belongs to a   *)
(* running cycle, and on the loading face something is on its way unless   *)
(* an answer he waited for was dropped (loadMoreConcepts,                  *)
(* emptyBatchRetry.ts).                                                    *)
THEOREM WaitingCorrect == Spec => []WaitingIsSound
<1>1. IInv => WaitingIsSound
  <2> SUFFICES ASSUME IInv PROVE WaitingIsSound
    OBVIOUS
  <2>1. RetryCycleIsSound
    BY DEF IInv, WaitOK
  <2>2. deckSlotState = "loading" => face.pending
    BY DEF deckSlotState
  <2>3. (face.loadMoreError \/ swapFailed) => chromeStatus # "none"
    BY DEF chromeStatus
  <2> QED BY <2>1, <2>2, <2>3
             DEF IInv, WaitOK, WaitingIsSound, LoadingFaceEndsUnlessDropped,
                 SomethingComes
<1> QED BY <1>1, Inductive, PTL

(* The actions that change the deck.                                       *)
LEMMA DeckChanges ==
    ASSUME Next, deck' # deck
    PROVE  \/ SwapLands
           \/ \E outcome \in Outcome : \E b \in Cards(outcome) :
                \/ FirstAnswered(outcome, b)
                \/ MoreAnswered(outcome, b)
                \/ TreeAnswered(outcome, b)
<1>1. ASSUME NEW p \in Preference, Hydrate(p) PROVE FALSE
  BY <1>1 DEF Hydrate
<1>2. CASE Answered
  BY <1>2 DEF Answered, SupersededAnswered, SwapAnswered
<1>3. CASE Timed
  BY <1>3 DEF Timed, PrefetchEffect, RetryTimer, GatherTimer, SwapEnds
<1>4. CASE Reader
  BY <1>4
     DEF Reader, OnSwipeLeft, OnSwipeRight, OnSwipeVertical,
         OnSelectComplexity, OnSelectLaterality, OnOfflineRetry, RetryLoadMore,
         OnDeckStatusRetry, OnAdjustNoNextIdea, Reload
<1> QED BY <1>1, <1>2, <1>3, <1>4 DEF Next, GoOffline, GoOnline

(* A step that changes the deck of a reshuffle is the reshuffle's, and one *)
(* of load-more brings what was asked for with the grade shown.            *)
LEMMA AnswerStep ==
    ASSUME IInv, Next
    PROVE  /\ Swapping /\ deck' # deck => meddled \/ swap' # swap
           /\ more # None /\ more' # more /\ deck' # deck
                => meddled \/ more.lat = laterality
<1> SUFFICES ASSUME deck' # deck, ~meddled
             PROVE  /\ Swapping => swap' # swap
                    /\ more # None /\ more' # more => more.lat = laterality
  OBVIOUS
<1>1. CASE SwapLands
  BY <1>1 DEF SwapLands, IInv, SwapOK, Pending, Swapping, NoSwap, Reshuffle
<1>2. ASSUME NEW outcome, NEW b, FirstAnswered(outcome, b)
      PROVE  more = None /\ ~Swapping
  BY <1>2 DEF FirstAnswered, IInv, DeckOK
<1>3. ASSUME NEW outcome, NEW b, MoreAnswered(outcome, b)
      PROVE  more # None /\ more.current
  BY <1>3 DEF MoreAnswered, FallsBack, EmptyBatch
<1>4. ASSUME NEW outcome, NEW b, TreeAnswered(outcome, b)
      PROVE  more' = more /\ ~Swapping
  BY <1>4 DEF TreeAnswered, IInv, SwapOK
<1> QED BY <1>1, <1>2, <1>3, <1>4, DeckChanges DEF IInv, AloneOK

(* An answer changes only the deck it was asked for (fetchGenRef,          *)
(* lateralitySwapActiveRef).                                               *)
THEOREM AnswersCorrect == Spec => AnswersMeetTheirDeck
<1>1. IInv /\ [Next]_vars
        => [Swapping /\ deck' # deck => meddled \/ swap' # swap]_vars
  BY AnswerStep
<1>2. IInv /\ [Next]_vars
        => [more # None /\ more' # more /\ deck' # deck
              => meddled \/ more.lat = laterality]_vars
  BY AnswerStep
<1> QED BY <1>1, <1>2, Inductive, PTL
           DEF Spec, AnswersMeetTheirDeck, AppendsShownGrade, SwapOwnsDeck

(* A step of the walk, or none, for what the reader is shown.              *)
ShownStep == Walk!Next \/ UNCHANGED <<Shown.deck, Shown.index>>

-----------------------------------------------------------------------------
(* The deck implements the walk.                                           *)

(* Unless a reshuffle is pending the reader is shown the deck,             *)
LEMMA ShownIsDeck ==
    ASSUME ~Pending
    PROVE  Shown.deck = deck /\ Shown.index = index
BY DEF Shown, Pending

(* and while one is, the deck it would be put back to;                     *)
LEMMA ShownIsSnapshot ==
    ASSUME Pending
    PROVE  Shown.deck = snapshot.deck /\ Shown.index = snapshot.index
BY DEF Shown, Pending

(* after a step as before it.                                              *)
LEMMA ShownNext ==
    /\ ~Pending' => Shown'.deck = deck' /\ Shown'.index = index'
    /\ Pending' => Shown'.deck = snapshot'.deck /\ Shown'.index = snapshot'.index
BY DEF Shown, Pending

(* Nothing changes for a reader when neither the deck nor the reshuffle    *)
(* does; nor when a reshuffle begins, goes on or ends.                     *)
LEMMA Unmoved ==
    ASSUME UNCHANGED <<deck, index, snapshot>>, Pending' <=> Pending
    PROVE  UNCHANGED <<Shown.deck, Shown.index>>
<1>1. CASE Pending
  BY <1>1, ShownIsSnapshot, ShownNext
<1>2. CASE ~Pending
  BY <1>2, ShownIsDeck, ShownNext
<1> QED BY <1>1, <1>2

(* A reshuffle begins with the deck it may be put back to.                 *)
LEMMA Begun ==
    ASSUME IInv, NEW g, NEW f, BeginSwap(g, f), ~Swapping, UNCHANGED <<deck, index>>
    PROVE  UNCHANGED <<Shown.deck, Shown.index>>
<1>1. ~Pending
  BY DEF Pending
<1>2. CASE deck = <<>>
  <2>1. ~Pending'
    BY <1>1, <1>2 DEF BeginSwap, Pending, Swapping
  <2> QED BY <1>1, <2>1, ShownIsDeck, ShownNext
<1>3. CASE deck # <<>>
  <2>1. Pending' /\ snapshot'.deck = deck /\ snapshot'.index = index
    BY <1>3 DEF BeginSwap, Pending, Swapping, NoSwap
  <2> QED BY <1>1, <2>1, ShownIsDeck, ShownNext
<1> QED BY <1>2, <1>3

(* An answer deals the first deck or changes what lies ahead.              *)
LEMMA AnswersWalk ==
    ASSUME IInv, ~meddled, NEW outcome \in Outcome, NEW b \in Cards(outcome),
           \/ FirstAnswered(outcome, b)
           \/ MoreAnswered(outcome, b)
           \/ TreeAnswered(outcome, b)
    PROVE  ShownStep
<1>1. UNCHANGED swapVars /\ (Pending' <=> Pending)
  BY DEF FirstAnswered, MoreAnswered, TreeAnswered, swapVars, Pending, Swapping
<1>2. CASE UNCHANGED <<deck, index>>
  BY <1>1, <1>2, Unmoved DEF ShownStep, swapVars
<1>3. CASE FirstAnswered(outcome, b) /\ ~UNCHANGED <<deck, index>>
  <2>1. deck = <<>> /\ ~Pending /\ deck' = b /\ index' = 0
    BY <1>3 DEF FirstAnswered, IInv, DeckOK, Pending
  <2>2. Walk!IsDeck(b)
    BY CardsFacts DEF Walk!IsDeck
  <2> QED BY <1>1, <2>1, <2>2, ShownIsDeck, ShownNext
             DEF ShownStep, Walk!Next, Walk!Deal
<1>4. CASE MoreAnswered(outcome, b) /\ ~UNCHANGED <<deck, index>>
  <2> DEFINE add == mergeUniqueRelated(deck, b)
             new == deck \o add
  <2>1. more.current /\ add # <<>> /\ AppendBatch(add) /\ deck # <<>>
    BY <1>4 DEF MoreAnswered, EmptyBatch, IInv, DeckOK
  <2>2. ~Swapping /\ Standing(deck, index) /\ ~Pending
    BY <1>4, <2>1 DEF IInv, AloneOK, DeckOK, MoreAnswered, Pending
  <2>3. /\ new \in Seq(Card) /\ SubSeq(new, 1, Len(deck)) = deck
        /\ Standing(new, index) /\ Standing(new, Len(deck))
    BY <2>1, <2>2, Extended
  <2>4. deck' = new /\ index' \in {index, Len(deck)}
        /\ (index' # index => face.pending)
    BY <2>1 DEF AppendBatch
  <2>5. face.pending => index + 1 = Len(deck)
    BY <2>2 DEF IInv, WaitOK, RetryCycleIsSound, IsLast, Standing, Walk!IsDeck
  <2> HIDE DEF add, new
  <2>6. SubSeq(new, 1, index + 1) = SubSeq(deck, 1, index + 1)
    <3>1. /\ deck \in Seq(Card) /\ new \in Seq(Card) /\ index + 1 \in 1..Len(deck)
          /\ Len(deck) <= Len(new)
      BY <2>2, <2>3 DEF Standing, Walk!IsDeck
    <3>2. \A i \in 1..Len(deck) : new[i] = deck[i]
      <4>1. \A i \in 1..Len(deck) : SubSeq(new, 1, Len(deck))[i] = new[i]
        BY <3>1
      <4> QED BY <4>1, <2>3
    <3> QED BY <3>1, <3>2
  <2> QED BY <1>1, <2>1, <2>2, <2>3, <2>4, <2>5, <2>6, ShownIsDeck, ShownNext
             DEF ShownStep, Walk!Next, Walk!Ahead, Standing
<1>5. CASE TreeAnswered(outcome, b) /\ ~UNCHANGED <<deck, index>>
  <2> DEFINE new == Visited \o mergeUniqueRelated(Visited, b)
  <2>1. deck' = new /\ index' = index /\ deck # <<>> /\ ~Pending
    BY <1>5 DEF TreeAnswered, IInv, DeckOK, SwapOK, Pending
  <2>2. Standing(deck, index)
    BY <2>1 DEF IInv, DeckOK
  <2>3. SubSeq(new, 1, index + 1) = Visited /\ Standing(new, index)
    BY <2>2, Dealt
  <2> HIDE DEF new
  <2> QED BY <1>1, <2>1, <2>2, <2>3, ShownIsDeck, ShownNext
             DEF ShownStep, Walk!Next, Walk!Ahead, Standing, Visited
<1> QED BY <1>2, <1>3, <1>4, <1>5

(* A swipe goes one card forward, one back, or nowhere.                    *)
LEMMA SwipesWalk ==
    ASSUME IInv, OnSwipeLeft \/ OnSwipeRight \/ \E c \in Complexity : OnSwipeVertical(c)
    PROVE  ShownStep
<1>1. UNCHANGED <<deck, swapVars>> /\ ~Swapping /\ Standing(deck, index)
  BY DEF OnSwipeLeft, OnSwipeRight, OnSwipeVertical, CanSwipeForward, CanSwipe,
         IInv, DeckOK
<1>2. ~Pending /\ ~Pending'
  BY <1>1 DEF Pending, Swapping, swapVars
<1>3. /\ index \in Nat /\ Len(deck) \in Nat /\ index < Len(deck)
      /\ ~IsLast => index + 1 < Len(deck)
  BY <1>1 DEF IsLast, Standing, Walk!IsDeck
<1>4. \/ index' = index
      \/ index' = index + 1 /\ ~IsLast
      \/ index' = index - 1 /\ index > 0
  BY DEF OnSwipeLeft, OnSwipeRight, OnSwipeVertical, deckSlotState
<1> QED BY <1>1, <1>2, <1>3, <1>4, ShownIsDeck, ShownNext
           DEF ShownStep, Walk!Next, Walk!Forward, Walk!Back

(* A reshuffle that lands changes what lies ahead, or nothing.             *)
LEMMA LandingWalks ==
    ASSUME IInv, ~meddled, SwapLands
    PROVE  ShownStep
<1>1. /\ Pending /\ swap.stage = "planned" /\ ~Pending'
      /\ Standing(snapshot.deck, snapshot.index)
      /\ deck = snapshot.deck /\ index = snapshot.index /\ deck # <<>>
  BY DEF IInv, SwapOK, DeckOK, AloneOK, SwapLands, Pending, Swapping, NoSwap,
         Reshuffle
<1>2. CASE swap.plan.kind = "fail"
  <2>1. deck' = snapshot.deck /\ index' = snapshot.index
    BY <1>2 DEF SwapLands
  <2> QED BY <1>1, <2>1, ShownIsSnapshot, ShownNext DEF ShownStep
<1>3. CASE swap.plan.kind # "fail"
  <2>1. deck' = swap.plan.deck /\ index' = swap.plan.index
    BY <1>3 DEF SwapLands
  <2>2. /\ Standing(swap.plan.deck, swap.plan.index)
        /\ SubSeq(swap.plan.deck, 1, index + 1) = Visited
        /\ swap.plan.index \in {index, index + 1}
    BY <1>1, <1>3 DEF IInv, SwapOK, AloneOK
  <2> QED BY <1>1, <2>1, <2>2, ShownIsSnapshot, ShownNext
             DEF ShownStep, Walk!Next, Walk!Ahead, Standing, Visited
<1> QED BY <1>2, <1>3

(* Every step of the deck is one of the walk, or none.                     *)
LEMMA WalkStep ==
    ASSUME IInv, [Next]_vars, ~meddled
    PROVE  ShownStep
<1>1. CASE UNCHANGED vars
  BY <1>1, Unmoved DEF vars, swapVars, Pending, Swapping, ShownStep
<1>2. ASSUME UNCHANGED <<deck, index, swap, snapshot>> PROVE ShownStep
  BY <1>2, Unmoved DEF Pending, Swapping, ShownStep
<1>3. ASSUME NEW p \in Preference, Hydrate(p) PROVE ShownStep
  BY <1>3, <1>2 DEF Hydrate, swapVars
<1>4. CASE Answered
  <2>0. PICK outcome \in Outcome : \E b \in Cards(outcome) :
           \/ FirstAnswered(outcome, b)
           \/ \E r \in superseded : SupersededAnswered(r, outcome)
           \/ MoreAnswered(outcome, b)
           \/ TreeAnswered(outcome, b)
           \/ SwapAnswered(outcome, b)
    BY <1>4 DEF Answered
  <2>1. PICK b \in Cards(outcome) :
           \/ FirstAnswered(outcome, b)
           \/ \E r \in superseded : SupersededAnswered(r, outcome)
           \/ MoreAnswered(outcome, b)
           \/ TreeAnswered(outcome, b)
           \/ SwapAnswered(outcome, b)
    BY <2>0
  <2>2. ASSUME NEW r \in superseded, SupersededAnswered(r, outcome) PROVE ShownStep
    BY <2>2, <1>2 DEF SupersededAnswered, swapVars
  <2>3. CASE SwapAnswered(outcome, b)
    <3>1. Pending /\ swap \in Reshuffle /\ UNCHANGED <<deck, index, snapshot>>
      BY <2>3 DEF SwapAnswered, Pending, IInv, SwapOK
    <3>2. Pending'
      BY <2>3, <3>1 DEF SwapAnswered, Pending, Swapping, NoSwap, Reshuffle
    <3> QED BY <3>1, <3>2, Unmoved DEF ShownStep
  <2> QED BY <2>1, <2>2, <2>3, AnswersWalk
<1>5. CASE Timed
  <2>1. CASE PrefetchEffect \/ RetryTimer
    BY <2>1, <1>2 DEF PrefetchEffect, RetryTimer, swapVars
  <2>2. CASE GatherTimer
    <3>1. UNCHANGED <<deck, index, snapshot>> /\ swap \in Reshuffle /\ Swapping
      BY <2>2 DEF GatherTimer, IInv, SwapOK, Swapping, NoSwap
    <3>2. Pending' <=> Pending
      BY <2>2, <3>1 DEF GatherTimer, Pending, Swapping, NoSwap, Reshuffle
    <3> QED BY <3>1, <3>2, Unmoved DEF ShownStep
  <2>3. CASE SwapEnds
    <3>1. UNCHANGED <<deck, index, snapshot>> /\ ~Pending /\ ~Pending'
      BY <2>3 DEF SwapEnds, Pending, Swapping
    <3> QED BY <3>1, Unmoved DEF ShownStep
  <2> QED BY <1>5, <2>1, <2>2, <2>3, LandingWalks DEF Timed
<1>6. CASE Reader
  <2>1. CASE OnSwipeLeft \/ OnSwipeRight \/ \E c \in Complexity : OnSwipeVertical(c)
    BY <2>1, SwipesWalk
  <2>2. ASSUME NEW c \in Complexity, OnSelectComplexity(c) PROVE ShownStep
    BY <2>2, <1>2 DEF OnSelectComplexity, swapVars
  <2>3. ASSUME NEW g \in Laterality, OnSelectLaterality(g) PROVE ShownStep
    BY <2>3, Begun DEF OnSelectLaterality, ShownStep
  <2>4. CASE OnOfflineRetry \/ OnAdjustNoNextIdea \/ Reload
    BY <2>4, <1>2
       DEF OnOfflineRetry, OnAdjustNoNextIdea, Reload, RetryLoadMore, swapVars
  <2>5. CASE OnDeckStatusRetry
    <3>1. CASE retryGrade # None /\ ~(Swapping \/ retryGrade = laterality)
      BY <2>5, <3>1, Begun DEF OnDeckStatusRetry, ShownStep
    <3>2. CASE ~(retryGrade # None /\ ~(Swapping \/ retryGrade = laterality))
      BY <2>5, <3>2, <1>2 DEF OnDeckStatusRetry, RetryLoadMore, swapVars
    <3> QED BY <3>1, <3>2
  <2> QED BY <1>6, <2>1, <2>2, <2>3, <2>4, <2>5 DEF Reader
<1>7. CASE GoOffline \/ GoOnline
  BY <1>7, <1>2 DEF GoOffline, GoOnline, swapVars
<1> QED BY <1>1, <1>3, <1>4, <1>5, <1>6, <1>7 DEF Next

(* Until Retry of the offline line is pressed in a reshuffle, the client's *)
(* deck implements CardWalk: the cards walked through stay, in their       *)
(* order, and only what lies ahead is added, exchanged or cut (the whole   *)
(* of index.tsx's deck handlers).                                          *)
THEOREM WalksCorrect == Spec => WalksLikeCards
<1>1. Init => Walk!Init
  BY DEF Init, Walk!Init, Shown, Swapping
<1>2. IInv /\ [Next]_vars => [Walk!Next \/ meddled]_<<Shown.deck, Shown.index>>
  BY WalkStep DEF ShownStep
<1> QED BY <1>1, <1>2, Inductive, PTL DEF Spec, WalksLikeCards
=============================================================================
