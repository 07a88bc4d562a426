------------------------ MODULE ClientSound_proofs ------------------------
(***************************************************************************)
(* Proofs about the sound of the client: that music, effects, layers and   *)
(* the web's sound keep what ClientSound.tla says of each, for any number  *)
(* of players, any events and any grades.  Only the chosen part moves, so  *)
(* each has an invariant of its own, and the steps of the others leave it. *)
(***************************************************************************)
EXTENDS ClientSound, FiniteSetTheorems, SequenceTheorems, TLAPS

-----------------------------------------------------------------------------
(* Finite sets of numbers.  What a recursion would give is had from a      *)
(* least counterexample.                                                   *)

(* A least number.                                                         *)
LEMMA FiniteMin ==
    ASSUME NEW S \in SUBSET Int, S # {}, IsFiniteSet(S)
    PROVE  \E m \in S : \A n \in S : m <= n
<1> DEFINE Below(x) == {y \in S : y <= x}
           T == {Below(x) : x \in S}
<1>1. T \subseteq FiniteSubsetsOf(S) /\ T # {}
  <2>1. \A x \in S : Below(x) \in SUBSET S /\ IsFiniteSet(Below(x))
    BY FS_Subset
  <2> QED BY <2>1, Zenon DEF FiniteSubsetsOf
<1>2. IsWellFoundedOn(StrictSubsetOrdering(S), FiniteSubsetsOf(S))
  BY FS_StrictSubsetOrderingWellFounded
<1>3. PICK B \in T : \A C \in T : <<C, B>> \notin StrictSubsetOrdering(S)
  <2> HIDE DEF T
  <2> QED BY <1>1, <1>2, WFMin
<1>4. PICK m \in S : B = Below(m)
  OBVIOUS
<1>5. SUFFICES ASSUME NEW n \in S, ~(m <= n) PROVE FALSE
  OBVIOUS
<1>6. Below(n) \subseteq Below(m) /\ m \in Below(m) /\ m \notin Below(n)
  <2>1. n \in Int /\ m \in Int /\ n < m
    BY <1>5
  <2>2. \A y \in S : y <= n => y <= m
    BY <2>1
  <2>3. Below(n) \subseteq Below(m)
    BY <2>2, Zenon
  <2>4. m \in Below(m) /\ m \notin Below(n)
    BY <2>1
  <2> QED BY <2>3, <2>4
<1>7. <<Below(n), B>> \in StrictSubsetOrdering(S)
  BY <1>4, <1>6 DEF StrictSubsetOrdering
<1>8. Below(n) \in T
  OBVIOUS
<1> QED BY <1>3, <1>7, <1>8

(* A greatest number.                                                      *)
LEMMA FiniteMax ==
    ASSUME NEW S \in SUBSET Int, S # {}, IsFiniteSet(S)
    PROVE  \E m \in S : \A n \in S : n <= m
<1> DEFINE Above(x) == {y \in S : y >= x}
           T == {Above(x) : x \in S}
<1>1. T \subseteq FiniteSubsetsOf(S) /\ T # {}
  <2>1. \A x \in S : Above(x) \in SUBSET S /\ IsFiniteSet(Above(x))
    BY FS_Subset
  <2> QED BY <2>1, Zenon DEF FiniteSubsetsOf
<1>2. IsWellFoundedOn(StrictSubsetOrdering(S), FiniteSubsetsOf(S))
  BY FS_StrictSubsetOrderingWellFounded
<1>3. PICK B \in T : \A C \in T : <<C, B>> \notin StrictSubsetOrdering(S)
  <2> HIDE DEF T
  <2> QED BY <1>1, <1>2, WFMin
<1>4. PICK m \in S : B = Above(m)
  OBVIOUS
<1>5. SUFFICES ASSUME NEW n \in S, ~(n <= m) PROVE FALSE
  OBVIOUS
<1>6. Above(n) \subseteq Above(m) /\ m \in Above(m) /\ m \notin Above(n)
  <2>1. n \in Int /\ m \in Int /\ n > m
    BY <1>5
  <2>2. \A y \in S : y >= n => y >= m
    BY <2>1
  <2>3. Above(n) \subseteq Above(m)
    BY <2>2, Zenon
  <2>4. m \in Above(m) /\ m \notin Above(n)
    BY <2>1
  <2> QED BY <2>3, <2>4
<1>7. <<Above(n), B>> \in StrictSubsetOrdering(S)
  BY <1>4, <1>6 DEF StrictSubsetOrdering
<1>8. Above(n) \in T
  OBVIOUS
<1> QED BY <1>3, <1>7, <1>8

(* The numbers of T in their order.                                        *)
Increasing(f, T) ==
    /\ f \in [1..Cardinality(T) -> T]
    /\ \A i, j \in 1..Cardinality(T) : i < j => f[i] < f[j]

(* A finite set of numbers has an order.                                   *)
LEMMA Enumerable ==
    ASSUME NEW S \in SUBSET Int, IsFiniteSet(S)
    PROVE  \E f : Increasing(f, S)
<1> DEFINE Bad == {T \in SUBSET S : ~\E f : Increasing(f, T)}
<1> SUFFICES ASSUME Bad # {} PROVE FALSE
  OBVIOUS
<1>1. Bad \subseteq FiniteSubsetsOf(S)
  BY FS_FiniteSubsetsOfFinite
<1>2. PICK T \in Bad : \A U \in Bad : <<U, T>> \notin StrictSubsetOrdering(S)
  <2>1. IsWellFoundedOn(StrictSubsetOrdering(S), FiniteSubsetsOf(S))
    BY FS_StrictSubsetOrderingWellFounded
  <2> HIDE DEF Bad
  <2> QED BY <1>1, <2>1, WFMin
<1>3. T \in SUBSET Int /\ IsFiniteSet(T) /\ Cardinality(T) \in Nat
  BY FS_Subset, FS_CardinalityType
<1>4. T # {}
  <2>1. ASSUME T = {} PROVE Increasing(<<>>, T)
    BY <2>1, FS_EmptySet DEF Increasing
  <2> QED BY <2>1
<1>5. PICK m \in T : \A n \in T : n <= m
  BY <1>3, <1>4, FiniteMax
<1> DEFINE U == T \ {m}
<1>6. IsFiniteSet(U) /\ Cardinality(U) \in Nat /\ Cardinality(T) = Cardinality(U) + 1
  <2>1. IsFiniteSet(U) /\ Cardinality(U) = Cardinality(T) - 1
    BY <1>3, FS_RemoveElement
  <2>2. Cardinality(U) \in Nat
    BY <2>1, FS_CardinalityType
  <2> QED BY <2>1, <2>2, <1>3
<1>7. PICK f : Increasing(f, U)
  <2>1. <<U, T>> \in StrictSubsetOrdering(S)
    BY DEF StrictSubsetOrdering
  <2> QED BY <1>2, <2>1
<1> DEFINE g == [k \in 1..Cardinality(T) |-> IF k <= Cardinality(U) THEN f[k] ELSE m]
<1> HIDE DEF U
<1>8. \A k \in 1..Cardinality(U) : f[k] \in T /\ f[k] < m
  <2>1. \A n \in U : n \in T /\ n < m
    BY <1>3, <1>5 DEF U
  <2> QED BY <2>1, <1>7 DEF Increasing
<1>9. g \in [1..Cardinality(T) -> T]
  BY <1>6, <1>8
<1>10. ASSUME NEW i \in 1..Cardinality(T), NEW j \in 1..Cardinality(T), i < j
       PROVE  g[i] < g[j]
  <2>1. i \in 1..Cardinality(U) /\ g[i] = f[i]
    BY <1>6, <1>10
  <2>2. CASE j <= Cardinality(U)
    BY <2>1, <2>2, <1>6, <1>7, <1>10 DEF Increasing
  <2>3. CASE ~(j <= Cardinality(U))
    BY <2>1, <2>3, <1>6, <1>8
  <2> QED BY <2>2, <2>3
<1>11. Increasing(g, T)
  <2> HIDE DEF g
  <2> QED BY <1>9, <1>10 DEF Increasing
<1> QED BY <1>2, <1>11

(* It leaves none out.                                                     *)
LEMMA IncreasingIsOnto ==
    ASSUME NEW S \in SUBSET Int, IsFiniteSet(S), NEW f, Increasing(f, S)
    PROVE  \A x \in S : \E k \in 1..Cardinality(S) : f[k] = x
<1> DEFINE D == 1..Cardinality(S)
<1>1. Cardinality(S) \in Nat
  BY FS_CardinalityType
<1>2. IsFiniteSet(D) /\ Cardinality(D) = Cardinality(S)
  BY <1>1, FS_Interval
<1>3. f \in Injection(D, S)
  <2>1. f \in [D -> S] /\ \A i \in D : f[i] \in Int
    BY DEF Increasing
  <2>2. ASSUME NEW i \in D, NEW j \in D, f[i] = f[j] PROVE i = j
    BY <2>1, <2>2, <1>1 DEF Increasing
  <2> QED BY <2>1, <2>2 DEF Injection, IsInjective
<1>4. f \in Surjection(D, S)
  BY <1>2, <1>3, FS_Injection
<1> QED BY <1>4 DEF Surjection

(* A sequence without its i-th element.                                    *)
LEMMA CutOut ==
    ASSUME NEW S, NEW s \in Seq(S), NEW i \in 1..Len(s)
    PROVE  LET r == SubSeq(s, 1, i - 1) \o SubSeq(s, i + 1, Len(s)) IN
           /\ r \in Seq(S) /\ Len(r) = Len(s) - 1
           /\ \A j \in 1..(Len(s) - 1) : r[j] = IF j < i THEN s[j] ELSE s[j + 1]
<1> DEFINE a == SubSeq(s, 1, i - 1)
           b == SubSeq(s, i + 1, Len(s))
<1>0. Len(s) \in Nat /\ \A j \in 1..Len(s) : s[j] \in S
  BY ElementOfSeq
<1>1. /\ a \in Seq(S) /\ Len(a) = i - 1
      /\ \A j \in 1..(i - 1) : a[j] = s[j]
  <2>1. \A j \in 1..(i - 1) : s[j] \in S
    BY <1>0
  <2> QED BY <2>1, <1>0, SubSeqProperties
<1>2. /\ b \in Seq(S) /\ Len(b) = Len(s) - i
      /\ \A j \in 1..(Len(s) - i) : b[j] = s[i + j]
  <2>1. \A j \in (i + 1)..Len(s) : s[j] \in S
    BY <1>0
  <2> QED BY <2>1, <1>0, SubSeqProperties
<1> HIDE DEF a, b
<1>4. /\ a \o b \in Seq(S) /\ Len(a \o b) = Len(s) - 1
      /\ \A j \in 1..(Len(s) - 1) : (a \o b)[j] = IF j <= i - 1 THEN a[j] ELSE b[j - (i - 1)]
  <2>1. Len(a) + Len(b) = Len(s) - 1
    BY <1>0, <1>1, <1>2
  <2>2. /\ a \o b \in Seq(S) /\ Len(a \o b) = Len(a) + Len(b)
        /\ \A j \in 1..(Len(a) + Len(b)) :
              (a \o b)[j] = IF j <= Len(a) THEN a[j] ELSE b[j - Len(a)]
    BY <1>1, <1>2, ConcatProperties
  <2> QED BY <2>1, <2>2, <1>1
<1>5. \A j \in 1..(Len(s) - 1) : (a \o b)[j] = IF j < i THEN s[j] ELSE s[j + 1]
  BY <1>0, <1>1, <1>2, <1>4
<1> QED BY <1>4, <1>5 DEF a, b

(* The instances of the parts count as this module does.                   *)
LEMMA SameCounts ==
    /\ \A S : WebAudio!Cardinality(S) = Cardinality(S)
    /\ \A S : Effects!Cardinality(S) = Cardinality(S)
    /\ \A S : Music!Cardinality(S) = Cardinality(S)
BY Zenon DEF WebAudio!Cardinality, Effects!Cardinality, Music!Cardinality, Cardinality

-----------------------------------------------------------------------------
(* The sound of the web.                                                   *)

Try == [uri : Uri, current : BOOLEAN, at : {"decode", "wait"}]

(* What was kept at the gate was handed on, or waits for the context.      *)
GateOK ==
    /\ unlocked \in BOOLEAN /\ musicAllowed \in BOOLEAN /\ flushes \in BOOLEAN
    /\ WebAudio!NothingStaysPending

(* One call of play is the last one, and it is for the source and by the   *)
(* wish that the player has.                                               *)
PlayerOK ==
    /\ player \in [uri : Uri, wants : BOOLEAN, node : Uri \cup {0}]
    /\ player.node # 0 => player.wants /\ player.node = player.uri
TriesOK ==
    /\ tries \subseteq Try
    /\ \A t, u \in tries : t.current /\ u.current => t = u
    /\ \A t \in tries : t.current => player.wants /\ t.uri = player.uri
WInv == GateOK /\ PlayerOK /\ TriesOK

(* What a player is asked to forget, it forgets.                           *)
LEMMA AllStale ==
    ASSUME tries \subseteq Try
    PROVE  /\ WebAudio!Stale \subseteq Try
           /\ \A t \in WebAudio!Stale : ~t.current
BY DEF WebAudio!Stale, Try

(* A set no two members of which differ has one member at most.            *)
LEMMA AtMostOne ==
    ASSUME NEW S, \A x, y \in S : x = y
    PROVE  IsFiniteSet(S) /\ Cardinality(S) <= 1
<1>1. CASE S = {}
  BY <1>1, FS_EmptySet
<1>2. CASE S # {}
  <2>1. PICK x \in S : S = {x}
    BY <1>2
  <2>2. IsFiniteSet({x}) /\ Cardinality({x}) = 1
    BY FS_Singleton
  <2> QED BY <2>1, <2>2
<1> QED BY <1>1, <1>2

(* The gate opens.                                                         *)
LEMMA WebGate == GateOK /\ (WebAudio!Next \/ UNCHANGED webVars) => GateOK'
<1> SUFFICES ASSUME GateOK, WebAudio!Next \/ UNCHANGED webVars PROVE GateOK'
  OBVIOUS
<1> USE DEF GateOK, WebAudio!Flushed, WebAudio!NothingStaysPending
<1>1. ASSUME WebAudio!unlockAudio PROVE GateOK'
  <2>1. UNCHANGED musicAllowed /\ unlocked' = TRUE /\ flushes' \in BOOLEAN
    BY <1>1 DEF WebAudio!unlockAudio
  <2>2. WebAudio!NothingStaysPending'
    BY <1>1 DEF WebAudio!unlockAudio
  <2> QED BY <2>1, <2>2
<1>2. ASSUME WebAudio!notifySoundFirstCardReady PROVE GateOK'
  BY <1>2 DEF WebAudio!notifySoundFirstCardReady
<1>3. ASSUME NEW name \in MusicName, WebAudio!MusicEvent(name) PROVE GateOK'
  BY <1>3 DEF WebAudio!MusicEvent
<1>4. ASSUME WebAudio!Told PROVE GateOK'
  <2>1. CASE UNCHANGED WebAudio!gate
    BY <2>1 DEF WebAudio!gate
  <2>2. CASE /\ flushes' = FALSE /\ UNCHANGED <<unlocked, musicAllowed>>
             /\ pendingMusic' = WebAudio!Flushed(unlocked, musicAllowed)
    BY <2>2
  <2> QED BY <1>4, <2>1, <2>2 DEF WebAudio!Told
<1>5. CASE UNCHANGED WebAudio!gate
  BY <1>5 DEF WebAudio!gate
<1>6. CASE UNCHANGED webVars
  BY <1>6, <1>5 DEF webVars, WebAudio!gate
<1> QED
  BY <1>1, <1>2, <1>3, <1>4, <1>5, <1>6
  DEF WebAudio!Next, WebAudio!Play, WebAudio!Pause, WebAudio!NodeEnds,
      WebAudio!Replace, WebAudio!Warmed, WebAudio!TryDecoded,
      WebAudio!DecodeFails, WebAudio!ContextRuns, WebAudio!ContextStops

(* The player and the calls under way.                                     *)
LEMMA WebPlayer ==
    ASSUME PlayerOK, TriesOK, WebAudio!Next \/ UNCHANGED webVars
    PROVE  PlayerOK' /\ TriesOK'
<1> USE DEF PlayerOK, TriesOK, WebAudio!NoNode
<1>0. CASE UNCHANGED <<player, tries>>
  BY <1>0
<1>1. ASSUME WebAudio!Play PROVE PlayerOK' /\ TriesOK'
  <2> DEFINE t == [uri |-> player.uri, current |-> TRUE, at |-> "decode"]
             w == [t EXCEPT !.at = "wait"]
  <2>1. t \in Try /\ w \in Try /\ t.current /\ w.current
          /\ t.uri = player.uri /\ w.uri = player.uri
    BY DEF Try
  <2>2. PICK new \in {{}, {t}, {w}} : tries' = WebAudio!Stale \cup new
    BY <1>1 DEF WebAudio!Play
  <2>3. /\ player'.wants /\ player'.uri = player.uri
        /\ player' \in [uri : Uri, wants : BOOLEAN, node : Uri \cup {0}]
        /\ player'.node \in {0, player.uri, player.node}
    BY <1>1 DEF WebAudio!Play
  <2>4. PlayerOK'
    BY <2>3
  <2> QED BY <2>1, <2>2, <2>3, <2>4, AllStale
<1>2. ASSUME WebAudio!Pause PROVE PlayerOK' /\ TriesOK'
  <2>1. PlayerOK' /\ tries' = WebAudio!Stale
    BY <1>2 DEF WebAudio!Pause
  <2> QED BY <2>1, AllStale
<1>3. ASSUME NEW u \in Uri, WebAudio!Replace(u) PROVE PlayerOK' /\ TriesOK'
  <2>1. PlayerOK' /\ tries' = WebAudio!Stale
    BY <1>3 DEF WebAudio!Replace
  <2> QED BY <2>1, AllStale
<1>4. ASSUME NEW t \in tries, WebAudio!TryDecoded(t) PROVE PlayerOK' /\ TriesOK'
  BY <1>4 DEF WebAudio!TryDecoded, WebAudio!Started, Try
<1>5. ASSUME NEW t \in tries, WebAudio!DecodeFails(t) PROVE PlayerOK' /\ TriesOK'
  BY <1>5 DEF WebAudio!DecodeFails
<1>6. ASSUME WebAudio!NodeEnds PROVE PlayerOK' /\ TriesOK'
  BY <1>6 DEF WebAudio!NodeEnds
<1>7. ASSUME NEW t \in tries, WebAudio!Runs(t) PROVE PlayerOK' /\ TriesOK'
  BY <1>7 DEF WebAudio!Runs, Try
<1> QED
  BY <1>0, <1>1, <1>2, <1>3, <1>4, <1>5, <1>6, <1>7
  DEF WebAudio!Next, WebAudio!unlockAudio, WebAudio!notifySoundFirstCardReady,
      WebAudio!MusicEvent, WebAudio!Warmed, WebAudio!ContextRuns,
      WebAudio!ContextStops, WebAudio!Told, webVars

(* What sounds on the web is what its player was asked for last, what it   *)
(* was asked for sounds or is on its way by one call, and no music that    *)
(* was asked for before the first gesture or card is forgotten             *)
(* (sound.web.ts).                                                         *)
THEOREM WebSoundCorrect == SoundSpec => []WebSoundIsSound
<1>1. SoundInit => WInv
  <2> SUFFICES ASSUME WebAudio!Init PROVE WInv
    BY DEF SoundInit
  <2>1. GateOK
    BY DEF WebAudio!Init, GateOK, WebAudio!NothingStaysPending
  <2>2. PlayerOK /\ TriesOK
    BY DEF WebAudio!Init, PlayerOK, TriesOK, WebAudio!NoNode
  <2> QED BY <2>1, <2>2 DEF WInv
<1>2. WInv /\ [SoundNext]_soundVars => WInv'
  <2> SUFFICES ASSUME WInv, [SoundNext]_soundVars PROVE WInv'
    OBVIOUS
  <2>1. WebAudio!Next \/ UNCHANGED webVars
    BY DEF SoundNext, soundVars
  <2> QED BY <2>1, WebGate, WebPlayer DEF WInv
<1>3. WInv => WebSoundIsSound
  <2> SUFFICES ASSUME WInv PROVE WebSoundIsSound
    OBVIOUS
  <2>1. Cardinality({t \in tries : t.current}) <= 1
    BY AtMostOne DEF WInv, TriesOK
  <2>2. WebAudio!SoundsWhatWasAskedLast
    <3>1. /\ player.node # 0 => player.wants /\ player.node = player.uri
          /\ \A t \in tries : t.current => player.wants /\ t.uri = player.uri
      BY DEF WInv, PlayerOK, TriesOK
    <3> QED BY <2>1, <3>1, SameCounts, Zenon DEF WebAudio!SoundsWhatWasAskedLast, WebAudio!NoNode
  <2> QED BY <2>2 DEF WInv, GateOK, WebSoundIsSound, WebAudio!WebSoundIsSound
<1> QED BY <1>1, <1>2, <1>3, PTL DEF SoundSpec

-----------------------------------------------------------------------------
(* The effects.                                                            *)

Player == [event : Effect, playing : BOOLEAN, cut : BOOLEAN, fade : BOOLEAN,
           stray : BOOLEAN]
Seek == [at : Nat, event : Effect, early : BOOLEAN]

PoolOK == pool \in Seq(Player)

(* Every player of the pool has its place among those used last.           *)
Lists(o, D) == o \in Seq(D) /\ \A i \in D : \E k \in DOMAIN o : o[k] = i
OldestOK == Lists(oldest, DOMAIN pool)
SeeksOK ==
    /\ seeks \subseteq Seek
    /\ \A s \in seeks : s.at \in DOMAIN pool /\ (s.early => s.event \in Big)

(* What carries meaning is not cut.                                        *)
NotCut == \A i \in DOMAIN pool : pool[i].event \in Meaning => ~pool[i].cut

(* As long as nothing came too fast, one player at a time is being         *)
(* rewound, for what it was taken for, and no fade is forgotten.           *)
OneSeek ==
    /\ \A s, t \in seeks : s = t
    /\ \A s \in seeks : /\ pool[s.at].event = s.event
                        /\ ~pool[s.at].cut /\ ~pool[s.at].fade
    /\ \A i \in DOMAIN pool :
          ~pool[i].stray /\ (pool[i].event \in Meaning => ~pool[i].fade)

AtMostTwo(S) == \A x, y, z \in S : x = y \/ y = z \/ x = z

(* What is heard, or will be when its player has been rewound.             *)
Heard == {i \in DOMAIN pool :
            \/ pool[i].playing /\ ~pool[i].cut
            \/ \E s \in seeks : s.at = i}
TwoVoices == AtMostTwo(Heard) \/ \A i \in Heard : pool[i].event \in Meaning

EInv == /\ PoolOK /\ OldestOK /\ SeeksOK /\ NotCut
        /\ ~rushed => OneSeek /\ TwoVoices

-----------------------------------------------------------------------------
(* Which player is taken, and which is cut.                                *)

(* The pool as a sequence.                                                 *)
LEMMA PoolFacts ==
    ASSUME PoolOK
    PROVE  /\ Len(pool) \in Nat /\ DOMAIN pool = 1..Len(pool)
           /\ \A i \in DOMAIN pool : pool[i] \in Player
           /\ IsFiniteSet(DOMAIN pool)
<1>1. Len(pool) \in Nat /\ DOMAIN pool = 1..Len(pool)
  BY DEF PoolOK
<1>2. \A i \in DOMAIN pool : pool[i] \in Player
  BY <1>1, ElementOfSeq DEF PoolOK
<1>3. IsFiniteSet(1..Len(pool))
  BY <1>1, FS_Interval
<1> QED BY <1>1, <1>2, <1>3

(* A player of the pool, or a new one after the last.                      *)
LEMMA AcquiredIs ==
    ASSUME PoolOK, OldestOK
    PROVE  Effects!Acquired \in DOMAIN pool \/ Effects!Acquired = Len(pool) + 1
<1> DEFINE idle == DOMAIN pool \ Effects!Playing
<1>1. CASE idle # {}
  <2>1. idle \in SUBSET Int /\ IsFiniteSet(idle)
    BY PoolFacts, FS_Subset
  <2>2. Effects!Min(idle) \in idle
    BY <1>1, <2>1, FiniteMin DEF Effects!Min
  <2> QED BY <1>1, <2>2 DEF Effects!Acquired
<1>2. CASE idle = {} /\ Len(pool) < PoolSize
  BY <1>2 DEF Effects!Acquired
<1>3. CASE idle = {} /\ ~(Len(pool) < PoolSize)
  <2>1. Effects!Acquired = Head(oldest)
    BY <1>3 DEF Effects!Acquired
  <2>2. 1 \in DOMAIN pool
    BY <1>3, PoolFacts, SoundAssumption
  <2>3. oldest # <<>>
    BY <2>2 DEF OldestOK, Lists
  <2>4. Head(oldest) \in DOMAIN pool
    BY <2>3, HeadTailProperties DEF OldestOK, Lists
  <2> QED BY <2>1, <2>4
<1> QED BY <1>1, <1>2, <1>3

(* The oldest of some players is one of them.                              *)
LEMMA FirstOfIs ==
    ASSUME OldestOK, NEW S \in SUBSET DOMAIN pool, S # {}
    PROVE  Effects!FirstOf(S) \in S
<1> DEFINE K == {k \in DOMAIN oldest : oldest[k] \in S}
<1>1. Len(oldest) \in Nat /\ DOMAIN oldest = 1..Len(oldest)
  BY DEF OldestOK, Lists
<1>2. K \in SUBSET Int /\ K # {} /\ IsFiniteSet(K)
  <2>1. IsFiniteSet(DOMAIN oldest)
    BY <1>1, FS_Interval
  <2>2. K \in SUBSET DOMAIN oldest /\ IsFiniteSet(K)
    BY <2>1, FS_Subset
  <2>3. PICK i \in S : TRUE
    OBVIOUS
  <2>4. K # {}
    BY <2>3 DEF OldestOK, Lists
  <2> QED BY <2>2, <2>4, <1>1
<1>3. PICK m \in K : \A n \in K : m <= n
  BY <1>2, FiniteMin
<1>4. m \in DOMAIN oldest /\ oldest[m] \in S /\ \A j \in 1..(m - 1) : oldest[j] \notin S
  BY <1>1, <1>3
<1>5. \E k \in DOMAIN oldest : oldest[k] \in S /\ \A j \in 1..(k - 1) : oldest[j] \notin S
  BY <1>4
<1> QED BY <1>5 DEF Effects!FirstOf

(* Whether one is cut, and which.                                          *)
CutsOne == Cardinality(Effects!Playing) >= 2 /\ Effects!Cuttable # {}
TheCut == Effects!FirstOf(Effects!Cuttable)
BeingCut(x) == [x EXCEPT !.cut = TRUE, !.fade = FALSE]

(* The pool after a player was taken for e: the player itself, one other   *)
(* that may have been cut, and the rest as it was.                         *)
LEMMA TakenIs ==
    ASSUME PoolOK, OldestOK, NEW e \in Effect
    PROVE  LET a == Effects!Acquired
               P == Effects!Taken(e) IN
           /\ P \in Seq(Player) /\ DOMAIN P = DOMAIN pool \cup {a}
           /\ P[a].event = e /\ ~P[a].playing /\ ~P[a].cut /\ ~P[a].fade
           /\ P[a].stray => a \in DOMAIN pool /\ pool[a].stray
           /\ \A i \in DOMAIN pool \ {a} :
                 \/ P[i] = pool[i] /\ (CutsOne => i # TheCut)
                 \/ /\ CutsOne /\ i = TheCut /\ i \in Effects!Cuttable
                    /\ P[i] = BeingCut(pool[i])
<1> DEFINE a == Effects!Acquired
           P == Effects!Taken(e)
           C == Effects!Cut
           new == [event |-> e, cut |-> FALSE, fade |-> FALSE,
                   stray |-> IF a \in DOMAIN C THEN C[a].stray ELSE FALSE,
                   playing |-> FALSE]
<1>0. Cardinality(Effects!Playing) \in Nat
  BY PoolFacts, FS_Subset, FS_CardinalityType DEF Effects!Playing
<1>1. CutsOne => TheCut \in Effects!Cuttable /\ TheCut \in DOMAIN pool
  BY FirstOfIs DEF CutsOne, TheCut, Effects!Cuttable, Effects!Playing
<1>2. C = IF CutsOne THEN [pool EXCEPT ![TheCut] = BeingCut(@)]
          ELSE pool
  BY <1>0, SameCounts DEF CutsOne, TheCut, BeingCut, Effects!Cut, Effects!MAX_CONCURRENT_EFFECTS
<1>3. C \in Seq(Player) /\ DOMAIN C = DOMAIN pool /\ Len(C) = Len(pool)
  <2>1. CutsOne => BeingCut(pool[TheCut]) \in Player
    BY <1>1, PoolFacts DEF Player, BeingCut
  <2> QED BY <1>1, <1>2, <2>1, PoolFacts, ExceptSeq DEF PoolOK
<1>4. \A i \in DOMAIN pool :
         C[i] = IF CutsOne /\ i = TheCut THEN BeingCut(pool[i])
                ELSE pool[i]
  BY <1>1, <1>2
<1>5. \A i \in DOMAIN pool : C[i].stray = pool[i].stray
  BY <1>4, PoolFacts DEF Player, BeingCut
<1>6. P = IF a \in DOMAIN C THEN [C EXCEPT ![a] = new] ELSE Append(C, new)
  BY DEF Effects!Taken
<1> HIDE DEF C
<1>7. new \in Player
  <2>1. a \in DOMAIN C => C[a].stray \in BOOLEAN
    <3> SUFFICES ASSUME a \in DOMAIN C PROVE C[a].stray \in BOOLEAN
      OBVIOUS
    <3>1. C[a].stray = pool[a].stray /\ pool[a] \in Player
      BY <1>3, <1>5, PoolFacts
    <3> QED BY <3>1 DEF Player
  <2> QED BY <2>1 DEF Player
<1>8. /\ new.event = e /\ ~new.playing /\ ~new.cut /\ ~new.fade
      /\ new.stray => a \in DOMAIN pool /\ pool[a].stray
  BY <1>3, <1>5
<1> HIDE DEF new, P
<1>9. /\ P \in Seq(Player) /\ DOMAIN P = DOMAIN pool \cup {a} /\ P[a] = new
      /\ \A i \in DOMAIN pool \ {a} : P[i] = C[i]
  <2>1. CASE a \in DOMAIN pool
    BY <2>1, <1>3, <1>6, <1>7, ExceptSeq
  <2>2. CASE a \notin DOMAIN pool
    <3>1. a = Len(C) + 1
      BY <2>2, <1>3, AcquiredIs
    <3>2. /\ Append(C, new) \in Seq(Player)
          /\ Len(Append(C, new)) = Len(C) + 1
          /\ \A i \in 1..Len(C) : Append(C, new)[i] = C[i]
          /\ Append(C, new)[Len(C) + 1] = new
      BY <1>3, <1>7, AppendProperties
    <3>3. P = Append(C, new) /\ Len(C) \in Nat /\ DOMAIN pool = 1..Len(C)
      BY <2>2, <1>3, <1>6, PoolFacts
    <3>4. DOMAIN P = 1..(Len(C) + 1)
      BY <3>2, <3>3
    <3> QED BY <3>1, <3>2, <3>3, <3>4
  <2> QED BY <2>1, <2>2
<1>10. ASSUME NEW i \in DOMAIN pool \ {a}
       PROVE  \/ P[i] = pool[i] /\ (CutsOne => i # TheCut)
              \/ /\ CutsOne /\ i = TheCut /\ i \in Effects!Cuttable
                 /\ P[i] = BeingCut(pool[i])
  BY <1>1, <1>4, <1>9
<1> HIDE DEF a
<1> QED BY <1>8, <1>9, <1>10 DEF a, P

(* One player of the pool changes.                                         *)
LEMMA PlayerChanges ==
    ASSUME PoolOK, OldestOK, NEW i \in DOMAIN pool, NEW y \in Player,
           pool' = [pool EXCEPT ![i] = y], UNCHANGED oldest
    PROVE  /\ PoolOK' /\ OldestOK' /\ DOMAIN pool' = DOMAIN pool
           /\ pool'[i] = y /\ \A j \in DOMAIN pool \ {i} : pool'[j] = pool[j]
<1>1. pool' \in Seq(Player) /\ DOMAIN pool' = DOMAIN pool
  BY PoolFacts, ExceptSeq DEF PoolOK
<1>2. pool'[i] = y /\ \A j \in DOMAIN pool \ {i} : pool'[j] = pool[j]
  OBVIOUS
<1> QED BY <1>1, <1>2 DEF PoolOK, OldestOK

(* A player falls silent, and perhaps a fade of it is over.                *)
LEMMA FallsSilent ==
    ASSUME EInv, NEW i \in DOMAIN pool, NEW y \in Player,
           pool' = [pool EXCEPT ![i] = y], UNCHANGED <<oldest, seeks, rushed>>,
           y.event = pool[i].event, ~y.playing,
           y.cut => pool[i].cut, y.fade => pool[i].fade, y.stray => pool[i].stray
    PROVE  EInv'
<1>1. PoolOK /\ OldestOK
  BY DEF EInv
<1>2. /\ PoolOK' /\ OldestOK' /\ DOMAIN pool' = DOMAIN pool
      /\ pool'[i] = y /\ \A j \in DOMAIN pool \ {i} : pool'[j] = pool[j]
  BY <1>1, PlayerChanges
<1>3. \A j \in DOMAIN pool :
         /\ pool'[j].event = pool[j].event
         /\ pool'[j].cut => pool[j].cut
         /\ pool'[j].fade => pool[j].fade
         /\ pool'[j].stray => pool[j].stray
  BY <1>2
<1>4. SeeksOK' /\ NotCut'
  BY <1>2, <1>3 DEF EInv, SeeksOK, NotCut
<1>5. ASSUME ~rushed PROVE OneSeek'
  BY <1>2, <1>3, <1>5 DEF EInv, OneSeek, SeeksOK
<1>6. ASSUME ~rushed PROVE TwoVoices'
  <2>1. Heard' \subseteq Heard
    BY <1>2, <1>3 DEF Heard
  <2>2. \A j \in Heard' : pool'[j].event = pool[j].event
    BY <1>2, <1>3 DEF Heard
  <2> HIDE DEF Heard
  <2> QED BY <2>1, <2>2, <1>6 DEF EInv, TwoVoices, AtMostTwo
<1> QED BY <1>2, <1>4, <1>5, <1>6 DEF EInv

(* A player that has been rewound begins to play.                          *)
LEMMA BeginsToPlay ==
    ASSUME EInv, NEW s \in seeks, Effects!Rewound(s)
    PROVE  EInv'
<1> DEFINE i == s.at
           y == Effects!Begun(pool[i], s.early)
<1>1. PoolOK /\ OldestOK /\ i \in DOMAIN pool /\ pool[i] \in Player
        /\ s \in Seek
  BY PoolFacts DEF EInv, SeeksOK
<1>2. y \in Player
  BY <1>1 DEF Player, Seek, Effects!Begun
<1>3. /\ y.event = pool[i].event /\ y.cut = pool[i].cut
      /\ y.fade = (pool[i].fade \/ s.early)
      /\ y.stray = (pool[i].stray \/ (s.early /\ pool[i].fade))
  BY <1>1 DEF Player, Effects!Begun
<1>4. pool' = [pool EXCEPT ![i] = y] /\ seeks' = seeks \ {s}
        /\ UNCHANGED <<oldest, rushed>>
  BY DEF Effects!Rewound
<1> HIDE DEF y
<1>5. /\ PoolOK' /\ OldestOK' /\ DOMAIN pool' = DOMAIN pool
      /\ pool'[i] = y /\ \A j \in DOMAIN pool \ {i} : pool'[j] = pool[j]
  BY <1>1, <1>2, <1>4, PlayerChanges
<1>6. \A j \in DOMAIN pool :
         pool'[j].event = pool[j].event /\ pool'[j].cut = pool[j].cut
  BY <1>3, <1>5
<1>7. SeeksOK' /\ NotCut'
  BY <1>4, <1>5, <1>6 DEF EInv, SeeksOK, NotCut
<1>8. ASSUME ~rushed PROVE OneSeek'
  <2>1. OneSeek
    BY <1>8 DEF EInv
  <2>2. seeks' = {} /\ ~pool[i].fade /\ ~pool[i].stray /\ pool[i].event = s.event
    BY <2>1, <1>1, <1>4 DEF OneSeek
  <2>3. ~y.stray
    BY <2>2, <1>3
  <2>4. pool[i].event \in Meaning => ~y.fade
    BY <2>2, <1>3, SoundAssumption DEF EInv, SeeksOK
  <2>5. \A j \in DOMAIN pool' : ~pool'[j].stray /\ (pool'[j].event \in Meaning => ~pool'[j].fade)
    BY <2>1, <2>3, <2>4, <1>3, <1>5 DEF OneSeek
  <2> QED BY <2>2, <2>5 DEF OneSeek
<1>9. ASSUME ~rushed PROVE TwoVoices'
  <2>1. Heard' \subseteq Heard
    BY <1>4, <1>5, <1>6 DEF Heard
  <2>2. \A j \in Heard' : pool'[j].event = pool[j].event
    BY <1>5, <1>6 DEF Heard
  <2> HIDE DEF Heard
  <2> QED BY <2>1, <2>2, <1>9 DEF EInv, TwoVoices, AtMostTwo
<1> QED BY <1>4, <1>5, <1>7, <1>8, <1>9 DEF EInv

(* The player used last comes to the end of those used.                    *)
LEMMA UsedLast ==
    ASSUME NEW D, NEW o, NEW a, D \subseteq Int, a \in Int, Lists(o, D),
           NEW r, r = Append(Effects!RemoveFirst(o, a), a)
    PROVE  Lists(r, D \cup {a})
<1> DEFINE q == Effects!RemoveFirst(o, a)
<1>0. /\ o \in Seq(D) /\ Len(o) \in Nat /\ DOMAIN o = 1..Len(o)
      /\ \A i \in D : \E k \in 1..Len(o) : o[k] = i
  BY DEF Lists
<1>1. q \in Seq(D) /\ \A i \in D \ {a} : \E k \in 1..Len(q) : q[k] = i
  <2>1. CASE \E k \in 1..Len(o) : o[k] = a
    <3> DEFINE K == {k \in 1..Len(o) : o[k] = a}
               p == Effects!Min(K)
    <3>1. K # {} /\ K \in SUBSET Int /\ IsFiniteSet(K)
      <4>1. IsFiniteSet(1..Len(o)) /\ K \in SUBSET (1..Len(o))
        BY <1>0, FS_Interval
      <4> QED BY <4>1, <2>1, FS_Subset
    <3>2. p \in K
      BY <3>1, FiniteMin DEF Effects!Min
    <3>3. q = SubSeq(o, 1, p - 1) \o SubSeq(o, p + 1, Len(o))
      BY <2>1, <3>1 DEF Effects!RemoveFirst, Effects!SelectInSeq, Effects!RemoveAt
    <3>5. p \in 1..Len(o) /\ o[p] = a
      BY <3>2
    <3> HIDE DEF q, p
    <3>4. /\ q \in Seq(D) /\ Len(q) = Len(o) - 1
          /\ \A j \in 1..(Len(o) - 1) : q[j] = IF j < p THEN o[j] ELSE o[j + 1]
      BY <3>3, <3>5, <1>0, CutOut
    <3>6. ASSUME NEW i \in D \ {a} PROVE \E k \in 1..Len(q) : q[k] = i
      <4>1. PICK k \in 1..Len(o) : o[k] = i
        BY <1>0
      <4>2. k # p
        BY <4>1, <3>5
      <4>3. CASE k < p
        <5>1. k \in 1..Len(q) /\ k < p
          BY <4>3, <3>4, <3>5, <1>0
        <5>2. q[k] = o[k]
          BY <5>1, <3>4
        <5> QED BY <5>1, <5>2, <4>1
      <4>4. CASE k > p
        <5>1. k - 1 \in 1..Len(q) /\ ~(k - 1 < p) /\ (k - 1) + 1 = k
          BY <4>4, <3>4, <3>5, <1>0
        <5>2. q[k - 1] = o[k]
          BY <5>1, <3>4
        <5> QED BY <5>1, <5>2, <4>1
      <4> QED BY <4>2, <4>3, <4>4, <3>5, <1>0
    <3> QED BY <3>4, <3>6
  <2>2. CASE ~\E k \in 1..Len(o) : o[k] = a
    <3>1. q = o
      BY <2>2 DEF Effects!RemoveFirst
    <3> QED BY <3>1, <1>0
  <2> QED BY <2>1, <2>2
<1>9. r = Append(q, a)
  OBVIOUS
<1> HIDE DEF q
<1>2. q \in Seq(D \cup {a})
  BY <1>1, SeqMonotonic
<1>3. /\ r \in Seq(D \cup {a}) /\ Len(r) = Len(q) + 1 /\ Len(q) \in Nat
      /\ \A i \in 1..Len(q) : r[i] = q[i]
      /\ r[Len(q) + 1] = a
  BY <1>2, <1>9, AppendProperties
<1>4. DOMAIN r = 1..(Len(q) + 1)
  BY <1>3
<1>5. ASSUME NEW i \in D \cup {a} PROVE \E k \in DOMAIN r : r[k] = i
  <2>1. CASE i = a
    BY <2>1, <1>3, <1>4
  <2>2. CASE i # a
    <3>1. PICK k \in 1..Len(q) : q[k] = i
      BY <2>2, <1>1
    <3> QED BY <3>1, <1>3, <1>4
  <2> QED BY <2>1, <2>2
<1> QED BY <1>3, <1>5 DEF Lists

(* What a count of at most one or two says, and the other way round.       *)
LEMMA FewerThanTwo ==
    ASSUME NEW S, IsFiniteSet(S), Cardinality(S) < 2
    PROVE  \A x, y \in S : x = y
<1> SUFFICES ASSUME NEW x \in S, NEW y \in S, x # y PROVE FALSE
  OBVIOUS
<1>1. IsFiniteSet({x}) /\ Cardinality({x}) = 1
  BY FS_Singleton
<1>2. Cardinality({x} \cup {y}) = 2
  BY <1>1, FS_AddElement
<1>3. {x} \cup {y} \in SUBSET S
  OBVIOUS
<1>4. Cardinality({x} \cup {y}) <= Cardinality(S)
  BY <1>3, FS_Subset
<1> QED BY <1>2, <1>4, FS_CardinalityType

(* What has no three elements has at most two.                             *)
LEMMA NoMoreThanTwo ==
    ASSUME NEW S, AtMostTwo(S)
    PROVE  Cardinality(S) <= 2
<1>1. CASE S = {}
  BY <1>1, FS_EmptySet
<1>2. CASE S # {}
  <2>1. PICK x \in S : TRUE
    BY <1>2
  <2>2. IsFiniteSet({x}) /\ Cardinality({x}) = 1
    BY FS_Singleton
  <2>3. CASE S = {x}
    BY <2>2, <2>3
  <2>4. CASE S # {x}
    <3>1. PICK y \in S : y # x
      BY <2>1, <2>4
    <3>2. S = {x} \cup {y}
      BY <3>1 DEF AtMostTwo
    <3>3. Cardinality({x} \cup {y}) = 2
      BY <2>2, <3>1, FS_AddElement
    <3> QED BY <3>2, <3>3
  <2> QED BY <2>3, <2>4
<1> QED BY <1>1, <1>2

(* With at most one beside it, there are at most two.                      *)
LEMMA OneMore ==
    ASSUME NEW S, NEW a, \A x, y \in S \ {a} : x = y
    PROVE  AtMostTwo(S)
<1> SUFFICES ASSUME NEW x \in S, NEW y \in S, NEW z \in S,
                    x # y, y # z, x # z
             PROVE  FALSE
  BY DEF AtMostTwo
<1> QED OBVIOUS

(* An event takes a player, and may cut another.                           *)
LEMMA EventComes ==
    ASSUME EInv, NEW e \in Effect, NEW reduceMotion \in BOOLEAN,
           Effects!soundEvent(e, reduceMotion)
    PROVE  EInv'
<1> DEFINE a == Effects!Acquired
           new == [at |-> a, event |-> e, early |-> reduceMotion /\ e \in Big]
<1>0. PoolOK /\ OldestOK /\ SeeksOK /\ NotCut
  BY DEF EInv
<1>1. /\ pool' = Effects!Taken(e) /\ seeks' = seeks \cup {new}
      /\ oldest' = Append(Effects!RemoveFirst(oldest, a), a)
      /\ rushed' = (rushed \/ seeks # {} \/ Effects!Playing # Effects!Uncut)
      /\ Effects!MayPlay(e)
  BY Zenon DEF Effects!soundEvent
<1>2. a \in Nat /\ (a \in DOMAIN pool \/ a = Len(pool) + 1)
  BY <1>0, AcquiredIs, PoolFacts
<1>3. /\ pool' \in Seq(Player) /\ DOMAIN pool' = DOMAIN pool \cup {a}
      /\ pool'[a].event = e /\ ~pool'[a].playing
      /\ ~pool'[a].cut /\ ~pool'[a].fade
      /\ pool'[a].stray => a \in DOMAIN pool /\ pool[a].stray
      /\ \A i \in DOMAIN pool \ {a} :
            \/ pool'[i] = pool[i] /\ (CutsOne => i # TheCut)
            \/ /\ CutsOne /\ i = TheCut /\ i \in Effects!Cuttable
               /\ pool'[i] = BeingCut(pool[i])
  <2> HIDE DEF a
  <2> QED BY <1>0, <1>1, TakenIs, Zenon DEF a
<1>4. \A i \in DOMAIN pool : CutsOne /\ i = TheCut /\ i \in Effects!Cuttable =>
         /\ BeingCut(pool[i]).event = pool[i].event
         /\ BeingCut(pool[i]).playing = pool[i].playing
         /\ BeingCut(pool[i]).stray = pool[i].stray
         /\ BeingCut(pool[i]).cut /\ ~BeingCut(pool[i]).fade
         /\ pool[i].event \notin Meaning
  BY <1>0, PoolFacts DEF Player, BeingCut, Effects!Cuttable
<1> HIDE DEF a
<1>5. OldestOK'
  <2>1. DOMAIN pool \subseteq Int /\ a \in Int
    BY <1>0, <1>2, PoolFacts
  <2>2. oldest' = Append(Effects!RemoveFirst(oldest, a), a)
    BY <1>1
  <2>3. Lists(oldest', DOMAIN pool \cup {a})
    BY <1>0, <2>1, <2>2, UsedLast DEF OldestOK
  <2> QED BY <2>3, <1>3 DEF OldestOK
<1>6. SeeksOK'
  <2>1. new \in Seek /\ new.at = a /\ (new.early => new.event \in Big)
    BY <1>2 DEF Seek
  <2> HIDE DEF new
  <2> QED BY <2>1, <1>0, <1>1, <1>3 DEF SeeksOK
<1>7. NotCut'
  BY <1>0, <1>3, <1>4 DEF NotCut
<1>8. ASSUME ~rushed' PROVE OneSeek'
  <2>1. OneSeek /\ seeks' = {new}
    BY <1>1, <1>8 DEF EInv
  <2>2. new.at = a /\ new.event = e
    OBVIOUS
  <2> HIDE DEF new
  <2>3. \A i \in DOMAIN pool' :
          ~pool'[i].stray /\ (pool'[i].event \in Meaning => ~pool'[i].fade)
    BY <2>1, <1>3, <1>4 DEF OneSeek
  <2> QED BY <2>1, <2>2, <2>3, <1>3 DEF OneSeek
<1>9. ASSUME ~rushed' PROVE TwoVoices'
  <2> DEFINE Rest == Heard' \ {a}
  <2>1. TwoVoices /\ seeks = {} /\ Effects!Playing = Effects!Uncut /\ seeks' = {new}
    BY <1>1, <1>9 DEF EInv
  <2>2. new.at = a
    OBVIOUS
  <2> HIDE DEF new
  <2>3. Effects!Playing = Heard
    BY <2>1 DEF Heard, Effects!Playing, Effects!Uncut
  <2>4. \A i \in Rest : /\ i \in Effects!Playing /\ (CutsOne => i # TheCut)
                       /\ pool'[i].event = pool[i].event
    BY <2>1, <2>2, <1>3, <1>4 DEF Heard, Effects!Playing
  <2>5. IsFiniteSet(Effects!Playing) /\ Cardinality(Effects!Playing) \in Nat
    BY <1>0, PoolFacts, FS_Subset, FS_CardinalityType DEF Effects!Playing
  <2>6. CASE Cardinality(Effects!Playing) < 2
    <3>1. \A x, y \in Effects!Playing : x = y
      BY <2>5, <2>6, FewerThanTwo
    <3>2. \A x, y \in Rest : x = y
      BY <3>1, <2>4
    <3> HIDE DEF Rest
    <3> QED BY <3>2, OneMore DEF Rest, TwoVoices
  <2>7. CASE CutsOne
    <3>1. TheCut \in Effects!Cuttable
      BY <1>0, <2>7, FirstOfIs DEF CutsOne, TheCut, Effects!Cuttable, Effects!Playing
    <3>2. TheCut \in Heard /\ pool[TheCut].event \notin Meaning
      BY <3>1, <2>3 DEF Effects!Cuttable
    <3>3. AtMostTwo(Heard)
      BY <3>2, <2>1 DEF TwoVoices
    <3>4. \A i \in Rest : i \in Heard /\ i # TheCut
      BY <2>3, <2>4, <2>7
    <3> HIDE DEF Rest
    <3>5. \A x, y \in Rest : x = y
      BY <3>2, <3>3, <3>4, Zenon DEF AtMostTwo
    <3> QED BY <3>5, OneMore DEF Rest, TwoVoices
  <2>8. CASE ~CutsOne /\ ~(Cardinality(Effects!Playing) < 2)
    <3>1. Effects!Cuttable = {} /\ e \in Meaning
      BY <2>5, <2>8, <1>1, SameCounts
         DEF CutsOne, Effects!MayPlay, Effects!MAX_CONCURRENT_EFFECTS
    <3>2. \A i \in Rest : pool'[i].event \in Meaning
      BY <3>1, <2>4 DEF Effects!Cuttable
    <3>3. \A i \in Heard' : pool'[i].event \in Meaning
      BY <3>1, <3>2, <1>3
    <3> QED BY <3>3 DEF TwoVoices
  <2> QED BY <2>6, <2>7, <2>8
<1> QED BY <1>1, <1>3, <1>5, <1>6, <1>7, <1>8, <1>9 DEF EInv, PoolOK

(* The gate closes and opens, and windows close.                           *)
LEMMA GateMoves ==
    ASSUME EInv,
           \/ \E background \in BOOLEAN : Effects!GateCloses(background)
           \/ Effects!GateOpens \/ \E e \in Effect : Effects!WindowCloses(e)
           \/ UNCHANGED effectsVars
    PROVE  EInv'
<1>1. CASE UNCHANGED <<pool, oldest, seeks, rushed>>
  BY <1>1 DEF EInv, PoolOK, OldestOK, Lists, SeeksOK, NotCut, OneSeek, TwoVoices, Heard
<1>2. CASE pool' = <<>> /\ oldest' = <<>> /\ seeks' = {}
  <2>1. DOMAIN pool' = {} /\ pool' \in Seq(Player) /\ oldest' \in Seq(DOMAIN pool')
    BY <1>2
  <2>2. Heard' = {}
    BY <2>1 DEF Heard
  <2> QED BY <2>1, <2>2, <1>2
          DEF EInv, PoolOK, OldestOK, Lists, SeeksOK, NotCut, OneSeek, TwoVoices, AtMostTwo
<1>3. \/ UNCHANGED <<pool, oldest, seeks, rushed>>
      \/ pool' = <<>> /\ oldest' = <<>> /\ seeks' = {}
  BY DEF effectsVars, Effects!GateCloses, Effects!GateOpens, Effects!WindowCloses
<1> QED BY <1>1, <1>2, <1>3

(* Every step of the effects keeps it.                                     *)
LEMMA EffectsStep ==
    ASSUME EInv, Effects!Next \/ UNCHANGED effectsVars
    PROVE  EInv'
<1>0. PoolOK
  BY DEF EInv
<1>1. CASE \E e \in Effect, r \in BOOLEAN : Effects!soundEvent(e, r)
  BY <1>1, EventComes
<1>2. CASE \E s \in seeks : Effects!Rewound(s)
  BY <1>2, BeginsToPlay
<1>3. ASSUME NEW i \in DOMAIN pool, Effects!SoundEnds(i) PROVE EInv'
  <2> DEFINE y == [pool[i] EXCEPT !.playing = FALSE]
  <2>1. /\ y \in Player /\ ~y.playing /\ y.event = pool[i].event
        /\ y.cut => pool[i].cut
        /\ y.fade => pool[i].fade
        /\ y.stray => pool[i].stray
    BY <1>0, PoolFacts DEF Player
  <2>2. pool' = [pool EXCEPT ![i] = y] /\ UNCHANGED <<oldest, seeks, rushed>>
    BY <1>3 DEF Effects!SoundEnds
  <2> HIDE DEF y
  <2> QED BY <2>1, <2>2, FallsSilent
<1>4. ASSUME NEW i \in DOMAIN pool, NEW which \in {"cut", "fade", "stray"},
             Effects!FadeEnds(i, which)
      PROVE EInv'
  <2> DEFINE y == Effects!Faded(pool[i], which)
  <2>1. /\ y \in Player /\ ~y.playing /\ y.event = pool[i].event
        /\ y.cut => pool[i].cut
        /\ y.fade => pool[i].fade
        /\ y.stray => pool[i].stray
    BY <1>0, PoolFacts DEF Player, Effects!Faded
  <2>2. pool' = [pool EXCEPT ![i] = y] /\ UNCHANGED <<oldest, seeks, rushed>>
    BY <1>4 DEF Effects!FadeEnds
  <2> HIDE DEF y
  <2> QED BY <2>1, <2>2, FallsSilent
<1> QED BY <1>1, <1>2, <1>3, <1>4, GateMoves DEF Effects!Next

(* It says what the property does.                                         *)
LEMMA EffectsFollow ==
    ASSUME EInv PROVE EffectsAreHeard
<1>1. Effects!MeaningIsHeard
  BY DEF EInv, NotCut, OneSeek, Effects!MeaningIsHeard, Effects!Playing
<1>2. Effects!TwoAtATime
  <2> SUFFICES ASSUME ~rushed PROVE Effects!TwoAtATime
    BY DEF Effects!TwoAtATime
  <2>1. Effects!Uncut \subseteq Heard
    BY DEF Effects!Uncut, Effects!Playing, Heard
  <2>2. CASE AtMostTwo(Heard)
    <3>1. AtMostTwo(Effects!Uncut)
      BY <2>1, <2>2, Zenon DEF AtMostTwo
    <3>2. Cardinality(Effects!Uncut) <= 2
      BY <3>1, NoMoreThanTwo
    <3> QED BY <3>2, SameCounts
            DEF Effects!TwoAtATime, Effects!MAX_CONCURRENT_EFFECTS
  <2>3. CASE \A i \in Heard : pool[i].event \in Meaning
    BY <2>1, <2>3 DEF Effects!TwoAtATime
  <2> QED BY <2>2, <2>3 DEF EInv, TwoVoices
<1> QED BY <1>1, <1>2 DEF EffectsAreHeard

(* At most two effects sound at a time, and those that carry meaning are   *)
(* heard out (soundEngine.ts), for pools of any size of two or more.       *)
THEOREM EffectsCorrect == SoundSpec => []EffectsAreHeard
<1>1. SoundInit => EInv
  <2> SUFFICES ASSUME SoundInit PROVE EInv
    OBVIOUS
  <2>1. pool = <<>> /\ oldest = <<>> /\ seeks = {}
    BY DEF SoundInit, Effects!Init
  <2>2. DOMAIN pool = {} /\ pool \in Seq(Player) /\ oldest \in Seq(DOMAIN pool)
    BY <2>1
  <2>3. Heard = {}
    BY <2>2 DEF Heard
  <2> QED BY <2>1, <2>2, <2>3
          DEF EInv, PoolOK, OldestOK, Lists, SeeksOK, NotCut, OneSeek, TwoVoices, AtMostTwo
<1>2. EInv /\ [SoundNext]_soundVars => EInv'
  <2> SUFFICES ASSUME EInv, [SoundNext]_soundVars PROVE EInv'
    OBVIOUS
  <2>1. Effects!Next \/ UNCHANGED effectsVars
    BY DEF SoundNext, soundVars
  <2> QED BY <2>1, EffectsStep
<1>3. EInv => EffectsAreHeard
  BY EffectsFollow
<1> QED BY <1>1, <1>2, <1>3, PTL DEF SoundSpec

-----------------------------------------------------------------------------
(* The adaptive layers.                                                    *)

LazyRole == {"pulse", "arp", "arp-bright", "rhythm", "extra"}
Quiet(g) == g["arp"] = Layers!Silent \/ g["arp-bright"] = Layers!Silent

LType ==
    /\ onWeb \in BOOLEAN /\ clock \in BOOLEAN /\ padding \in BOOLEAN
    /\ sched \in [enabled : BOOLEAN, paused : BOOLEAN, level : Levels,
                  loaded : SUBSET Layers!Role]
    /\ pending \in Levels \cup {Unset}
    /\ fade \in [Layers!Role -> Int] \cup {Unset}
    /\ DOMAIN sources = Layers!Role

(* Without its clock the scheduler has nothing under way.                  *)
Started ==
    /\ clock => sched.enabled
    /\ ~clock => /\ pending = Unset /\ fade = Unset /\ gains = Layers!Mute
                 /\ "bar" \notin timers /\ "fade" \notin timers

(* A fade and a pending bar have their timers, unless all is paused.       *)
Armed ==
    /\ sched.paused => timers = {}
    /\ clock /\ ~sched.paused =>
          /\ "fade" \in timers <=> fade # Unset
          /\ "bar" \in timers <=> pending # Unset

(* What is pending is the level in force; if nothing is, what is heard or  *)
(* faded to is what that level calls for.                                  *)
Towards ==
    /\ pending # Unset => pending = sched.level
    /\ clock /\ pending = Unset =>
          (IF fade # Unset THEN fade ELSE gains)
             = Layers!audibleGains(sched.level, sched.loaded)

(* Of the two arps one is silent, or will be after the fade.               *)
OneArp == IF fade # Unset THEN Quiet(fade) ELSE Quiet(gains)

(* What has been loaded plays, unless it could not be made; on the web it  *)
(* has been decoded.                                                       *)
Loaded ==
    /\ "pad" \in sched.loaded
    /\ padding => onWeb
    /\ onWeb => sched.loaded \ {"pad"} \subseteq ready
    /\ onWeb /\ clock /\ "pad" \in ready => sources["pad"] # "none"
    /\ clock => \A role \in sched.loaded \ failed :
         (role = "pad" /\ padding) \/ sources[role] # "none"

LInv == LType /\ Started /\ Armed /\ Towards /\ OneArp /\ Loaded

(* The roles, and those loaded late.                                       *)
LEMMA RolesAre ==
    /\ Layers!Role = {"pad"} \cup LazyRole
    /\ \A n \in DOMAIN Layers!LAZY_LAYER_ROLES : Layers!LAZY_LAYER_ROLES[n] \in LazyRole
<1>1. Layers!LAZY_LAYER_ROLES = <<"pulse", "arp", "arp-bright", "rhythm", "extra">>
  BY DEF Layers!LAZY_LAYER_ROLES
<1>2. DOMAIN Layers!LAZY_LAYER_ROLES = 1..5
  BY <1>1
<1>3. \A n \in 1..5 : n = 1 \/ n = 2 \/ n = 3 \/ n = 4 \/ n = 5
  OBVIOUS
<1>4. \A n \in DOMAIN Layers!LAZY_LAYER_ROLES : Layers!LAZY_LAYER_ROLES[n] \in LazyRole
  BY <1>1, <1>2, <1>3 DEF LazyRole
<1>5. /\ Layers!LAZY_LAYER_ROLES[1] = "pulse" /\ Layers!LAZY_LAYER_ROLES[2] = "arp"
      /\ Layers!LAZY_LAYER_ROLES[3] = "arp-bright" /\ Layers!LAZY_LAYER_ROLES[4] = "rhythm"
      /\ Layers!LAZY_LAYER_ROLES[5] = "extra"
  BY <1>1
<1>6. LazyRole \subseteq {Layers!LAZY_LAYER_ROLES[n] : n \in DOMAIN Layers!LAZY_LAYER_ROLES}
  BY <1>2, <1>5 DEF LazyRole
<1>7. Layers!ToSet(Layers!LAZY_LAYER_ROLES)
        = {Layers!LAZY_LAYER_ROLES[n] : n \in DOMAIN Layers!LAZY_LAYER_ROLES}
  BY DEF Layers!ToSet
<1>8. Layers!ToSet(Layers!LAZY_LAYER_ROLES) = LazyRole
  BY <1>4, <1>6, <1>7
<1> QED BY <1>4, <1>8 DEF Layers!Role

(* What a level calls for: a gain for each layer, one of the arps silent.  *)
LEMMA GainsAre ==
    ASSUME NEW l \in Levels, NEW S
    PROVE  /\ l # Unset
           /\ Layers!audibleGains(l, S) \in [Layers!Role -> Int]
           /\ Layers!audibleGains(l, S) # Unset
           /\ Quiet(Layers!audibleGains(l, S))
<1>1. l[1] \in Int /\ l[2] \in Int
  BY SoundAssumption
<1> DEFINE T == Layers!layerTargets(l)
           A == Layers!audibleGains(l, S)
<1>2. \A r \in Layers!Role :
         T[r] \in Int /\ (r \in {"arp", "arp-bright"} /\ r # Layers!arpOf(l[2]) => T[r] = Layers!Silent)
  <2> SUFFICES ASSUME NEW r \in Layers!Role
               PROVE  /\ T[r] \in Int
                      /\ r \in {"arp", "arp-bright"} /\ r # Layers!arpOf(l[2])
                           => T[r] = Layers!Silent
    OBVIOUS
  <2>1. Layers!LAYER_BASE_GAIN_DB(r) \in Int /\ Layers!extraGainDb(l[2]) \in Int
    BY <1>1, RolesAre DEF Layers!LAYER_BASE_GAIN_DB, Layers!extraGainDb, LazyRole
  <2>2. Layers!Silent \in Int
    BY DEF Layers!Silent
  <2>3. T[r] = IF \/ l[1] < Layers!LAYER_COMPLEXITY_MIN(r)
                  \/ r \in {"arp", "arp-bright"} /\ r # Layers!arpOf(l[2])
               THEN Layers!Silent
               ELSE Layers!LAYER_BASE_GAIN_DB(r)
                    + (IF r = "extra" THEN Layers!extraGainDb(l[2]) ELSE 0)
    BY DEF Layers!layerTargets
  <2> QED BY <2>1, <2>2, <2>3
<1> HIDE DEF T
<1>3. /\ DOMAIN A = Layers!Role
      /\ \A r \in Layers!Role : A[r] = IF r \in S THEN T[r] ELSE Layers!Silent
  BY DEF Layers!audibleGains, T
<1>4. Layers!Silent \in Int
  BY DEF Layers!Silent
<1>5. A \in [Layers!Role -> Int]
  <2>1. A = [r \in Layers!Role |-> IF r \in S THEN T[r] ELSE Layers!Silent]
    BY DEF Layers!audibleGains, T
  <2> QED BY <2>1, <1>2, <1>4
<1> HIDE DEF A
<1>6. Quiet(A)
  <2>1. "arp" \in Layers!Role /\ "arp-bright" \in Layers!Role
    BY RolesAre DEF LazyRole
  <2>2. "arp" # Layers!arpOf(l[2]) \/ "arp-bright" # Layers!arpOf(l[2])
    BY DEF Layers!arpOf
  <2> QED BY <2>1, <2>2, <1>2, <1>3 DEF Quiet
<1> QED BY <1>5, <1>6, SoundAssumption DEF A

(* What is mute plays no arp.                                              *)
LEMMA MuteIsQuiet == Quiet(Layers!Mute)
<1>1. "arp" \in Layers!Role
  BY RolesAre DEF LazyRole
<1> QED BY <1>1 DEF Quiet, Layers!Mute

-----------------------------------------------------------------------------
(* What each step does.                                                    *)

(* A change of level, or another layer, is queued for the next bar.        *)
LEMMA Queued ==
    ASSUME LInv, Layers!queueFromProgress(sched'),
           sched' \in [enabled : BOOLEAN, paused : BOOLEAN, level : Levels,
                       loaded : SUBSET Layers!Role],
           sched'.enabled = sched.enabled, sched'.paused = sched.paused,
           UNCHANGED <<clock, gains, fade>>
    PROVE  Started' /\ Armed' /\ Towards' /\ OneArp'
             /\ pending' \in Levels \cup {Unset}
<1>1. sched'.level \in Levels /\ sched'.level # Unset
  BY GainsAre
<1>2. CASE ~clock
  <2>1. UNCHANGED <<pending, timers>>
    BY <1>2 DEF Layers!queueFromProgress
  <2> QED BY <1>2, <2>1 DEF LInv, LType, Started, Armed, Towards, OneArp
<1>3. CASE clock
  <2>1. /\ pending' = sched'.level
        /\ timers' = IF sched.paused THEN timers ELSE timers \cup {"bar"}
    BY <1>3 DEF LInv, Started, Layers!queueFromProgress
  <2> QED BY <1>1, <1>3, <2>1 DEF LInv, LType, Started, Armed, Towards, OneArp
<1> QED BY <1>2, <1>3 DEF LInv, LType

(* A new level is queued for the next bar.                                 *)
LEMMA SetProgress ==
    ASSUME LInv, NEW l \in Levels, Layers!setProgress(l), UNCHANGED onWeb
    PROVE  LInv'
<1>1. /\ sched' = [sched EXCEPT !.level = l] /\ Layers!queueFromProgress(sched')
      /\ UNCHANGED <<clock, gains, fade, sources, ready, padding, failed>>
  BY DEF Layers!setProgress
<1>2. /\ sched' \in [enabled : BOOLEAN, paused : BOOLEAN, level : Levels,
                     loaded : SUBSET Layers!Role]
      /\ sched'.enabled = sched.enabled /\ sched'.paused = sched.paused
      /\ sched'.loaded = sched.loaded
  BY <1>1 DEF LInv, LType
<1>3. Started' /\ Armed' /\ Towards' /\ OneArp' /\ pending' \in Levels \cup {Unset}
  BY <1>1, <1>2, Queued
<1>4. LType'
  BY <1>1, <1>2, <1>3 DEF LInv, LType
<1>5. Loaded'
  BY <1>1, <1>2 DEF LInv, Loaded
<1> QED BY <1>3, <1>4, <1>5 DEF LInv

(* The bar comes: a fade to what was queued begins.                        *)
LEMMA FireBar ==
    ASSUME LInv, Layers!fireBar, UNCHANGED onWeb
    PROVE  LInv'
<1>1. "bar" \in timers /\ UNCHANGED <<sched, clock, gains, sources, ready, padding, failed>>
  BY DEF Layers!fireBar
<1>2. clock /\ ~sched.paused /\ pending # Unset /\ pending = sched.level
  BY <1>1 DEF LInv, LType, Started, Armed, Towards
<1>3. Loaded'
  BY <1>1 DEF LInv, Loaded
<1>4. CASE fade # Unset
  <2>1. UNCHANGED <<timers, pending, fade>>
    BY <1>4 DEF Layers!fireBar
  <2> QED BY <1>1, <1>3, <2>1 DEF LInv, LType, Started, Armed, Towards, OneArp
<1>5. CASE fade = Unset
  <2>1. /\ fade' = Layers!audibleGains(sched.level, sched.loaded)
        /\ pending' = Unset /\ timers' = (timers \ {"bar"}) \cup {"fade"}
    BY <1>2, <1>5 DEF Layers!fireBar
  <2>2. /\ fade' # Unset /\ fade' \in [Layers!Role -> Int] /\ Quiet(fade')
    BY <2>1, GainsAre DEF LInv, LType
  <2>3. LType' /\ Started'
    BY <1>1, <1>2, <2>1, <2>2 DEF LInv, LType, Started
  <2>4. Armed' /\ Towards'
    BY <1>1, <1>2, <2>1, <2>2 DEF LInv, Armed, Towards
  <2>5. OneArp'
    BY <2>2 DEF OneArp
  <2> QED BY <1>3, <2>3, <2>4, <2>5 DEF LInv
<1> QED BY <1>4, <1>5

(* A fade comes to its end.                                                *)
LEMMA FadeOver ==
    ASSUME LInv, fade # Unset, gains' = fade, fade' = Unset,
           UNCHANGED <<onWeb, clock, pending, sources, ready, padding, failed>>,
           sched' \in [enabled : BOOLEAN, paused : BOOLEAN, level : Levels,
                       loaded : SUBSET Layers!Role],
           sched'.enabled = sched.enabled, sched'.level = sched.level,
           sched'.loaded = sched.loaded
    PROVE  LType' /\ Started' /\ Towards' /\ OneArp' /\ Loaded'
<1>1. clock
  BY DEF LInv, LType, Started
<1>2. LType' /\ Started' /\ Loaded'
  BY <1>1 DEF LInv, LType, Started, Loaded
<1>3. Towards' /\ OneArp'
  BY <1>1 DEF LInv, Towards, OneArp
<1> QED BY <1>2, <1>3

(* A tick of the fade.                                                     *)
LEMMA Ticks ==
    ASSUME LInv, NEW last \in BOOLEAN, Layers!FadeTick(last), UNCHANGED onWeb
    PROVE  LInv' /\ fade # Unset
<1>1. "fade" \in timers /\ UNCHANGED <<sched, clock, pending, sources, ready, padding, failed>>
  BY DEF Layers!FadeTick
<1>2. clock /\ ~sched.paused /\ fade # Unset
  BY <1>1 DEF LInv, LType, Started, Armed
<1>3. CASE last
  <2>1. gains' = fade /\ fade' = Unset /\ timers' = timers \ {"fade"}
    BY <1>3 DEF Layers!FadeTick
  <2>2. LType' /\ Started' /\ Towards' /\ OneArp' /\ Loaded'
    BY <1>1, <1>2, <2>1, FadeOver DEF LInv, LType
  <2>3. Armed'
    BY <1>1, <1>2, <2>1 DEF LInv, Armed
  <2> QED BY <1>2, <2>2, <2>3 DEF LInv
<1>4. CASE ~last
  <2>1. UNCHANGED <<fade, timers>>
    BY <1>4 DEF Layers!FadeTick
  <2> QED BY <1>1, <1>2, <2>1 DEF LInv, LType, Started, Armed, Towards, OneArp, Loaded
<1> QED BY <1>3, <1>4

(* The group starts on its clock.                                          *)
LEMMA EnsureStarted ==
    ASSUME LInv, NEW broken \in SUBSET Fragile, Layers!ensureStarted(broken),
           UNCHANGED onWeb
    PROVE  LInv' /\ clock' # clock
<1> DEFINE wanted == IF onWeb THEN sched.loaded \cap ready
                     ELSE {"pad"} \cup ready \cup sched.loaded
           made == wanted \ broken
<1>1. /\ sched.enabled /\ ~clock /\ clock' = TRUE
      /\ sched' = [sched EXCEPT !.paused = FALSE]
      /\ gains' = Layers!audibleGains(sched.level, sched.loaded)
      /\ pending' = Unset /\ padding' = onWeb
      /\ failed' = (failed \ made) \cup broken
      /\ fade' = fade
  BY DEF Layers!ensureStarted
<1>2. /\ onWeb => broken = {}
      /\ sources' = [role \in Layers!Role |->
                       IF role \notin made THEN sources[role]
                       ELSE IF onWeb THEN "playing" ELSE "seeking"]
      /\ ready' = IF onWeb THEN ready ELSE ready \cup made
      /\ timers' = IF onWeb THEN timers ELSE {"align"}
  BY DEF Layers!ensureStarted
<1>3. /\ sched' \in [enabled : BOOLEAN, paused : BOOLEAN, level : Levels,
                     loaded : SUBSET Layers!Role]
      /\ sched'.enabled /\ ~sched'.paused /\ sched'.level = sched.level
      /\ sched'.loaded = sched.loaded
  BY <1>1 DEF LInv, LType
<1>4. fade = Unset /\ "bar" \notin timers' /\ "fade" \notin timers'
  BY <1>1, <1>2 DEF LInv, Started
<1>5. LType'
  BY <1>1, <1>2, <1>3 DEF LInv, LType
<1>6. Started' /\ Armed'
  BY <1>1, <1>3, <1>4 DEF Started, Armed
<1>7. Towards'
  BY <1>1, <1>3, <1>4 DEF Towards
<1>8. OneArp'
  BY <1>1, <1>4, GainsAre DEF LInv, LType, OneArp
<1>9. Loaded'
  <2>1. sched.loaded \subseteq Layers!Role /\ "pad" \in Layers!Role
    BY RolesAre DEF LInv, LType
  <2>2. \A role \in made \cap Layers!Role : sources'[role] # "none"
    BY <1>2
  <2>3. "pad" \in sched'.loaded /\ (padding' => onWeb')
    BY <1>1, <1>3 DEF LInv, Loaded
  <2>4. onWeb => sched.loaded \ {"pad"} \subseteq ready
    BY DEF LInv, Loaded
  <2>5. onWeb' => sched'.loaded \ {"pad"} \subseteq ready'
    BY <2>4, <1>2, <1>3
  <2>6. onWeb' /\ "pad" \in ready' => sources'["pad"] # "none"
    BY <2>1, <2>2, <2>3, <1>2, <1>3
  <2>7. ASSUME NEW role \in sched'.loaded \ failed'
        PROVE  (role = "pad" /\ padding') \/ sources'[role] # "none"
    <3>1. CASE ~onWeb
      <4>1. role \in made \cap Layers!Role
        BY <3>1, <1>1, <1>3, <2>1, <2>7
      <4> QED BY <4>1, <2>2
    <3>2. CASE onWeb /\ role # "pad"
      <4>1. role \in made \cap Layers!Role
        BY <3>2, <1>2, <1>3, <2>1, <2>4, <2>7
      <4> QED BY <4>1, <2>2
    <3> QED BY <3>1, <3>2, <1>1
  <2> QED BY <2>3, <2>5, <2>6, <2>7 DEF Loaded
<1> QED BY <1>1, <1>5, <1>6, <1>7, <1>8, <1>9 DEF LInv

(* The pad is decoded: the scheduler starts.                               *)
LEMMA PadIsDecoded ==
    ASSUME LInv, NEW ok \in BOOLEAN, Layers!PadDecoded(ok), UNCHANGED onWeb
    PROVE  LInv' /\ UNCHANGED gains
<1>1. /\ padding /\ padding' = FALSE
      /\ UNCHANGED <<sched, clock, gains, pending, fade, timers>>
      /\ ready' = IF ok THEN ready \cup {"pad"} ELSE ready
      /\ sources' = IF ok /\ clock /\ sources["pad"] = "none"
                    THEN [sources EXCEPT !["pad"] = "playing"] ELSE sources
      /\ failed' = IF ok \/ "pad" \in ready THEN failed \ {"pad"}
                   ELSE failed \cup {"pad"}
  BY DEF Layers!PadDecoded, Layers!scheduler
<1>2. LType' /\ Started' /\ Armed' /\ Towards' /\ OneArp'
  BY <1>1 DEF LInv, LType, Started, Armed, Towards, OneArp
<1>3. /\ "pad" \in Layers!Role /\ onWeb
      /\ \A role \in Layers!Role \ {"pad"} : sources'[role] = sources[role]
      /\ ok /\ clock => sources'["pad"] # "none"
      /\ ~ok => sources'["pad"] = sources["pad"]
  BY <1>1, RolesAre DEF LInv, LType, Loaded
<1>4. Loaded'
  <2>1. /\ "pad" \in sched'.loaded /\ ~padding'
        /\ onWeb' => sched'.loaded \ {"pad"} \subseteq ready'
    BY <1>1 DEF LInv, Loaded
  <2>2. onWeb' /\ clock' /\ "pad" \in ready' => sources'["pad"] # "none"
    BY <1>1, <1>3 DEF LInv, Loaded
  <2>3. ASSUME clock', NEW role \in sched'.loaded \ failed'
        PROVE  sources'[role] # "none"
    <3>1. CASE role = "pad"
      BY <3>1, <2>2, <2>3, <1>1, <1>3
    <3>2. CASE role # "pad"
      <4>1. role \in Layers!Role \ {"pad"} /\ role \in sched.loaded \ failed
        BY <3>2, <2>3, <1>1 DEF LInv, LType
      <4> QED BY <4>1, <1>1, <1>3, <2>3 DEF LInv, Loaded
    <3> QED BY <3>1, <3>2
  <2> QED BY <2>1, <2>2, <2>3 DEF Loaded
<1> QED BY <1>1, <1>2, <1>4 DEF LInv

(* A layer loaded late has come, or not.                                   *)
LEMMA LayerLoads ==
    ASSUME LInv, NEW ok \in BOOLEAN, Layers!LazyLoads(ok), UNCHANGED onWeb
    PROVE  LInv' /\ UNCHANGED gains
<1> DEFINE role == Layers!LAZY_LAYER_ROLES[lazy]
<1>1. /\ lazy \in DOMAIN Layers!LAZY_LAYER_ROLES
      /\ sources' = [sources EXCEPT ![role] =
                     CASE ~ok \/ ~clock -> @
                       [] ok /\ clock /\ onWeb -> "playing"
                       [] OTHER -> "seeking"]
      /\ ready' = IF ok THEN ready \cup {role} ELSE ready
      /\ failed' = IF ok THEN failed ELSE failed \cup {role}
      /\ UNCHANGED <<clock, gains, fade, padding>>
  BY DEF Layers!LazyLoads
<1>2. \/ /\ ok \/ ~onWeb
         /\ sched' = [sched EXCEPT !.loaded = @ \cup {role}]
         /\ Layers!queueFromProgress(sched')
      \/ ~ok /\ onWeb /\ UNCHANGED <<sched, pending, timers>>
  BY DEF Layers!LazyLoads, LInv, LType
<1>3. role \in Layers!Role /\ role # "pad"
  BY <1>1, RolesAre DEF LazyRole
<1> HIDE DEF role
<1>4. /\ sched' \in [enabled : BOOLEAN, paused : BOOLEAN, level : Levels,
                     loaded : SUBSET Layers!Role]
      /\ sched'.enabled = sched.enabled /\ sched'.paused = sched.paused
      /\ sched'.loaded \subseteq sched.loaded \cup {role}
      /\ sched.loaded \subseteq sched'.loaded
      /\ ~ok /\ onWeb => sched'.loaded = sched.loaded
  BY <1>2, <1>3 DEF LInv, LType
<1>5. /\ Started' /\ Armed' /\ Towards' /\ OneArp'
      /\ pending' \in Levels \cup {Unset}
  <2>1. CASE Layers!queueFromProgress(sched')
    BY <1>1, <1>4, <2>1, Queued
  <2>2. CASE UNCHANGED <<sched, pending, timers>>
    BY <1>1, <2>2 DEF LInv, LType, Started, Armed, Towards, OneArp
  <2> QED BY <2>1, <2>2, <1>2
<1>6. /\ DOMAIN sources' = Layers!Role
      /\ \A r \in Layers!Role \ {role} : sources'[r] = sources[r]
      /\ ok /\ clock => sources'[role] # "none"
  BY <1>1, <1>3 DEF LInv, LType
<1>7. LType'
  BY <1>1, <1>4, <1>5, <1>6 DEF LInv, LType
<1>8. Loaded'
  <2>1. "pad" \in sched'.loaded /\ (padding' => onWeb')
    BY <1>1, <1>4 DEF LInv, Loaded
  <2>2. onWeb' => sched'.loaded \ {"pad"} \subseteq ready'
    BY <1>1, <1>4 DEF LInv, Loaded
  <2>3. onWeb' /\ clock' /\ "pad" \in ready' => sources'["pad"] # "none"
    <3>1. "pad" \in Layers!Role \ {role}
      BY <1>3, RolesAre
    <3>2. sources'["pad"] = sources["pad"]
      BY <3>1, <1>6
    <3> QED BY <3>2, <1>1, <1>3 DEF LInv, Loaded
  <2>4. ASSUME clock', NEW r \in sched'.loaded \ failed'
        PROVE  (r = "pad" /\ padding') \/ sources'[r] # "none"
    <3>1. CASE r = role
      BY <3>1, <2>4, <1>1, <1>6
    <3>2. CASE r # role
      <4>1. r \in Layers!Role \ {role} /\ r \in sched.loaded \ failed
        BY <3>2, <2>4, <1>1, <1>4
      <4> QED BY <4>1, <1>1, <1>6, <2>4 DEF LInv, Loaded
    <3> QED BY <3>1, <3>2
  <2> QED BY <2>1, <2>2, <2>3, <2>4 DEF Loaded
<1> QED BY <1>1, <1>5, <1>7, <1>8 DEF LInv

(* Players that were rewound, aligned or paused sound or are still, but    *)
(* are there as before.                                                    *)
SameSources == DOMAIN sources' = Layers!Role
                 /\ \A r \in Layers!Role : sources[r] # "none" => sources'[r] # "none"

(* Sources start and stop.                                                 *)
LEMMA SourcesMove ==
    ASSUME LInv, SameSources, UNCHANGED <<onWeb, clock, ready, padding, failed>>,
           sched'.loaded = sched.loaded
    PROVE  Loaded'
<1>1. sched.loaded \subseteq Layers!Role /\ "pad" \in Layers!Role
  BY RolesAre DEF LInv, LType
<1> QED BY <1>1 DEF LInv, Loaded, SameSources

(* Players seek, are put in step or pause.                                 *)
LEMMA PlayersMove ==
    ASSUME LInv, UNCHANGED onWeb,
           \/ Layers!startLazyLoads \/ Layers!reAlignToMaster \/ Layers!pause
           \/ \E role \in Layers!Role : Layers!SeekDone(role)
    PROVE  LInv' /\ UNCHANGED gains
<1>1. /\ UNCHANGED <<clock, gains, pending, fade, ready, padding, failed>>
      /\ \/ UNCHANGED <<sched, timers>>
         \/ sched' = [sched EXCEPT !.paused = TRUE] /\ timers' = {}
  BY DEF Layers!startLazyLoads, Layers!reAlignToMaster, Layers!pause,
         Layers!SeekDone, Layers!scheduler
<1>2. SameSources
  <2>1. CASE Layers!startLazyLoads
    BY <2>1 DEF LInv, LType, SameSources, Layers!startLazyLoads
  <2>2. CASE Layers!reAlignToMaster
    BY <2>2 DEF SameSources, Layers!reAlignToMaster, Layers!AllPlay
  <2>3. CASE Layers!pause
    BY <2>3 DEF LInv, LType, SameSources, Layers!pause
  <2>4. CASE \E role \in Layers!Role : Layers!SeekDone(role)
    BY <2>4 DEF LInv, LType, SameSources, Layers!SeekDone
  <2> QED BY <2>1, <2>2, <2>3, <2>4
<1>3. /\ sched' \in [enabled : BOOLEAN, paused : BOOLEAN, level : Levels,
                     loaded : SUBSET Layers!Role]
      /\ sched'.enabled = sched.enabled /\ sched'.level = sched.level
      /\ sched'.loaded = sched.loaded
      /\ UNCHANGED <<sched, timers>> \/ (sched'.paused /\ timers' = {})
  BY <1>1 DEF LInv, LType
<1>4. Loaded'
  BY <1>1, <1>2, <1>3, SourcesMove
<1>5. LType' /\ Started' /\ Armed'
  BY <1>1, <1>2, <1>3 DEF LInv, LType, Started, Armed, SameSources
<1>6. Towards' /\ OneArp'
  BY <1>1, <1>3 DEF LInv, Towards, OneArp
<1> QED BY <1>1, <1>4, <1>5, <1>6 DEF LInv

(* After a pause each source starts again.                                 *)
LEMMA Resumes ==
    ASSUME LInv, NEW late \in BOOLEAN, Layers!resume(late), UNCHANGED onWeb
    PROVE  LInv' /\ (UNCHANGED gains \/ fade # Unset)
<1> DEFINE ends == fade # Unset /\ onWeb /\ late
<1>1. /\ sources' = (IF onWeb THEN sources ELSE Layers!AllPlay)
      /\ UNCHANGED <<clock, pending, ready, padding, failed>>
  BY DEF Layers!resume
<1>2. SameSources
  BY <1>1 DEF LInv, LType, SameSources, Layers!AllPlay
<1>3. CASE ~sched.paused
  <2>1. UNCHANGED <<sched, gains, fade, timers>>
    BY <1>3 DEF Layers!resume
  <2>2. Loaded'
    BY <1>1, <1>2, <2>1, SourcesMove
  <2>3. LType' /\ Started' /\ Armed' /\ Towards' /\ OneArp'
    BY <1>1, <1>2, <2>1 DEF LInv, LType, Started, Armed, Towards, OneArp, SameSources
  <2> QED BY <2>1, <2>2, <2>3 DEF LInv
<1>4. CASE sched.paused
  <2>1. /\ sched' = [sched EXCEPT !.paused = FALSE]
        /\ ends => gains' = fade /\ fade' = Unset
        /\ ~ends => UNCHANGED <<gains, fade>>
    BY <1>4 DEF Layers!resume
  <2>2. timers' = {t \in {"bar", "fade", "align"} :
                     CASE t = "bar" -> pending # Unset /\ clock
                                       /\ sched.enabled
                       [] t = "fade" -> fade # Unset /\ ~ends
                       [] OTHER -> ~onWeb /\ clock}
    BY <1>4 DEF Layers!resume
  <2>3. /\ "bar" \in timers' <=> pending # Unset /\ clock /\ sched.enabled
        /\ "fade" \in timers' <=> fade # Unset /\ ~ends
    BY <2>2
  <2>4. /\ sched' \in [enabled : BOOLEAN, paused : BOOLEAN, level : Levels,
                       loaded : SUBSET Layers!Role]
        /\ sched'.enabled = sched.enabled /\ sched'.level = sched.level
        /\ sched'.loaded = sched.loaded /\ ~sched'.paused
    BY <2>1 DEF LInv, LType
  <2>5. Loaded'
    BY <1>1, <1>2, <2>4, SourcesMove
  <2>6. LType'
    BY <1>1, <1>2, <2>1, <2>4 DEF LInv, LType, SameSources
  <2>7. Started'
    BY <1>1, <2>1, <2>3, <2>4 DEF LInv, Started
  <2>8. Armed'
    BY <1>1, <2>1, <2>3, <2>4 DEF LInv, Started, Armed
  <2>9. Towards' /\ OneArp'
    BY <1>1, <2>1, <2>4 DEF LInv, Towards, OneArp
  <2> QED BY <2>1, <2>5, <2>6, <2>7, <2>8, <2>9 DEF LInv
<1> QED BY <1>3, <1>4 DEF LInv, LType

(* All stop together.                                                      *)
LEMMA GroupStops ==
    ASSUME LInv, UNCHANGED onWeb,
           Layers!stop \/ \E on \in BOOLEAN : Layers!setEnabled(on)
    PROVE  LInv' /\ (UNCHANGED gains \/ clock' # clock)
<1>1. /\ sched' \in [enabled : BOOLEAN, paused : BOOLEAN, level : Levels,
                     loaded : SUBSET Layers!Role]
      /\ sched'.level = sched.level /\ sched'.paused = sched.paused
      /\ sched'.loaded = sched.loaded
      /\ UNCHANGED <<ready, padding, failed>>
      /\ \/ Layers!Stopped
         \/ sched'.enabled /\ UNCHANGED <<clock, gains, pending, fade, timers, sources>>
  BY DEF LInv, LType, Layers!stop, Layers!setEnabled
<1>2. CASE Layers!Stopped
  <2>1. /\ clock' = FALSE /\ gains' = Layers!Mute /\ pending' = Unset /\ fade' = Unset
        /\ timers' = {} /\ sources' = [role \in Layers!Role |-> "none"]
    BY <1>2 DEF Layers!Stopped
  <2>2. LType' /\ Started' /\ Armed' /\ Towards'
    BY <1>1, <2>1 DEF LInv, LType, Started, Armed, Towards
  <2>3. OneArp'
    BY <2>1, MuteIsQuiet DEF OneArp
  <2>4. Loaded'
    BY <1>1, <2>1 DEF LInv, Loaded
  <2>5. ~clock => UNCHANGED gains
    BY <2>1 DEF LInv, Started
  <2> QED BY <2>1, <2>2, <2>3, <2>4, <2>5 DEF LInv, LType
<1>3. CASE sched'.enabled /\ UNCHANGED <<clock, gains, pending, fade, timers, sources>>
  <2>1. LType' /\ Started' /\ Armed' /\ Towards'
    BY <1>1, <1>3 DEF LInv, LType, Started, Armed, Towards
  <2>2. OneArp' /\ Loaded'
    BY <1>1, <1>3 DEF LInv, OneArp, Loaded
  <2> QED BY <1>3, <2>1, <2>2 DEF LInv
<1> QED BY <1>1, <1>2, <1>3

(* Every step keeps the invariant, and changes the gains only in a fade or *)
(* with the clock.                                                         *)
LEMMA LayersStep ==
    ASSUME LInv, [SoundNext]_soundVars
    PROVE  LInv' /\ (gains' # gains => fade # Unset \/ clock' # clock)
<1>1. UNCHANGED onWeb /\ (Layers!Next \/ UNCHANGED layersVars)
  BY DEF SoundNext, soundVars
<1>2. CASE UNCHANGED layersVars
  <2>1. UNCHANGED <<sched, clock, gains, pending, fade, timers, sources, ready, padding, failed>>
    BY <1>2 DEF layersVars
  <2> QED BY <1>1, <2>1 DEF LInv, LType, Started, Armed, Towards, OneArp, Loaded
<1>3. CASE Layers!Next
  <2>1. CASE \E l \in Levels : Layers!setProgress(l)
    BY <1>1, <2>1, SetProgress DEF Layers!setProgress
  <2>2. CASE Layers!fireBar
    BY <1>1, <2>2, FireBar DEF Layers!fireBar
  <2>3. CASE \E last \in BOOLEAN : Layers!FadeTick(last)
    BY <1>1, <2>3, Ticks
  <2>4. CASE \E broken \in SUBSET Fragile : Layers!ensureStarted(broken)
    BY <1>1, <2>4, EnsureStarted
  <2>5. CASE \E ok \in BOOLEAN : Layers!PadDecoded(ok) \/ Layers!LazyLoads(ok)
    BY <1>1, <2>5, PadIsDecoded, LayerLoads
  <2>6. CASE \/ Layers!startLazyLoads \/ Layers!reAlignToMaster \/ Layers!pause
             \/ \E role \in Layers!Role : Layers!SeekDone(role)
    BY <1>1, <2>6, PlayersMove
  <2>7. CASE \E late \in BOOLEAN : Layers!resume(late)
    BY <1>1, <2>7, Resumes
  <2>8. CASE Layers!stop \/ \E on \in BOOLEAN : Layers!setEnabled(on)
    BY <1>1, <2>8, GroupStops
  <2> QED BY <1>3, <2>1, <2>2, <2>3, <2>4, <2>5, <2>6, <2>7, <2>8 DEF Layers!Next
<1> QED BY <1>1, <1>2, <1>3

(* The adaptive layers settle on what complexity and laterality call for,  *)
(* what has been loaded plays, and a gain changes only in a fade that a    *)
(* bar began or when the group starts or stops (soundLayers.ts).           *)
THEOREM LayersCorrect == SoundSpec => LayersSettle
<1>1. SoundInit => LInv
  <2> SUFFICES ASSUME SoundInit PROVE LInv
    OBVIOUS
  <2>1. Layers!Init
    BY DEF SoundInit
  <2>2. /\ sched \in [enabled : BOOLEAN, paused : BOOLEAN, level : Levels,
                      loaded : SUBSET Layers!Role]
        /\ sched.enabled /\ ~sched.paused /\ sched.loaded = {"pad"}
        /\ onWeb \in BOOLEAN
    BY <2>1, RolesAre DEF Layers!Init
  <2>3. /\ clock = FALSE /\ gains = Layers!Mute /\ pending = Unset /\ fade = Unset
        /\ timers = {} /\ sources = [role \in Layers!Role |-> "none"]
        /\ ready = {} /\ padding = FALSE
    BY <2>1 DEF Layers!Init
  <2> QED BY <2>2, <2>3, MuteIsQuiet DEF LInv, LType, Started, Armed, Towards, OneArp, Loaded
<1>2. LInv /\ [SoundNext]_soundVars => LInv'
  BY LayersStep
<1>3. LInv => Layers!LayersSettle
  <2> SUFFICES ASSUME LInv PROVE Layers!LayersSettle
    OBVIOUS
  <2>1. Layers!Running /\ {"bar", "fade"} \cap timers = {} =>
          fade = Unset /\ pending = Unset
          /\ gains = Layers!audibleGains(sched.level, sched.loaded)
    BY DEF LInv, LType, Armed, Towards, Layers!Running
  <2>2. fade = Unset => Layers!Silent \in {gains["arp"], gains["arp-bright"]}
    BY DEF LInv, OneArp, Quiet
  <2>3. clock => \A role \in sched.loaded \ failed :
          (role = "pad" /\ padding) \/ sources[role] # "none"
    BY DEF LInv, Loaded
  <2> QED BY <2>1, <2>2, <2>3 DEF Layers!LayersSettle
<1>4. LInv /\ [SoundNext]_soundVars
        => [gains' # gains => fade # Unset \/ clock' # clock]_(Layers!layersVars)
  BY LayersStep
<1> QED BY <1>1, <1>2, <1>3, <1>4, PTL DEF SoundSpec, LayersSettle, Layers!EntersAtBars

-----------------------------------------------------------------------------
(* The music: players in sequences.  K is a set of pairs of kind and asset;*)
(* what is stopping is of no K.                                            *)

Asset == (0..4) \cup {"calm", "bright"}
LiveKind == {"intro", "bed", "texture", "arrival", "dropin"}
LiveSlot ==
    {x \in [kind : LiveKind, asset : Asset, loop : BOOLEAN,
            stopping : BOOLEAN, fades : BOOLEAN] :
        /\ ~x.stopping /\ ~x.fades /\ (x.loop => Music!Loops(x))
        /\ x.kind = "texture" => x.asset \in 1..4}
SlotSet == LiveSlot \cup {Music!Leaving}
Slots(s) == s \in Seq(SlotSet) /\ Len(s) <= MaxPlayers

Of(x, K) == ~x.stopping /\ <<x.kind, x.asset>> \in K
No(s, K) == \A i \in DOMAIN s : ~Of(s[i], K)
One(s, K) == \A i, j \in DOMAIN s : Of(s[i], K) /\ Of(s[j], K) => i = j
Has(s, K) == \E i \in DOMAIN s : Of(s[i], K)
Looped(s) ==
    \A i \in DOMAIN s : ~s[i].stopping /\ Music!Loops(s[i]) => s[i].loop

EveryK == LiveKind \X Asset
IntroK == {"intro"} \X Asset
BedK == {"bed"} \X Asset
DropInK == {"dropin"} \X Asset
TextureK == {"texture"} \X Asset
AboveK(n) == {"texture"} \X ((n + 1)..4)
TexK(a) == {<<"texture", a>>}
Lasting == {"intro", "bed"} \X Asset

(* t has no player that s has not: what may be added counts apart.         *)
Thin(t, s) == \A K : (No(s, K) => No(t, K)) /\ (One(s, K) => One(t, K))
Adds(t, s, x) ==
    \A K : /\ No(s, K) /\ ~Of(x, K) => No(t, K)
           /\ One(s, K) /\ (Of(x, K) => No(s, K)) => One(t, K)
Keeps(t, s) == \A K \in SUBSET Lasting : Has(s, K) => Has(t, K)

(* The players as a sequence.                                              *)
LEMMA SlotFacts ==
    ASSUME NEW s \in Seq(SlotSet)
    PROVE  /\ Len(s) \in Nat /\ DOMAIN s = 1..Len(s) /\ IsFiniteSet(DOMAIN s)
           /\ DOMAIN s \in SUBSET Int /\ Cardinality(DOMAIN s) = Len(s)
           /\ \A i \in DOMAIN s : s[i] \in SlotSet
<1>1. Len(s) \in Nat /\ DOMAIN s = 1..Len(s)
  OBVIOUS
<1>2. IsFiniteSet(1..Len(s)) /\ Cardinality(1..Len(s)) = Len(s)
  BY <1>1, FS_Interval
<1>3. \A i \in DOMAIN s : s[i] \in SlotSet
  BY <1>1, ElementOfSeq
<1> QED BY <1>1, <1>2, <1>3

(* A player that leaves.                                                   *)
LEMMA LeavingIs ==
    /\ Music!Leaving \in SlotSet /\ Music!Leaving.stopping /\ Music!Leaving.fades
    /\ ~Music!Leaving.loop /\ Music!Leaving.kind = "leaving"
<1>1. Music!Leaving = [kind |-> "leaving", asset |-> 0, loop |-> FALSE,
                       stopping |-> TRUE, fades |-> TRUE]
  BY DEF Music!Leaving
<1> QED BY <1>1 DEF SlotSet

(* A slot leaves or is live; what is live is of EveryK.                    *)
LEMMA SlotIs ==
    ASSUME NEW x \in SlotSet
    PROVE  /\ x.stopping \in BOOLEAN /\ x.loop \in BOOLEAN /\ x.fades \in BOOLEAN
           /\ x.stopping => x = Music!Leaving
           /\ ~x.stopping => x \in LiveSlot /\ ~x.fades /\ x.kind \in LiveKind
                             /\ Of(x, EveryK)
           /\ x.loop => ~x.stopping /\ Music!Loops(x)
           /\ x.kind \in Music!Kind
<1>1. CASE x = Music!Leaving
  <2>1. x = [kind |-> "leaving", asset |-> 0, loop |-> FALSE,
             stopping |-> TRUE, fades |-> TRUE]
    BY <1>1 DEF Music!Leaving
  <2> QED BY <1>1, <2>1 DEF Music!Kind
<1>2. CASE x \in LiveSlot
  BY <1>2 DEF LiveSlot, LiveKind, Of, EveryK, Music!Kind
<1> QED BY <1>1, <1>2 DEF SlotSet

(* t comes from s by h if each live player of t has one of its own in s of *)
(* the same kind and asset.                                                *)
LEMMA ThinBy ==
    ASSUME NEW s, NEW t, NEW h,
           \A k \in DOMAIN t : ~t[k].stopping =>
              /\ h[k] \in DOMAIN s /\ ~s[h[k]].stopping
              /\ s[h[k]].kind = t[k].kind /\ s[h[k]].asset = t[k].asset,
           \A j, k \in DOMAIN t :
              ~t[j].stopping /\ ~t[k].stopping /\ h[j] = h[k] => j = k
    PROVE  Thin(t, s)
<1>1. \A K : \A k \in DOMAIN t : Of(t[k], K) => h[k] \in DOMAIN s /\ Of(s[h[k]], K)
  BY DEF Of
<1>2. \A K : \A j, k \in DOMAIN t :
         Of(t[j], K) /\ Of(t[k], K) /\ h[j] = h[k] => j = k
  BY DEF Of
<1>3. ASSUME NEW K, No(s, K) PROVE No(t, K)
  BY <1>1, <1>3 DEF No
<1>4. ASSUME NEW K, One(s, K) PROVE One(t, K)
  BY <1>1, <1>2, <1>4 DEF One
<1> QED BY <1>3, <1>4 DEF Thin

-----------------------------------------------------------------------------
(* A set of numbers in their order, and the players kept.                  *)

(* The order chosen is one.                                                *)
LEMMA OrderedIs ==
    ASSUME NEW S \in SUBSET Int, IsFiniteSet(S)
    PROVE  Increasing(Music!Ordered(S), S)
<1>1. \E f \in [1..Cardinality(S) -> S] :
         \A i, j \in 1..Cardinality(S) : i < j => f[i] < f[j]
  BY Enumerable DEF Increasing
<1>2. Music!Ordered(S) = CHOOSE f \in [1..Cardinality(S) -> S] :
         \A i, j \in 1..Cardinality(S) : i < j => f[i] < f[j]
  BY SameCounts, Zenon DEF Music!Ordered
<1> QED BY <1>1, <1>2 DEF Increasing

(* In it each number has one place.                                        *)
LEMMA OrderedOnce ==
    ASSUME NEW S \in SUBSET Int, IsFiniteSet(S)
    PROVE  LET f == Music!Ordered(S) IN
           /\ Cardinality(S) \in Nat /\ f \in [1..Cardinality(S) -> S]
           /\ \A i, j \in 1..Cardinality(S) : f[i] = f[j] => i = j
           /\ \A x \in S : \E k \in 1..Cardinality(S) : f[k] = x
<1> DEFINE f == Music!Ordered(S)
<1>1. Increasing(f, S) /\ Cardinality(S) \in Nat
  BY OrderedIs, FS_CardinalityType
<1> HIDE DEF f
<1>2. \A x \in S : \E k \in 1..Cardinality(S) : f[k] = x
  BY <1>1, IncreasingIsOnto
<1>3. f \in [1..Cardinality(S) -> S] /\ \A i \in 1..Cardinality(S) : f[i] \in Int
  BY <1>1 DEF Increasing
<1>4. ASSUME NEW i \in 1..Cardinality(S), NEW j \in 1..Cardinality(S), f[i] = f[j]
      PROVE  i = j
  BY <1>1, <1>3, <1>4 DEF Increasing
<1> QED BY <1>1, <1>2, <1>3, <1>4 DEF f

Picks(t, s, kept) ==
    /\ \A k \in DOMAIN t : \E i \in kept : t[k] = s[i]
    /\ \A i \in kept : \E k \in DOMAIN t : t[k] = s[i]

(* The players kept are players of before, once each.                      *)
LEMMA OnlyIs ==
    ASSUME NEW s \in Seq(SlotSet), NEW kept \in SUBSET DOMAIN s,
           NEW t, t = Music!Only(s, kept)
    PROVE  /\ t \in Seq(SlotSet) /\ Len(t) = Cardinality(kept)
           /\ Len(t) <= Len(s) /\ Thin(t, s) /\ Picks(t, s, kept)
<1> DEFINE f == Music!Ordered(kept)
           n == Cardinality(kept)
<1>1. /\ kept \in SUBSET Int /\ IsFiniteSet(kept)
      /\ Cardinality(kept) <= Len(s)
  BY SlotFacts, FS_Subset
<1>2. /\ n \in Nat /\ f \in [1..n -> kept]
      /\ \A i, j \in 1..n : f[i] = f[j] => i = j
      /\ \A x \in kept : \E k \in 1..n : f[k] = x
  BY <1>1, OrderedOnce
<1>3. t = [k \in 1..n |-> s[f[k]]]
  BY SameCounts, Zenon DEF Music!Only
<1> HIDE DEF f, n
<1>4. \A k \in 1..n : f[k] \in kept /\ f[k] \in DOMAIN s /\ s[f[k]] \in SlotSet
  BY <1>2, SlotFacts
<1>5. t \in Seq(SlotSet) /\ Len(t) = n /\ DOMAIN t = 1..n
  BY <1>2, <1>3, <1>4
<1>6. \A k \in 1..n : t[k] = s[f[k]]
  BY <1>3
<1>7. Thin(t, s)
  BY <1>2, <1>4, <1>5, <1>6, ThinBy
<1>8. \A k \in DOMAIN t : \E i \in kept : t[k] = s[i]
  BY <1>4, <1>5, <1>6
<1>9. ASSUME NEW i \in kept PROVE \E k \in DOMAIN t : t[k] = s[i]
  <2>1. PICK k \in 1..n : f[k] = i
    BY <1>2
  <2>2. k \in DOMAIN t /\ t[k] = s[i]
    BY <2>1, <1>5, <1>6
  <2> QED BY <2>2
<1> QED BY <1>1, <1>5, <1>7, <1>8, <1>9 DEF n, Picks

(* What some players leave behind.                                         *)
LEMMA RemovedIs ==
    ASSUME NEW s \in Seq(SlotSet), NEW gone \in SUBSET DOMAIN s,
           NEW t, t = Music!RemoveAll(s, gone)
    PROVE  /\ t \in Seq(SlotSet) /\ Thin(t, s) /\ Len(t) <= Len(s)
           /\ gone # {} => Len(t) < Len(s)
           /\ \A K : Has(s, K) /\ (\A i \in gone : ~Of(s[i], K)) => Has(t, K)
           /\ Looped(s) => Looped(t)
<1> DEFINE kept == DOMAIN s \ gone
<1>1. t = Music!Only(s, kept)
  BY DEF Music!RemoveAll
<1>2. kept \in SUBSET DOMAIN s
  OBVIOUS
<1>3. gone # {} => Cardinality(kept) < Len(s)
  <2> SUFFICES ASSUME gone # {} PROVE Cardinality(kept) < Len(s)
    OBVIOUS
  <2>1. kept # DOMAIN s
    OBVIOUS
  <2>2. /\ Cardinality(kept) <= Cardinality(DOMAIN s)
        /\ Cardinality(DOMAIN s) = Cardinality(kept) => DOMAIN s = kept
    BY SlotFacts, FS_Subset
  <2>3. IsFiniteSet(kept)
    BY SlotFacts, FS_Subset
  <2> HIDE DEF kept
  <2> QED BY <2>1, <2>2, <2>3, SlotFacts, FS_CardinalityType
<1>4. \A i \in DOMAIN s : i \notin gone => i \in kept
  OBVIOUS
<1> HIDE DEF kept
<1>5. /\ t \in Seq(SlotSet) /\ Len(t) = Cardinality(kept)
      /\ Len(t) <= Len(s) /\ Thin(t, s) /\ Picks(t, s, kept)
  BY <1>1, <1>2, OnlyIs
<1>6. ASSUME NEW K, Has(s, K), \A i \in gone : ~Of(s[i], K) PROVE Has(t, K)
  BY <1>4, <1>5, <1>6, Zenon DEF Has, Picks
<1>7. Looped(s) => Looped(t)
  BY <1>2, <1>5 DEF Looped, Picks
<1> QED BY <1>3, <1>5, <1>6, <1>7

(* Those of L fade out.                                                    *)
LEMMA FadedIs ==
    ASSUME NEW s \in Seq(SlotSet), NEW L, NEW t, t = Music!FadeOut(s, L)
    PROVE  /\ t \in Seq(SlotSet) /\ Len(t) = Len(s) /\ DOMAIN t = DOMAIN s
           /\ Thin(t, s) /\ (Looped(s) => Looped(t))
           /\ \A i \in DOMAIN s :
                 t[i] = IF ~s[i].stopping /\ i \in L THEN Music!Leaving ELSE s[i]
           /\ \A K : Has(s, K) /\ (\A i \in L : ~Of(s[i], K)) => Has(t, K)
           /\ \A K : (\A i \in DOMAIN s : Of(s[i], K) => i \in L) => No(t, K)
<1>1. t = [i \in DOMAIN s |->
             IF ~s[i].stopping /\ i \in L THEN Music!Leaving ELSE s[i]]
  BY DEF Music!FadeOut
<1>2. \A i \in DOMAIN s :
         (IF ~s[i].stopping /\ i \in L THEN Music!Leaving ELSE s[i]) \in SlotSet
  BY SlotFacts, LeavingIs
<1>3. t \in Seq(SlotSet) /\ Len(t) = Len(s) /\ DOMAIN t = DOMAIN s
  BY <1>1, <1>2, SlotFacts
<1>4. \A i \in DOMAIN s :
         t[i] = IF ~s[i].stopping /\ i \in L THEN Music!Leaving ELSE s[i]
  BY <1>1
<1>5. Thin(t, s)
  <2> DEFINE h == [i \in DOMAIN s |-> i]
  <2>1. \A k \in DOMAIN t : h[k] = k
    BY <1>3
  <2> HIDE DEF h
  <2>2. \A k \in DOMAIN t : ~t[k].stopping => t[k] = s[k]
    BY <1>3, <1>4, LeavingIs
  <2>3. \A k \in DOMAIN t : ~t[k].stopping =>
           /\ h[k] \in DOMAIN s /\ ~s[h[k]].stopping
           /\ s[h[k]].kind = t[k].kind /\ s[h[k]].asset = t[k].asset
    BY <1>3, <2>1, <2>2
  <2>4. \A j, k \in DOMAIN t :
           ~t[j].stopping /\ ~t[k].stopping /\ h[j] = h[k] => j = k
    BY <2>1
  <2> QED BY <2>3, <2>4, ThinBy
<1>6. Looped(s) => Looped(t)
  BY <1>3, <1>4, LeavingIs DEF Looped
<1>7. ASSUME NEW K, Has(s, K), \A i \in L : ~Of(s[i], K) PROVE Has(t, K)
  BY <1>3, <1>4, <1>7 DEF Has
<1>8. ASSUME NEW K, \A i \in DOMAIN s : Of(s[i], K) => i \in L PROVE No(t, K)
  BY <1>3, <1>4, <1>8, LeavingIs DEF No, Of
<1> QED BY <1>3, <1>4, <1>5, <1>6, <1>7, <1>8

(* A player more.                                                          *)
LEMMA AppendedIs ==
    ASSUME NEW s \in Seq(SlotSet), NEW x \in SlotSet, NEW t, t = Append(s, x)
    PROVE  /\ t \in Seq(SlotSet) /\ Len(t) = Len(s) + 1 /\ Adds(t, s, x)
           /\ \A K : Has(s, K) \/ Of(x, K) => Has(t, K)
           /\ Looped(s) /\ (Music!Loops(x) => x.loop) => Looped(t)
<1>1. /\ t \in Seq(SlotSet) /\ Len(t) = Len(s) + 1 /\ Len(s) \in Nat
      /\ \A i \in 1..Len(s) : t[i] = s[i]
      /\ t[Len(s) + 1] = x
  BY AppendProperties
<1>2. DOMAIN s = 1..Len(s) /\ DOMAIN t = 1..(Len(s) + 1)
  BY <1>1
<1>3. \A i \in DOMAIN t : i \in DOMAIN s \/ i = Len(s) + 1
  BY <1>1, <1>2
<1>4. DOMAIN s \subseteq DOMAIN t /\ Len(s) + 1 \in DOMAIN t
  BY <1>1, <1>2
<1>5. ASSUME NEW K, No(s, K), ~Of(x, K) PROVE No(t, K)
  BY <1>1, <1>2, <1>3, <1>5 DEF No
<1>6. ASSUME NEW K, One(s, K), Of(x, K) => No(s, K) PROVE One(t, K)
  <2> SUFFICES ASSUME NEW i \in DOMAIN t, NEW j \in DOMAIN t, Of(t[i], K), Of(t[j], K)
               PROVE  i = j
    BY DEF One
  <2>1. CASE i \in DOMAIN s /\ j \in DOMAIN s
    BY <2>1, <1>1, <1>2, <1>6 DEF One
  <2>2. CASE Of(x, K)
    BY <2>2, <1>1, <1>2, <1>3, <1>6 DEF No
  <2> QED BY <2>1, <2>2, <1>1, <1>3
<1>7. ASSUME NEW K, Has(s, K) \/ Of(x, K) PROVE Has(t, K)
  BY <1>1, <1>2, <1>4, <1>7 DEF Has
<1>8. Looped(s) /\ (Music!Loops(x) => x.loop) => Looped(t)
  BY <1>1, <1>2, <1>3 DEF Looped
<1> QED BY <1>1, <1>5, <1>6, <1>7, <1>8 DEF Adds

-----------------------------------------------------------------------------
(* Room is made for a new player.                                          *)

(* A least number, as SequencesExt has it for the music.                   *)
LEMMA MusicMin ==
    ASSUME NEW S \in SUBSET Int, S # {}, IsFiniteSet(S)
    PROVE  Music!Min(S) \in S /\ \A n \in S : Music!Min(S) <= n
BY FiniteMin DEF Music!Min

(* What goes for want of room is one player that is stopping or expendable;*)
(* only when all are intros and beds is there none.                        *)
LEMMA EvictedIs ==
    ASSUME NEW s \in Seq(SlotSet), NEW gone, gone = Music!Evicted(s)
    PROVE  /\ gone \in SUBSET DOMAIN s
           /\ \A i \in gone : ~Of(s[i], Lasting)
           /\ Len(s) < MaxPlayers => gone = {}
           /\ (\E i \in DOMAIN s : ~Of(s[i], Lasting)) =>
                 Len(s) < MaxPlayers \/ gone # {}
<1> DEFINE Cand(w) == {i \in DOMAIN s : Music!Worth(s[i]) = w}
           found == {k \in DOMAIN Music!Expendable : Cand(Music!Expendable[k]) # {}}
           E == Music!Expendable
           best == Cand(E[Music!Min(found)])
<1>1. DOMAIN E = 1..4 /\ \A k \in 1..4 : E[k] \in {"stopping", "dropin", "texture", "arrival"}
  <2>1. DOMAIN E = 1..4 /\ E[1] = "stopping" /\ E[2] = "dropin"
          /\ E[3] = "texture" /\ E[4] = "arrival"
    BY DEF Music!Expendable
  <2> QED BY <2>1
<1>2. gone = IF Len(s) < MaxPlayers \/ found = {} THEN {} ELSE {Music!Min(best)}
  BY Zenon DEF Music!Evicted
<1> HIDE DEF E
<1>3. \A w : Cand(w) \in SUBSET Int /\ IsFiniteSet(Cand(w)) /\ Cand(w) \in SUBSET DOMAIN s
  BY SlotFacts, FS_Subset
<1>4. found # {} => Music!Min(found) \in found
  <2>0. found \subseteq DOMAIN E
    BY DEF E
  <2>1. found \in SUBSET (1..4) /\ IsFiniteSet(1..4)
    <3> HIDE DEF found
    <3>1. IsFiniteSet(1..4)
      BY FS_Interval, 1 \in Int, 4 \in Int
    <3>2. found \in SUBSET (1..4)
      BY <2>0, <1>1, Zenon
    <3> QED BY <3>1, <3>2
  <2>2. IsFiniteSet(found) /\ found \in SUBSET Int
    BY <2>1, FS_Subset
  <2> HIDE DEF found
  <2> QED BY <2>2, MusicMin
<1>5. found # {} => Music!Min(best) \in best
  <2>1. found # {} => best # {}
    BY <1>4 DEF E
  <2> HIDE DEF found, best, Cand
  <2> QED BY <2>1, <1>3, MusicMin DEF best
<1>6. \A i \in best : found # {} => ~Of(s[i], Lasting)
  <2> SUFFICES ASSUME NEW i \in best, found # {} PROVE ~Of(s[i], Lasting)
    OBVIOUS
  <2>1. Music!Worth(s[i]) \in {"stopping", "dropin", "texture", "arrival"}
    BY <1>1, <1>4 DEF E
  <2> QED BY <2>1 DEF Music!Worth, Of, Lasting
<1>7. ASSUME NEW i \in DOMAIN s, ~Of(s[i], Lasting) PROVE found # {}
  <2>1. s[i] \in SlotSet
    BY SlotFacts
  <2>2. Music!Worth(s[i]) \in {"stopping", "dropin", "texture", "arrival"}
    BY <2>1, <1>7, SlotIs DEF Music!Worth, Of, Lasting, EveryK, LiveKind
  <2>3. E[1] = "stopping" /\ E[2] = "dropin" /\ E[3] = "texture" /\ E[4] = "arrival"
    BY DEF Music!Expendable, E
  <2>4. PICK k \in 1..4 : E[k] = Music!Worth(s[i])
    BY <2>2, <2>3
  <2> QED BY <2>4, <1>1 DEF E
<1> HIDE DEF found, best
<1>8. gone \in SUBSET DOMAIN s /\ \A i \in gone : ~Of(s[i], Lasting)
  BY <1>2, <1>3, <1>5, <1>6 DEF best
<1>9. (\E i \in DOMAIN s : ~Of(s[i], Lasting)) => Len(s) < MaxPlayers \/ gone # {}
  BY <1>2, <1>7
<1> QED BY <1>2, <1>8, <1>9

(* There is room as long as there are at most one intro and one bed.       *)
Room(s) == Len(s) < MaxPlayers \/ \E i \in DOMAIN s : ~Of(s[i], Lasting)

(* What cannot be evicted are an intro and a bed, and more are welcome.    *)
LEMMA RoomIs ==
    ASSUME NEW s \in Seq(SlotSet), One(s, IntroK), One(s, BedK)
    PROVE  Room(s)
<1> SUFFICES ASSUME ~Room(s) PROVE FALSE
  OBVIOUS
<1>1. 1 \in DOMAIN s /\ 2 \in DOMAIN s /\ 3 \in DOMAIN s
  BY SlotFacts, SoundAssumption DEF Room
<1>2. \A i \in {1, 2, 3} : Of(s[i], IntroK) \/ Of(s[i], BedK)
  BY <1>1 DEF Room, Of, Lasting, IntroK, BedK
<1> QED BY <1>1, <1>2 DEF One

(* A player comes in, if need be for one that is expendable.               *)
LEMMA CreatedIs ==
    ASSUME NEW s, Slots(s), NEW x \in SlotSet, NEW t, t = Music!createSlot(s, x)
    PROVE  /\ Slots(t) /\ Adds(t, s, x) /\ Keeps(t, s)
           /\ Looped(s) /\ (Music!Loops(x) => x.loop) => Looped(t)
           /\ Room(s) => \A K : Of(x, K) => Has(t, K)
<1> DEFINE gone == Music!Evicted(s)
           room == Music!RemoveAll(s, gone)
<1>1. t = IF Len(room) < MaxPlayers THEN Append(room, x) ELSE s
  BY DEF Music!createSlot, Music!ensureBudget
<1>2. s \in Seq(SlotSet) /\ Len(s) <= MaxPlayers /\ Len(s) \in Nat
  BY SlotFacts DEF Slots
<1>3. /\ gone \in SUBSET DOMAIN s /\ \A i \in gone : ~Of(s[i], Lasting)
      /\ Room(s) => Len(s) < MaxPlayers \/ gone # {}
  <2> HIDE DEF gone
  <2> QED BY <1>2, EvictedIs DEF gone, Room
<1> HIDE DEF gone
<1>4. /\ room \in Seq(SlotSet) /\ Thin(room, s) /\ Len(room) <= Len(s)
      /\ gone # {} => Len(room) < Len(s)
      /\ \A K : Has(s, K) /\ (\A i \in gone : ~Of(s[i], K)) => Has(room, K)
      /\ Looped(s) => Looped(room)
  BY <1>2, <1>3, RemovedIs
<1>5. \A K \in SUBSET Lasting : Has(s, K) => Has(room, K)
  BY <1>3, <1>4 DEF Of
<1> HIDE DEF room
<1>6. CASE Len(room) < MaxPlayers
  <2>1. t = Append(room, x)
    BY <1>1, <1>6
  <2>2. /\ t \in Seq(SlotSet) /\ Len(t) = Len(room) + 1 /\ Adds(t, room, x)
        /\ \A K : Has(room, K) \/ Of(x, K) => Has(t, K)
        /\ Looped(room) /\ (Music!Loops(x) => x.loop) => Looped(t)
    BY <1>4, <2>1, AppendedIs
  <2>3. Slots(t)
    BY <1>4, <1>6, <2>2, SlotFacts, SoundAssumption DEF Slots
  <2>4. Adds(t, s, x)
    BY <1>4, <2>2 DEF Adds, Thin
  <2>5. Keeps(t, s)
    BY <1>5, <2>2 DEF Keeps
  <2> QED BY <1>4, <2>2, <2>3, <2>4, <2>5
<1>7. CASE ~(Len(room) < MaxPlayers)
  <2>1. t = s /\ ~Room(s)
    BY <1>1, <1>2, <1>3, <1>4, <1>7, SlotFacts, SoundAssumption
  <2> QED BY <2>1 DEF Adds, Keeps
<1> QED BY <1>6, <1>7

-----------------------------------------------------------------------------
(* The engine.                                                             *)

EngineType ==
    [enabled : BOOLEAN, grade : (1..5) \X (1..5), random : BOOLEAN,
     reduceMotion : BOOLEAN, phase : {"idle", "intro", "bed", "stopped"},
     paused : BOOLEAN, dropInsPaused : BOOLEAN, discovery : BOOLEAN,
     duck : {"full", "reader"}, timers : SUBSET {"dropin", "rotate", "discovery"},
     slots : Seq(SlotSet)]

(* One intro and one texture of each kind at most, each loop with its next *)
(* turn armed unless all is paused, and nothing live when nothing plays.   *)
EngineOK(e) ==
    /\ e \in EngineType /\ Len(e.slots) <= MaxPlayers
    /\ One(e.slots, IntroK) /\ \A a \in 1..4 : One(e.slots, TexK(a))
    /\ ~e.paused => Looped(e.slots)
    /\ e.phase \notin {"intro", "bed"} => No(e.slots, EveryK)

Settings(e) == <<e.enabled, e.grade, e.reduceMotion, e.duck>>
Like(f, e) ==
    /\ f \in EngineType /\ f.slots = e.slots /\ Settings(f) = Settings(e)
    /\ f.phase = e.phase /\ f.paused = e.paused
    /\ f.dropInsPaused = e.dropInsPaused

(* The kinds but one.                                                      *)
Except(kind) == (LiveKind \ {kind}) \X Asset
ThinFor(t, s, F) ==
    \A K \in SUBSET F : (No(s, K) => No(t, K)) /\ (One(s, K) => One(t, K))

(* Which sets of kinds are apart.                                          *)
LEMMA Apart ==
    /\ \A kind \in {"intro", "bed", "dropin", "arrival"} :
          /\ TextureK \in SUBSET Except(kind)
          /\ \A a \in 1..4 : TexK(a) \in SUBSET Except(kind)
          /\ \A n \in Nat : AboveK(n) \in SUBSET Except(kind)
    /\ \A kind \in {"intro", "texture", "dropin", "arrival"} : BedK \in SUBSET Except(kind)
    /\ \A kind \in {"bed", "texture", "dropin", "arrival"} : IntroK \in SUBSET Except(kind)
    /\ \A kind \in {"bed", "texture", "intro", "arrival"} : DropInK \in SUBSET Except(kind)
    /\ BedK \in SUBSET Lasting /\ IntroK \in SUBSET Lasting
    /\ Lasting \in SUBSET Except("texture") /\ Lasting \in SUBSET Except("dropin")
<1>1. /\ \A n \in Nat : AboveK(n) \subseteq TextureK
      /\ \A a \in 1..4 : TexK(a) \subseteq TextureK
  BY DEF AboveK, TexK, TextureK, Asset
<1>2. \A kind \in {"intro", "bed", "dropin", "arrival"} : TextureK \subseteq Except(kind)
  BY DEF TextureK, Except, LiveKind
<1>3. \A kind \in {"intro", "texture", "dropin", "arrival"} : BedK \in SUBSET Except(kind)
  BY DEF BedK, Except, LiveKind
<1>4. \A kind \in {"bed", "texture", "dropin", "arrival"} : IntroK \in SUBSET Except(kind)
  BY DEF IntroK, Except, LiveKind
<1>5. \A kind \in {"bed", "texture", "intro", "arrival"} : DropInK \in SUBSET Except(kind)
  BY DEF DropInK, Except, LiveKind
<1>6. /\ BedK \in SUBSET Lasting /\ IntroK \in SUBSET Lasting
      /\ Lasting \in SUBSET Except("texture") /\ Lasting \in SUBSET Except("dropin")
  BY DEF BedK, IntroK, Lasting, Except, LiveKind
<1>7. \A kind \in {"intro", "bed", "dropin", "arrival"} :
         /\ \A a \in 1..4 : TexK(a) \in SUBSET Except(kind)
         /\ \A n \in Nat : AboveK(n) \in SUBSET Except(kind)
  BY <1>1, <1>2
<1> QED BY <1>2, <1>3, <1>4, <1>5, <1>6, <1>7

(* What is thin is so for any kinds.                                       *)
LEMMA ThinIsFor ==
    ASSUME NEW s, NEW t, Thin(t, s)
    PROVE  \A F : ThinFor(t, s, F)
BY DEF Thin, ThinFor

(* A live slot of a kind.                                                  *)
LEMMA KindIs ==
    ASSUME NEW x \in SlotSet, NEW kind
    PROVE  /\ Of(x, {kind} \X Asset) <=> x.kind = kind /\ ~x.stopping
           /\ \A K \in SUBSET Except(kind) : x.kind = kind => ~Of(x, K)
           /\ kind \notin {"intro", "bed"} =>
                \A K \in SUBSET Lasting : x.kind = kind => ~Of(x, K)
<1>1. ~x.stopping => x.asset \in Asset
  BY SlotIs DEF LiveSlot
<1>2. Of(x, {kind} \X Asset) <=> x.kind = kind /\ ~x.stopping
  BY <1>1 DEF Of
<1>3. \A K \in SUBSET Except(kind) : x.kind = kind => ~Of(x, K)
  BY DEF Of, Except
<1>4. kind \notin {"intro", "bed"} =>
        \A K \in SUBSET Lasting : x.kind = kind => ~Of(x, K)
  BY DEF Of, Lasting
<1> QED BY <1>2, <1>3, <1>4

(* The fields of the engine.                                               *)
LEMMA Types ==
    ASSUME NEW e \in EngineType
    PROVE  /\ e.enabled \in BOOLEAN /\ e.grade \in (1..5) \X (1..5) /\ e.random \in BOOLEAN
           /\ e.reduceMotion \in BOOLEAN /\ e.phase \in {"idle", "intro", "bed", "stopped"}
           /\ e.paused \in BOOLEAN /\ e.dropInsPaused \in BOOLEAN /\ e.discovery \in BOOLEAN
           /\ e.duck \in {"full", "reader"}
           /\ e.timers \subseteq {"dropin", "rotate", "discovery"}
           /\ e.slots \in Seq(SlotSet)
BY DEF EngineType

(* Timers and settings do not matter to the invariant.                     *)
LEMMA LikeIsOK ==
    ASSUME NEW e, EngineOK(e), NEW f, Like(f, e)
    PROVE  EngineOK(f)
BY DEF EngineOK, Like

(* Timers of drop-ins and rotation.                                        *)
LEMMA ScheduledIs ==
    ASSUME NEW e \in EngineType
    PROVE  /\ Like(Music!scheduleDropIn(e), e)
           /\ Like(Music!scheduleTextureRotate(e), e)
<1>1. \A T \in SUBSET {"dropin", "rotate", "discovery"} : Like([e EXCEPT !.timers = T], e)
  BY DEF EngineType, Like, Settings
<1>2. e.timers \subseteq {"dropin", "rotate", "discovery"}
  BY Types
<1>3. /\ Like(Music!scheduleDropIn(e), e)
  <2> DEFINE T == (e.timers \ {"dropin"}) \cup
        (IF e.phase = "bed" /\ e.enabled /\ ~e.dropInsPaused THEN {"dropin"} ELSE {})
  <2>1. T \in SUBSET {"dropin", "rotate", "discovery"}
    BY <1>2
  <2>2. Music!scheduleDropIn(e) = [e EXCEPT !.timers = T]
    BY DEF Music!scheduleDropIn
  <2> HIDE DEF T
  <2> QED BY <1>1, <2>1, <2>2
<1>4. /\ Like(Music!scheduleTextureRotate(e), e)
  <2> DEFINE T == (e.timers \ {"rotate"}) \cup
        (IF e.phase = "bed" /\ e.enabled /\ Music!rotates(e) THEN {"rotate"} ELSE {})
  <2>1. T \in SUBSET {"dropin", "rotate", "discovery"}
    BY <1>2
  <2>2. Music!scheduleTextureRotate(e) = [e EXCEPT !.timers = T]
    BY DEF Music!scheduleTextureRotate
  <2> HIDE DEF T
  <2> QED BY <1>1, <2>1, <2>2
<1> QED BY <1>3, <1>4

(* Like is transitive.                                                     *)
LEMMA LikeIsTransitive ==
    ASSUME NEW e, NEW f, NEW g, Like(f, e), Like(g, f)
    PROVE  Like(g, e)
BY DEF Like

(* Both timers.                                                            *)
LEMMA ScheduledTwice ==
    ASSUME NEW e \in EngineType
    PROVE  Like(Music!scheduleTextureRotate(Music!scheduleDropIn(e)), e)
<1>1. Like(Music!scheduleDropIn(e), e)
  BY ScheduledIs
<1>2. Music!scheduleDropIn(e) \in EngineType
  BY <1>1 DEF Like
<1> QED BY <1>1, <1>2, ScheduledIs, LikeIsTransitive

(* With other slots, and in another phase.                                 *)
LEMMA WithSlots ==
    ASSUME NEW e \in EngineType, NEW s \in Seq(SlotSet),
           NEW f, f = [e EXCEPT !.slots = s]
    PROVE  /\ f \in EngineType /\ f.slots = s /\ Settings(f) = Settings(e)
           /\ f.phase = e.phase /\ f.paused = e.paused
           /\ f.dropInsPaused = e.dropInsPaused
BY DEF EngineType, Settings

InPhase(e, p, s) == [e EXCEPT !.phase = p, !.slots = s]

(* The order of the two does not matter.                                   *)
LEMMA PhaseFirst ==
    ASSUME NEW e \in EngineType, NEW s, NEW p
    PROVE  [e EXCEPT !.slots = s, !.phase = p] = InPhase(e, p, s)
BY DEF EngineType, InPhase

(* With other players in another phase.                                    *)
LEMMA WithPhase ==
    ASSUME NEW e \in EngineType, NEW s \in Seq(SlotSet),
           NEW p \in {"idle", "intro", "bed", "stopped"},
           NEW f, f = InPhase(e, p, s)
    PROVE  /\ f \in EngineType /\ f.slots = s /\ Settings(f) = Settings(e)
           /\ f.phase = p /\ f.paused = e.paused
           /\ f.dropInsPaused = e.dropInsPaused
BY DEF EngineType, Settings, InPhase

(* Between none and four textures.                                         *)
LEMMA TextureCount ==
    ASSUME NEW e \in EngineType
    PROVE  Music!textureCount(e) \in 0..4
<1>1. /\ IsFiniteSet({25, 50, 75, 90}) /\ Cardinality({25, 50, 75, 90}) <= 4
  <2>1. IsFiniteSet({25}) /\ Cardinality({25}) = 1
    BY FS_Singleton
  <2>2. IsFiniteSet({25} \cup {50}) /\ Cardinality({25} \cup {50}) = 2
    BY <2>1, FS_AddElement
  <2>3. IsFiniteSet(({25} \cup {50}) \cup {75}) /\ Cardinality(({25} \cup {50}) \cup {75}) = 3
    BY <2>2, FS_AddElement
  <2>4. IsFiniteSet((({25} \cup {50}) \cup {75}) \cup {90})
          /\ Cardinality((({25} \cup {50}) \cup {75}) \cup {90}) = 4
    BY <2>3, FS_AddElement
  <2>5. (({25} \cup {50}) \cup {75}) \cup {90} = {25, 50, 75, 90}
    OBVIOUS
  <2> QED BY <2>4, <2>5
<1>2. Music!Tiers(e) \in SUBSET {25, 50, 75, 90}
  BY DEF Music!Tiers
<1>3. Cardinality(Music!Tiers(e)) \in Nat /\ Cardinality(Music!Tiers(e)) <= 4
  BY <1>1, <1>2, FS_Subset, FS_CardinalityType
<1>4. Music!Cardinality(Music!Tiers(e)) \in 0..4
  BY <1>3, SameCounts
<1> QED BY <1>4 DEF Music!textureCount

(* It depends on the settings alone.                                       *)
LEMMA TextureCountSame ==
    ASSUME NEW e, NEW f, Settings(f) = Settings(e)
    PROVE  Music!textureCount(f) = Music!textureCount(e)
<1>1. f.grade = e.grade /\ f.reduceMotion = e.reduceMotion
  BY DEF Settings
<1>2. Music!Eighths(f) = Music!Eighths(e)
  BY <1>1 DEF Music!Eighths
<1>3. Music!Tiers(f) = Music!Tiers(e)
  BY <1>2 DEF Music!Tiers
<1> QED BY <1>1, <1>3 DEF Music!textureCount

(* A kind is stopped.                                                      *)
LEMMA StopKindIs ==
    ASSUME NEW e \in EngineType, NEW kind \in LiveKind,
           NEW f, f = Music!stopKind(e, kind)
    PROVE  /\ f \in EngineType /\ Settings(f) = Settings(e)
           /\ f.phase = e.phase /\ f.paused = e.paused
           /\ f.dropInsPaused = e.dropInsPaused
           /\ Len(f.slots) = Len(e.slots) /\ Thin(f.slots, e.slots)
           /\ Looped(e.slots) => Looped(f.slots)
           /\ No(f.slots, {kind} \X Asset)
           /\ \A K \in SUBSET Except(kind) : Has(e.slots, K) => Has(f.slots, K)
<1> DEFINE s == e.slots
           L == Music!Live(e, kind)
           t == Music!FadeOut(s, L)
<1>1. s \in Seq(SlotSet)
  BY Types
<1>2. f = [e EXCEPT !.slots = t]
  BY DEF Music!stopKind
<1>3. \A i \in DOMAIN s : i \in L <=> Of(s[i], {kind} \X Asset)
  BY <1>1, SlotFacts, KindIs DEF Music!Live
<1>4. \A i \in L : \A K \in SUBSET Except(kind) : ~Of(s[i], K)
  BY <1>1, SlotFacts, KindIs DEF Music!Live
<1> HIDE DEF s, L
<1>5. /\ t \in Seq(SlotSet) /\ Len(t) = Len(s)
      /\ Thin(t, s) /\ (Looped(s) => Looped(t))
      /\ \A K : Has(s, K) /\ (\A i \in L : ~Of(s[i], K)) => Has(t, K)
      /\ \A K : (\A i \in DOMAIN s : Of(s[i], K) => i \in L) => No(t, K)
  <2> HIDE DEF t
  <2> QED BY <1>1, FadedIs DEF t
<1> HIDE DEF t
<1>6. /\ f \in EngineType /\ f.slots = t /\ Settings(f) = Settings(e)
      /\ f.phase = e.phase /\ f.paused = e.paused
      /\ f.dropInsPaused = e.dropInsPaused
  BY <1>2, <1>5, WithSlots
<1>7. No(t, {kind} \X Asset)
  BY <1>3, <1>5
<1>8. \A K \in SUBSET Except(kind) : Has(s, K) => Has(t, K)
  BY <1>4, <1>5
<1> QED BY <1>5, <1>6, <1>7, <1>8 DEF s

(* The invariant of the engine outlives the stop of a kind.                *)
LEMMA StopKindIsOK ==
    ASSUME NEW e, EngineOK(e), NEW kind \in LiveKind,
           NEW f, f = Music!stopKind(e, kind)
    PROVE  EngineOK(f)
<1>1. e \in EngineType
  BY DEF EngineOK
<1>2. /\ f \in EngineType /\ Settings(f) = Settings(e)
      /\ f.phase = e.phase /\ f.paused = e.paused
      /\ Len(f.slots) = Len(e.slots) /\ Thin(f.slots, e.slots)
      /\ Looped(e.slots) => Looped(f.slots)
  BY <1>1, StopKindIs
<1> QED BY <1>2 DEF EngineOK, Thin

-----------------------------------------------------------------------------
(* Textures.                                                               *)

(* Least and greatest of two.                                              *)
LEMMA MinMaxOfTwo ==
    ASSUME NEW a \in Int, NEW b \in Int
    PROVE  /\ Music!Min({a, b}) = IF a <= b THEN a ELSE b
           /\ Music!Max({a, b}) = IF a >= b THEN a ELSE b
<1>1. \E x \in {a, b} : \A y \in {a, b} : x <= y
  OBVIOUS
<1>2. \E x \in {a, b} : \A y \in {a, b} : x >= y
  OBVIOUS
<1>3. Music!Min({a, b}) \in {a, b} /\ \A y \in {a, b} : Music!Min({a, b}) <= y
  BY <1>1 DEF Music!Min
<1>4. Music!Max({a, b}) \in {a, b} /\ \A y \in {a, b} : Music!Max({a, b}) >= y
  BY <1>2 DEF Music!Max
<1> QED BY <1>3, <1>4

TextureSlot(a) == [kind |-> "texture", asset |-> a, loop |-> TRUE,
                   stopping |-> FALSE, fades |-> FALSE]

(* A texture.                                                              *)
LEMMA TextureIs ==
    ASSUME NEW a \in 1..4, NEW x, x = TextureSlot(a)
    PROVE  /\ x \in SlotSet /\ ~x.stopping /\ x.kind = "texture" /\ x.asset = a
           /\ x.loop
           /\ \A b : Of(x, TexK(b)) <=> b = a
           /\ \A n \in Nat : Of(x, AboveK(n)) => a > n
<1>1. x = [kind |-> "texture", asset |-> a, loop |-> TRUE,
           stopping |-> FALSE, fades |-> FALSE]
  BY DEF TextureSlot
<1>2. x \in SlotSet
  <2>1. a \in Asset
    BY DEF Asset
  <2>2. Music!Loops(x) /\ x.asset \in 1..4
    BY <1>1 DEF Music!Loops
  <2>3. x \in [kind : LiveKind, asset : Asset, loop : BOOLEAN,
              stopping : BOOLEAN, fades : BOOLEAN]
    BY <1>1, <2>1 DEF LiveKind
  <2> QED BY <1>1, <2>2, <2>3 DEF SlotSet, LiveSlot
<1>3. ~x.stopping /\ x.kind = "texture" /\ x.asset = a /\ x.loop
  BY <1>1
<1>4. \A b : Of(x, TexK(b)) <=> b = a
  BY <1>3 DEF Of, TexK
<1>5. \A n \in Nat : Of(x, AboveK(n)) => a > n
  BY <1>3 DEF Of, AboveK
<1> QED BY <1>2, <1>3, <1>4, <1>5

(* Textures are added that are not there yet.                              *)
News(s, f, m) ==
    /\ \A i \in 1..m : f[i] \in 1..4 /\ No(s, TexK(f[i]))
    /\ \A i, j \in 1..m : f[i] = f[j] => i = j
TexturesOf(f, m) == [i \in 1..m |-> TextureSlot(f[i])]
UpTo(f, m, n) == \A i \in 1..m : f[i] <= n

(* What is played with the textures that come in.                          *)
LEMMA ExtendedIs ==
    ASSUME NEW s \in Seq(SlotSet), NEW m \in Nat, NEW f, News(s, f, m),
           NEW t, t = s \o TexturesOf(f, m)
    PROVE  /\ t \in Seq(SlotSet) /\ Len(t) = Len(s) + m
           /\ ThinFor(t, s, Except("texture"))
           /\ \A K : Has(s, K) => Has(t, K)
           /\ Looped(s) => Looped(t)
           /\ \A a \in 1..4 : One(s, TexK(a)) => One(t, TexK(a))
           /\ \A n \in Nat : No(s, AboveK(n)) /\ UpTo(f, m, n) => No(t, AboveK(n))
<1> DEFINE added == TexturesOf(f, m)
<1>0. /\ \A i \in 1..m : f[i] \in 1..4 /\ No(s, TexK(f[i]))
      /\ \A i, j \in 1..m : f[i] = f[j] => i = j
  BY DEF News
<1>1. \A i \in 1..m : /\ added[i] \in SlotSet /\ ~added[i].stopping
                      /\ added[i].kind = "texture" /\ added[i].asset = f[i]
                      /\ added[i].loop
                      /\ \A b : Of(added[i], TexK(b)) <=> b = f[i]
                      /\ \A n \in Nat : Of(added[i], AboveK(n)) => f[i] > n
  <2> SUFFICES ASSUME NEW i \in 1..m
               PROVE  /\ added[i] \in SlotSet /\ ~added[i].stopping
                      /\ added[i].kind = "texture" /\ added[i].asset = f[i]
                      /\ added[i].loop
                      /\ \A b : Of(added[i], TexK(b)) <=> b = f[i]
                      /\ \A n \in Nat : Of(added[i], AboveK(n)) => f[i] > n
    OBVIOUS
  <2>1. added[i] = TextureSlot(f[i]) /\ f[i] \in 1..4
    BY <1>0 DEF TexturesOf
  <2> HIDE DEF added
  <2> QED BY <2>1, TextureIs
<1>2. added \in Seq(SlotSet) /\ Len(added) = m
  <2>1. added \in [1..m -> SlotSet]
    <3>1. \A i \in 1..m : TextureSlot(f[i]) \in SlotSet
      BY <1>0, TextureIs
    <3> QED BY <3>1 DEF TexturesOf
  <2> HIDE DEF added
  <2>2. DOMAIN added = 1..m
    BY <2>1
  <2>3. added \in Seq(SlotSet)
    BY <2>1, SeqDef
  <2> QED BY <2>2, <2>3
<1>3. t = s \o added
  OBVIOUS
<1> HIDE DEF added
<1>4. Len(s) \in Nat /\ DOMAIN s = 1..Len(s)
  BY SlotFacts
<1>5. /\ t \in Seq(SlotSet) /\ Len(t) = Len(s) + m
      /\ \A i \in 1..(Len(s) + m) : t[i] = IF i <= Len(s) THEN s[i] ELSE added[i - Len(s)]
  BY <1>2, <1>3, ConcatProperties
<1>6. DOMAIN t = 1..(Len(s) + m)
  BY <1>4, <1>5
<1>7. \A i \in DOMAIN s : i \in DOMAIN t /\ t[i] = s[i]
  BY <1>4, <1>5, <1>6
<1>8. \A i \in DOMAIN t : i \notin DOMAIN s =>
         i - Len(s) \in 1..m /\ t[i] = added[i - Len(s)]
  <2> SUFFICES ASSUME NEW i \in DOMAIN t, i \notin DOMAIN s
               PROVE  i - Len(s) \in 1..m /\ t[i] = added[i - Len(s)]
    OBVIOUS
  <2>1. i \in 1..(Len(s) + m) /\ ~(i <= Len(s))
    BY <1>4, <1>6
  <2>2. i - Len(s) \in 1..m
    BY <2>1, <1>4
  <2> QED BY <2>1, <2>2, <1>5
<1>9. \A i \in DOMAIN t : i \notin DOMAIN s =>
         t[i] \in SlotSet /\ t[i].kind = "texture" /\ ~t[i].stopping /\ t[i].loop
  <2> SUFFICES ASSUME NEW i \in DOMAIN t, i \notin DOMAIN s
               PROVE  t[i] \in SlotSet /\ t[i].kind = "texture" /\ ~t[i].stopping /\ t[i].loop
    OBVIOUS
  <2> DEFINE k == i - Len(s)
  <2>1. k \in 1..m /\ t[i] = added[k]
    BY <1>8
  <2> HIDE DEF k
  <2> QED BY <2>1, <1>1
<1>10. ThinFor(t, s, Except("texture"))
  <2>1. \A i \in DOMAIN t : i \notin DOMAIN s =>
           \A K \in SUBSET Except("texture") : ~Of(t[i], K)
    BY <1>9, KindIs
  <2> QED BY <2>1, <1>7 DEF ThinFor, No, One
<1>11. \A K : Has(s, K) => Has(t, K)
  BY <1>7 DEF Has
<1>12. Looped(s) => Looped(t)
  BY <1>7, <1>9 DEF Looped
<1>13. ASSUME NEW a \in 1..4, One(s, TexK(a)) PROVE One(t, TexK(a))
  <2> SUFFICES ASSUME NEW i \in DOMAIN t, NEW j \in DOMAIN t,
                      Of(t[i], TexK(a)), Of(t[j], TexK(a))
               PROVE  i = j
    BY DEF One
  <2>1. i \notin DOMAIN s => i - Len(s) \in 1..m /\ f[i - Len(s)] = a
    BY <1>1, <1>8
  <2>2. j \notin DOMAIN s => j - Len(s) \in 1..m /\ f[j - Len(s)] = a
    BY <1>1, <1>8
  <2>3. CASE i \in DOMAIN s /\ j \in DOMAIN s
    BY <2>3, <1>7, <1>13 DEF One
  <2>4. CASE i \notin DOMAIN s /\ j \notin DOMAIN s
    <3>1. i - Len(s) = j - Len(s)
      BY <2>1, <2>2, <2>4, <1>0
    <3> QED BY <3>1, <1>4, <1>6
  <2>5. CASE i \in DOMAIN s /\ j \notin DOMAIN s
    <3>1. No(s, TexK(a))
      BY <2>2, <2>5, <1>0
    <3> QED BY <3>1, <2>5, <1>7 DEF No
  <2>6. CASE i \notin DOMAIN s /\ j \in DOMAIN s
    <3>1. No(s, TexK(a))
      BY <2>1, <2>6, <1>0
    <3> QED BY <3>1, <2>6, <1>7 DEF No
  <2> QED BY <2>3, <2>4, <2>5, <2>6
<1>14. ASSUME NEW n \in Nat, No(s, AboveK(n)), UpTo(f, m, n)
       PROVE  No(t, AboveK(n))
  <2> SUFFICES ASSUME NEW i \in DOMAIN t PROVE ~Of(t[i], AboveK(n))
    BY DEF No
  <2>1. CASE i \in DOMAIN s
    BY <2>1, <1>7, <1>14 DEF No
  <2>2. CASE i \notin DOMAIN s
    <3> DEFINE k == i - Len(s)
    <3>1. k \in 1..m /\ t[i] = added[k]
      BY <2>2, <1>8
    <3> HIDE DEF k
    <3>4. f[k] \in 1..4
      BY <3>1, <1>0
    <3>2. f[k] \in Int /\ f[k] <= n
      BY <3>1, <3>4, <1>14 DEF UpTo
    <3>3. Of(added[k], AboveK(n)) => f[k] > n
      BY <3>1, <1>1
    <3> QED BY <3>1, <3>2, <3>3
  <2> QED BY <2>1, <2>2
<1> QED BY <1>5, <1>10, <1>11, <1>12, <1>13, <1>14

(* Textures above the count leave, what is missing comes in, and all else  *)
(* stays.                                                                  *)
LEMMA SyncTexturesIs ==
    ASSUME NEW e, EngineOK(e), NEW f, f = Music!syncTextures(e)
    PROVE  /\ EngineOK(f) /\ Settings(f) = Settings(e)
           /\ f.phase = e.phase /\ f.paused = e.paused
           /\ f.dropInsPaused = e.dropInsPaused
           /\ ThinFor(f.slots, e.slots, Except("texture"))
           /\ Keeps(f.slots, e.slots)
           /\ e.phase = "bed" /\ e.enabled /\ ~e.paused
                => No(f.slots, AboveK(Music!textureCount(f)))
<1> DEFINE s == e.slots
           n == Music!textureCount(e)
           Tex == Music!Live(e, "texture")
           L == {i \in Tex : s[i].asset > n}
           kept == Music!FadeOut(s, L)
           present == {s[i].asset : i \in Tex}
           missing == (1..n) \ present
           room == MaxPlayers - Len(kept) - 1
           m == Music!Min({Cardinality(missing), Music!Max({0, room})})
           g == Music!Ordered(missing)
           t == kept \o TexturesOf(g, m)
<1>0. e \in EngineType /\ s \in Seq(SlotSet) /\ Len(s) <= MaxPlayers /\ Len(s) \in Nat
  BY Types, SlotFacts DEF EngineOK
<1>1. CASE e.phase # "bed" \/ ~e.enabled \/ e.paused
  <2>1. f = e
    BY <1>1 DEF Music!syncTextures
  <2> QED BY <1>1, <2>1 DEF ThinFor, Keeps
<1>2. CASE ~(e.phase # "bed" \/ ~e.enabled \/ e.paused)
  <2>1. f = [e EXCEPT !.slots = t]
    BY <1>2, SameCounts DEF Music!syncTextures, Music!Slot, TextureSlot, TexturesOf
  <2>2. n \in 0..4
    BY <1>0, TextureCount
  <2> HIDE DEF n
  <2>3. \A i \in Tex : i \in DOMAIN s /\ s[i].kind = "texture" /\ ~s[i].stopping
                          /\ s[i] \in SlotSet /\ s[i].asset \in 1..4
    <3>1. \A i \in Tex : i \in DOMAIN s /\ s[i].kind = "texture" /\ ~s[i].stopping
                            /\ s[i] \in SlotSet
      BY <1>0, SlotFacts DEF Music!Live
    <3> HIDE DEF s, Tex
    <3>2. \A i \in Tex : s[i].asset \in 1..4
      BY <3>1, SlotIs DEF LiveSlot
    <3> QED BY <3>1, <3>2
  <2>4. \A i \in DOMAIN s : s[i].kind = "texture" /\ ~s[i].stopping => i \in Tex
    BY DEF Music!Live
  <2> HIDE DEF Tex, s
  <2>5. /\ kept \in Seq(SlotSet) /\ Len(kept) = Len(s) /\ Thin(kept, s)
        /\ Looped(s) => Looped(kept)
        /\ \A i \in DOMAIN s :
              kept[i] = IF ~s[i].stopping /\ i \in L THEN Music!Leaving ELSE s[i]
        /\ DOMAIN kept = DOMAIN s
        /\ \A K : Has(s, K) /\ (\A i \in L : ~Of(s[i], K)) => Has(kept, K)
        /\ \A K : (\A i \in DOMAIN s : Of(s[i], K) => i \in L) => No(kept, K)
    <3> HIDE DEF L, kept
    <3> QED BY <1>0, FadedIs DEF kept
  <2>6. Keeps(kept, s)
    <3>1. \A i \in L : \A K \in SUBSET Lasting : ~Of(s[i], K)
      BY <2>3, KindIs
    <3> HIDE DEF L, kept
    <3> QED BY <2>5, <3>1 DEF Keeps
  <2>7. No(kept, AboveK(n))
    <3>1. ASSUME NEW i \in DOMAIN s, Of(s[i], AboveK(n)) PROVE i \in L
      <4>1. s[i].kind = "texture" /\ ~s[i].stopping /\ s[i].asset \in (n + 1)..4
        BY <3>1 DEF Of, AboveK
      <4> QED BY <4>1, <2>2, <2>4
    <3> HIDE DEF L, kept
    <3> QED BY <2>5, <3>1
  <2>8. /\ missing \in SUBSET Int /\ IsFiniteSet(missing)
        /\ Cardinality(missing) \in Nat
    <3>1. IsFiniteSet(1..n)
      BY <2>2, FS_Interval
    <3>2. missing \in SUBSET (1..n) /\ IsFiniteSet(missing)
      BY <3>1, FS_Subset
    <3> QED BY <2>2, <3>2, FS_CardinalityType
  <2>9. /\ g \in [1..Cardinality(missing) -> missing]
        /\ \A i, j \in 1..Cardinality(missing) : g[i] = g[j] => i = j
    <3> HIDE DEF missing
    <3> QED BY <2>8, OrderedOnce
  <2>10. m \in Nat /\ m <= Cardinality(missing) /\ (m > 0 => m <= room)
    <3>1. room \in Int
      <4>1. Len(kept) \in Nat /\ MaxPlayers \in Nat
        BY <1>0, <2>5, SoundAssumption
      <4> HIDE DEF kept
      <4> QED BY <4>1
    <3> HIDE DEF room, missing
    <3>2. Music!Max({0, room}) = IF 0 >= room THEN 0 ELSE room
      BY <3>1, MinMaxOfTwo
    <3>3. Music!Max({0, room}) \in Int
      BY <3>1, <3>2
    <3>4. m = IF Cardinality(missing) <= Music!Max({0, room})
              THEN Cardinality(missing) ELSE Music!Max({0, room})
      BY <3>3, <2>8, MinMaxOfTwo
    <3> QED BY <3>1, <3>2, <3>4, <2>8
  <2>11. \A i \in 1..m : g[i] \in 1..n /\ g[i] \notin present
    <3>1. \A i \in 1..m : g[i] \in missing
      <4> HIDE DEF g, m, missing
      <4> QED BY <2>8, <2>9, <2>10
    <3> HIDE DEF g, m, present
    <3> QED BY <3>1
  <2>12. \A i, j \in 1..m : g[i] = g[j] => i = j
    BY <2>8, <2>9, <2>10
  <2> HIDE DEF g, m, missing
  <2>13. \A i \in 1..m : g[i] \in 1..4 /\ No(kept, TexK(g[i]))
    <3> SUFFICES ASSUME NEW i \in 1..m PROVE g[i] \in 1..4 /\ No(kept, TexK(g[i]))
      OBVIOUS
    <3>1. g[i] \in 1..4 /\ g[i] \notin present
      BY <2>2, <2>11
    <3>2. No(s, TexK(g[i]))
      <4> SUFFICES ASSUME NEW k \in DOMAIN s, Of(s[k], TexK(g[i])) PROVE FALSE
        BY DEF No
      <4>1. s[k].kind = "texture" /\ ~s[k].stopping /\ s[k].asset = g[i]
        BY DEF Of, TexK
      <4>2. k \in Tex
        BY <4>1, <2>4
      <4> QED BY <3>1, <4>1, <4>2
    <3> QED BY <3>1, <3>2, <2>5 DEF Thin
  <2> HIDE DEF kept, present, L
  <2>14. /\ t \in Seq(SlotSet) /\ Len(t) = Len(kept) + m
         /\ ThinFor(t, kept, Except("texture"))
         /\ \A K : Has(kept, K) => Has(t, K)
         /\ Looped(kept) => Looped(t)
         /\ \A a \in 1..4 : One(kept, TexK(a)) => One(t, TexK(a))
         /\ \A k \in Nat : No(kept, AboveK(k)) /\ UpTo(g, m, k) => No(t, AboveK(k))
    <3>1. t = kept \o TexturesOf(g, m)
      OBVIOUS
    <3>2. News(kept, g, m)
      BY <2>12, <2>13 DEF News
    <3> HIDE DEF t
    <3> QED BY <3>1, <3>2, <2>5, <2>10, ExtendedIs
  <2> HIDE DEF t
  <2>15. /\ f \in EngineType /\ f.slots = t /\ Settings(f) = Settings(e)
         /\ f.phase = e.phase /\ f.paused = e.paused
         /\ f.dropInsPaused = e.dropInsPaused
    BY <1>0, <2>1, <2>14, WithSlots
  <2>16. Len(t) <= MaxPlayers
    BY <1>0, <2>5, <2>10, <2>14, SoundAssumption DEF room
  <2>17. ThinFor(t, s, Except("texture"))
    BY <2>5, <2>14 DEF Thin, ThinFor
  <2>18. Keeps(t, s)
    BY <2>6, <2>14 DEF Keeps
  <2>19. One(t, IntroK) /\ \A a \in 1..4 : One(t, TexK(a))
    <3>1. One(s, IntroK) /\ \A a \in 1..4 : One(s, TexK(a))
      BY DEF EngineOK, s
    <3>2. One(t, IntroK)
      BY <3>1, <2>17, Apart DEF ThinFor
    <3> QED BY <3>1, <3>2, <2>5, <2>14 DEF Thin
  <2>20. EngineOK(f)
    <3>1. ~e.paused => Looped(s)
      BY DEF EngineOK, s
    <3>2. f.phase = "bed"
      BY <1>2, <2>15
    <3> QED BY <3>1, <3>2, <2>5, <2>14, <2>15, <2>16, <2>19 DEF EngineOK
  <2>21. No(t, AboveK(n))
    <3>1. UpTo(g, m, n)
      BY <2>2, <2>11 DEF UpTo
    <3>2. n \in Nat
      BY <2>2
    <3> QED BY <3>1, <3>2, <2>7, <2>14
  <2>22. Music!textureCount(f) = n
    BY <2>15, TextureCountSame DEF n
  <2> QED BY <2>15, <2>17, <2>18, <2>20, <2>21, <2>22 DEF s
<1> QED BY <1>1, <1>2

-----------------------------------------------------------------------------
(* Beds, intro and arrival.                                                *)

BedSlot(a) == [kind |-> "bed", asset |-> a, loop |-> TRUE,
               stopping |-> FALSE, fades |-> FALSE]
IntroSlot == [kind |-> "intro", asset |-> 0, loop |-> TRUE,
              stopping |-> FALSE, fades |-> FALSE]
ArrivalSlot == [kind |-> "arrival", asset |-> 0, loop |-> FALSE,
                stopping |-> FALSE, fades |-> FALSE]
DropInSlot == [kind |-> "dropin", asset |-> 0, loop |-> FALSE,
               stopping |-> FALSE, fades |-> FALSE]

(* x is a new player of a kind.                                            *)
New(x, kind) ==
    /\ x \in SlotSet /\ ~x.stopping /\ x.kind = kind
    /\ Music!Loops(x) => x.loop
    /\ Of(x, {kind} \X Asset)
    /\ \A K \in SUBSET Except(kind) : ~Of(x, K)

(* What a new player is.                                                   *)
LEMMA NewIs ==
    ASSUME NEW kind \in {"intro", "bed", "arrival", "dropin"}, NEW x,
           NEW a \in Asset, NEW l \in BOOLEAN,
           x = [kind |-> kind, asset |-> a, loop |-> l,
                stopping |-> FALSE, fades |-> FALSE],
           l <=> kind \in {"intro", "bed"}
    PROVE  New(x, kind)
<1>1. x.kind = kind /\ ~x.stopping /\ ~x.fades /\ (x.loop <=> l)
  OBVIOUS
<1>2. x \in [kind : LiveKind, asset : Asset, loop : BOOLEAN,
             stopping : BOOLEAN, fades : BOOLEAN]
  BY DEF LiveKind
<1>3. Music!Loops(x) <=> x.loop
  BY <1>1 DEF Music!Loops
<1>4. x \in SlotSet
  BY <1>1, <1>2, <1>3 DEF SlotSet, LiveSlot
<1>5. Of(x, {kind} \X Asset) /\ \A K \in SUBSET Except(kind) : ~Of(x, K)
  BY <1>1, <1>4, KindIs
<1> QED BY <1>1, <1>3, <1>4, <1>5 DEF New

(* The players that operations create.                                     *)
LEMMA NewOnes ==
    /\ \A a \in {"calm", "bright"} : New(BedSlot(a), "bed")
    /\ New(IntroSlot, "intro") /\ New(ArrivalSlot, "arrival")
    /\ New(DropInSlot, "dropin")
<1>1. ASSUME NEW a \in {"calm", "bright"} PROVE New(BedSlot(a), "bed")
  <2>1. a \in Asset
    BY DEF Asset
  <2> QED BY <2>1, NewIs DEF BedSlot
<1>2. 0 \in Asset
  BY DEF Asset
<1>3. New(IntroSlot, "intro")
  BY <1>2, NewIs DEF IntroSlot
<1>4. New(ArrivalSlot, "arrival")
  BY <1>2, NewIs DEF ArrivalSlot
<1>5. New(DropInSlot, "dropin")
  BY <1>2, NewIs DEF DropInSlot
<1> QED BY <1>1, <1>3, <1>4, <1>5

(* What an operation leaves alone.                                         *)
Kept(f, e) == /\ Settings(f) = Settings(e) /\ f.paused = e.paused
              /\ f.dropInsPaused = e.dropInsPaused

(* A new player comes in.                                                  *)
LEMMA ComesIn ==
    ASSUME NEW s, Slots(s), NEW kind, NEW x, New(x, kind),
           NEW t, t = Music!createSlot(s, x)
    PROVE  /\ Slots(t) /\ ThinFor(t, s, Except(kind)) /\ Keeps(t, s)
           /\ No(s, {kind} \X Asset) => One(t, {kind} \X Asset)
           /\ Looped(s) => Looped(t)
           /\ One(s, IntroK) /\ One(s, BedK) => Has(t, {kind} \X Asset)
<1>1. x \in SlotSet
  BY DEF New
<1>2. /\ Slots(t) /\ Adds(t, s, x) /\ Keeps(t, s)
      /\ Looped(s) /\ (Music!Loops(x) => x.loop) => Looped(t)
      /\ Room(s) => \A K : Of(x, K) => Has(t, K)
  BY <1>1, CreatedIs
<1>3. ThinFor(t, s, Except(kind))
  BY <1>2 DEF Adds, ThinFor, New
<1>4. No(s, {kind} \X Asset) => One(t, {kind} \X Asset)
  <2>1. No(s, {kind} \X Asset) => One(s, {kind} \X Asset)
    BY DEF No, One
  <2> QED BY <2>1, <1>2 DEF Adds
<1>5. One(s, IntroK) /\ One(s, BedK) => Has(t, {kind} \X Asset)
  <2>1. s \in Seq(SlotSet)
    BY DEF Slots
  <2> QED BY <2>1, <1>2, RoomIs DEF New
<1> QED BY <1>2, <1>3, <1>4, <1>5 DEF New

(* What goes on when one kind is stopped and a new player of it comes in.  *)
LEMMA Replaced ==
    ASSUME NEW e, EngineOK(e), NEW kind \in {"intro", "bed"}, NEW x, New(x, kind),
           NEW s, s = Music!stopKind(e, kind).slots,
           NEW t, t = Music!createSlot(s, x), NEW f, f = InPhase(e, kind, t)
    PROVE  /\ EngineOK(f) /\ Kept(f, e) /\ f.phase = kind /\ f.slots = t
           /\ ThinFor(t, e.slots, Except(kind)) /\ One(t, {kind} \X Asset)
           /\ One(e.slots, BedK) \/ kind = "bed" => Has(t, {kind} \X Asset)
<1>0. e \in EngineType /\ Len(e.slots) <= MaxPlayers /\ kind \in LiveKind
  BY DEF EngineOK, LiveKind
<1>1. /\ s \in Seq(SlotSet) /\ Len(s) = Len(e.slots) /\ Thin(s, e.slots)
      /\ Looped(e.slots) => Looped(s)
      /\ No(s, {kind} \X Asset)
  <2> DEFINE g == Music!stopKind(e, kind)
  <2>1. g = Music!stopKind(e, kind) /\ s = g.slots
    OBVIOUS
  <2> HIDE DEF g
  <2>2. /\ g \in EngineType /\ Len(g.slots) = Len(e.slots) /\ Thin(g.slots, e.slots)
        /\ Looped(e.slots) => Looped(g.slots)
        /\ No(g.slots, {kind} \X Asset)
    BY <1>0, <2>1, StopKindIs
  <2> QED BY <2>1, <2>2, Types
<1>2. Slots(s)
  BY <1>0, <1>1 DEF Slots
<1>3. /\ Slots(t) /\ ThinFor(t, s, Except(kind))
      /\ No(s, {kind} \X Asset) => One(t, {kind} \X Asset)
      /\ Looped(s) => Looped(t)
      /\ One(s, IntroK) /\ One(s, BedK) => Has(t, {kind} \X Asset)
  BY <1>2, ComesIn
<1>4. ThinFor(t, e.slots, Except(kind))
  BY <1>1, <1>3 DEF Thin, ThinFor
<1>5. /\ f \in EngineType /\ f.slots = t /\ Settings(f) = Settings(e)
      /\ f.phase = kind /\ f.paused = e.paused
      /\ f.dropInsPaused = e.dropInsPaused
  <2>1. t \in Seq(SlotSet)
    BY <1>3 DEF Slots
  <2> QED BY <1>0, <2>1, WithPhase
<1>6. One(e.slots, IntroK) /\ \A a \in 1..4 : One(e.slots, TexK(a))
  BY DEF EngineOK
<1>7. One(t, {kind} \X Asset)
  BY <1>1, <1>3
<1>8. One(t, IntroK)
  <2>1. CASE kind = "intro"
    BY <2>1, <1>7 DEF IntroK
  <2>2. CASE kind = "bed"
    BY <2>2, <1>4, <1>6, Apart DEF ThinFor
  <2> QED BY <2>1, <2>2
<1>9. \A a \in 1..4 : One(t, TexK(a))
  BY <1>4, <1>6, Apart DEF ThinFor
<1>10. EngineOK(f)
  <2>1. ~e.paused => Looped(e.slots)
    BY DEF EngineOK
  <2> QED BY <2>1, <1>1, <1>3, <1>5, <1>8, <1>9 DEF EngineOK, Slots
<1>11. One(e.slots, BedK) \/ kind = "bed" => Has(t, {kind} \X Asset)
  <2>1. One(s, IntroK)
    BY <1>1, <1>6 DEF Thin
  <2>2. kind = "bed" => One(s, BedK)
    BY <1>1 DEF No, One, BedK
  <2>3. One(e.slots, BedK) => One(s, BedK)
    BY <1>1 DEF Thin
  <2> QED BY <2>1, <2>2, <2>3, <1>3
<1> QED BY <1>4, <1>5, <1>7, <1>10, <1>11 DEF Kept

(* The bed that progress calls for replaces another.                       *)
LEMMA SyncBedIs ==
    ASSUME NEW e, EngineOK(e), NEW can \in BOOLEAN, NEW f, f = Music!syncBed(e, can)
    PROVE  /\ EngineOK(f) /\ Kept(f, e)
           /\ ThinFor(f.slots, e.slots, Except("bed"))
           /\ One(e.slots, BedK) => One(f.slots, BedK)
           /\ Has(e.slots, BedK) => Has(f.slots, BedK)
           /\ can /\ e.phase # "intro" => Has(f.slots, BedK)
           /\ f.phase = e.phase \/ (can /\ f.phase = "bed")
           /\ ~can => f = e
<1> DEFINE bed == Music!Live(e, "bed")
           bare == Music!stopKind(e, "bed").slots
           a == Music!bedAsset(e)
           t == Music!createSlot(bare, BedSlot(a))
<1>1. \/ f = e /\ (~can \/ e.phase = "intro" \/ bed # {})
      \/ can /\ e.phase # "intro"
           /\ f = IF t = bare THEN [e EXCEPT !.slots = bare]
                  ELSE [e EXCEPT !.slots = t, !.phase = "bed"]
  BY DEF Music!syncBed, Music!Slot, BedSlot
<1>2. CASE f = e /\ (~can \/ e.phase = "intro" \/ bed # {})
  <2>1. bed # {} => Has(e.slots, BedK)
    <3>1. e.slots \in Seq(SlotSet)
      BY Types DEF EngineOK
    <3>2. \A i \in bed : i \in DOMAIN e.slots /\ Of(e.slots[i], BedK)
      BY <3>1, SlotFacts, KindIs DEF Music!Live, BedK
    <3> QED BY <3>2 DEF Has
  <2> QED BY <1>2, <2>1 DEF Kept, ThinFor
<1>3. CASE can /\ e.phase # "intro"
             /\ f = IF t = bare THEN [e EXCEPT !.slots = bare]
                    ELSE [e EXCEPT !.slots = t, !.phase = "bed"]
  <2> DEFINE g == InPhase(e, "bed", t)
  <2>1. New(BedSlot(a), "bed")
    BY NewOnes DEF Music!bedAsset
  <2> HIDE DEF a
  <2>2. /\ EngineOK(g) /\ Kept(g, e) /\ g.phase = "bed" /\ g.slots = t
        /\ ThinFor(t, e.slots, Except("bed")) /\ One(t, BedK) /\ Has(t, BedK)
    <3>1. /\ g = InPhase(e, "bed", t) /\ t = Music!createSlot(bare, BedSlot(a))
          /\ bare = Music!stopKind(e, "bed").slots /\ "bed" \in {"intro", "bed"}
      OBVIOUS
    <3> HIDE DEF g, t, bare
    <3>2. /\ EngineOK(g) /\ Kept(g, e) /\ g.phase = "bed" /\ g.slots = t
          /\ ThinFor(t, e.slots, Except("bed")) /\ One(t, {"bed"} \X Asset)
          /\ Has(t, {"bed"} \X Asset)
      BY <2>1, <3>1, Replaced
    <3> QED BY <3>2 DEF BedK
  <2>3. t # bare
    <3>1. e \in EngineType /\ "bed" \in LiveKind
      BY DEF EngineOK, LiveKind
    <3>2. No(bare, BedK)
      BY <3>1, StopKindIs DEF BedK, bare
    <3> HIDE DEF t, bare
    <3> QED BY <2>2, <3>2 DEF No, Has
  <2>4. f = g
    <3>1. e \in EngineType
      BY DEF EngineOK
    <3> HIDE DEF t, bare
    <3> QED BY <1>3, <2>3, <3>1, PhaseFirst
  <2> HIDE DEF g, t
  <2> QED BY <1>3, <2>2, <2>4
<1> QED BY <1>1, <1>2, <1>3

(* The intro starts.                                                       *)
LEMMA StartIntroIs ==
    ASSUME NEW e, EngineOK(e), NEW can \in BOOLEAN, NEW f, f = Music!startIntro(e, can)
    PROVE  /\ EngineOK(f) /\ Kept(f, e)
           /\ ThinFor(f.slots, e.slots, Except("intro"))
           /\ f.phase = e.phase \/ (can /\ f.phase = "intro")
<1> DEFINE bare == Music!stopKind(e, "intro").slots
           t == Music!createSlot(bare, IntroSlot)
           g == InPhase(e, "intro", t)
<1>1. f = IF ~can THEN e ELSE g
  BY DEF Music!startIntro, Music!Slot, IntroSlot, InPhase
<1>2. CASE ~can
  BY <1>1, <1>2 DEF Kept, ThinFor
<1>3. CASE can
  <2>1. /\ EngineOK(g) /\ Kept(g, e) /\ g.phase = "intro" /\ g.slots = t
        /\ ThinFor(t, e.slots, Except("intro"))
    <3>1. g = InPhase(e, "intro", t) /\ t = Music!createSlot(bare, IntroSlot)
      OBVIOUS
    <3> HIDE DEF g, t, bare
    <3> QED BY <3>1, NewOnes, Replaced DEF bare
  <2> HIDE DEF g, t
  <2> QED BY <1>1, <1>3, <2>1
<1> QED BY <1>2, <1>3

(* The arrival and the bed, after which the intro leaves.                  *)
LEMMA ArrivalAndBed ==
    ASSUME NEW e, EngineOK(e), One(e.slots, BedK),
           NEW f, f = Music!startArrivalAndBed(e, TRUE)
    PROVE  /\ EngineOK(f) /\ Kept(f, e) /\ f.phase = "bed"
           /\ Has(f.slots, BedK)
           /\ No(e.slots, BedK) => One(f.slots, BedK)
           /\ No(e.slots, DropInK) => No(f.slots, DropInK)
           /\ e.enabled /\ ~e.paused => No(f.slots, AboveK(Music!textureCount(f)))
<1> DEFINE s == e.slots
           r == Music!createSlot(s, ArrivalSlot)
           a == Music!bedAsset(e)
           t == Music!createSlot(r, BedSlot(a))
           g == InPhase(e, "bed", t)
           h == Music!stopKind(g, "intro")
           k == Music!syncTextures(h)
<1>1. f = Music!scheduleTextureRotate(Music!scheduleDropIn(k))
  <2>1. f = Music!scheduleTextureRotate(Music!scheduleDropIn(Music!syncTextures(
              Music!stopKind([e EXCEPT !.slots = t, !.phase = "bed"], "intro"))))
    BY DEF Music!startArrivalAndBed, Music!Slot, BedSlot, ArrivalSlot
  <2>2. e \in EngineType
    BY DEF EngineOK
  <2> HIDE DEF t
  <2> QED BY <2>1, <2>2, PhaseFirst
<1>2. /\ e \in EngineType /\ s \in Seq(SlotSet) /\ Slots(s) /\ (~e.paused => Looped(s))
      /\ One(s, IntroK) /\ One(s, BedK) /\ \A b \in 1..4 : One(s, TexK(b))
  BY Types DEF EngineOK, Slots
<1> HIDE DEF s
<1>3. /\ Slots(r) /\ ThinFor(r, s, Except("arrival")) /\ (Looped(s) => Looped(r))
  BY <1>2, NewOnes, ComesIn
<1>4. /\ One(r, IntroK) /\ One(r, BedK) /\ \A b \in 1..4 : One(r, TexK(b))
      /\ No(s, BedK) => No(r, BedK)
      /\ No(s, DropInK) => No(r, DropInK)
  BY <1>2, <1>3, Apart DEF ThinFor
<1>5. New(BedSlot(a), "bed")
  BY NewOnes DEF Music!bedAsset
<1> HIDE DEF r, a
<1>6. /\ Slots(t) /\ ThinFor(t, r, Except("bed")) /\ (Looped(r) => Looped(t))
      /\ No(r, BedK) => One(t, BedK)
      /\ Has(t, BedK)
  BY <1>3, <1>4, <1>5, ComesIn DEF BedK
<1>7. /\ One(t, IntroK) /\ \A b \in 1..4 : One(t, TexK(b))
      /\ No(s, DropInK) => No(t, DropInK)
  BY <1>4, <1>6, Apart DEF ThinFor
<1> HIDE DEF t
<1>8. /\ g \in EngineType /\ g.slots = t /\ Settings(g) = Settings(e)
      /\ g.phase = "bed" /\ g.paused = e.paused
      /\ g.dropInsPaused = e.dropInsPaused
  <2>1. t \in Seq(SlotSet)
    BY <1>6 DEF Slots
  <2> HIDE DEF g
  <2> QED BY <1>2, <2>1, WithPhase DEF g
<1>9. EngineOK(g)
  BY <1>2, <1>3, <1>6, <1>7, <1>8 DEF EngineOK, Slots
<1> HIDE DEF g
<1>10. EngineOK(h) /\ "intro" \in LiveKind
  BY <1>9, StopKindIsOK DEF LiveKind
<1>11. /\ Settings(h) = Settings(g) /\ h.phase = g.phase /\ h.paused = g.paused
       /\ h.dropInsPaused = g.dropInsPaused /\ Thin(h.slots, g.slots)
       /\ \A K \in SUBSET Except("intro") : Has(g.slots, K) => Has(h.slots, K)
  BY <1>8, <1>10, StopKindIs
<1>12. Has(h.slots, BedK)
  BY <1>6, <1>8, <1>11, Apart
<1> HIDE DEF h
<1>13. /\ EngineOK(k) /\ Settings(k) = Settings(h)
       /\ k.phase = h.phase /\ k.paused = h.paused
       /\ k.dropInsPaused = h.dropInsPaused
       /\ ThinFor(k.slots, h.slots, Except("texture"))
       /\ Keeps(k.slots, h.slots)
       /\ h.phase = "bed" /\ h.enabled /\ ~h.paused
                => No(k.slots, AboveK(Music!textureCount(k)))
  BY <1>10, SyncTexturesIs
<1> HIDE DEF k
<1>14. /\ Has(k.slots, BedK)
       /\ No(s, BedK) => One(k.slots, BedK)
       /\ No(s, DropInK) => No(k.slots, DropInK)
  BY <1>4, <1>6, <1>7, <1>8, <1>11, <1>12, <1>13, Apart DEF Thin, ThinFor, Keeps
<1>15. Like(f, k)
  BY <1>1, <1>13, ScheduledTwice DEF EngineOK
<1>16. /\ f.slots = k.slots /\ Settings(f) = Settings(k)
       /\ f.phase = k.phase /\ f.paused = k.paused
       /\ f.dropInsPaused = k.dropInsPaused
  BY <1>15 DEF Like
<1>17. EngineOK(f) /\ Music!textureCount(f) = Music!textureCount(k)
  BY <1>13, <1>15, <1>16, LikeIsOK, TextureCountSame
<1>18. h.enabled = e.enabled /\ h.paused = e.paused
  BY <1>8, <1>11 DEF Settings
<1> QED BY <1>8, <1>11, <1>13, <1>14, <1>16, <1>17, <1>18 DEF Kept, s

-----------------------------------------------------------------------------
(* The hooks of the lifecycle.                                             *)

Same(f, e) == Kept(f, e) /\ f.phase = e.phase

(* The invariant of the engine when players leave.                         *)
LEMMA ThinIsOK ==
    ASSUME NEW e, EngineOK(e), NEW f \in EngineType, f.phase = e.phase,
           Len(f.slots) <= Len(e.slots), Thin(f.slots, e.slots),
           ~f.paused => Looped(f.slots)
    PROVE  EngineOK(f)
<1>1. /\ e.slots \in Seq(SlotSet) /\ f.slots \in Seq(SlotSet)
      /\ Len(e.slots) <= MaxPlayers
  BY Types DEF EngineOK
<1>2. Len(f.slots) <= MaxPlayers
  BY <1>1, SlotFacts, SoundAssumption
<1> QED BY <1>2 DEF EngineOK, Thin

(* The timers, and the settings that no invariant is about.                *)
LEMMA Untimed ==
    ASSUME NEW e \in EngineType, NEW T \in SUBSET {"dropin", "rotate", "discovery"},
           NEW d \in BOOLEAN
    PROVE  /\ Like([e EXCEPT !.timers = T], e)
           /\ Like([e EXCEPT !.random = d], e)
           /\ Like([e EXCEPT !.discovery = d], e)
           /\ Like([e EXCEPT !.discovery = d, !.timers = T], e)
BY DEF EngineType, Like, Settings

(* Drop-ins leave and wait.                                                *)
LEMMA PauseDropInsIs ==
    ASSUME NEW e, EngineOK(e), NEW f, f = Music!pauseDropIns(e)
    PROVE  /\ EngineOK(f) /\ Settings(f) = Settings(e)
           /\ f.phase = e.phase /\ f.paused = e.paused /\ f.dropInsPaused
           /\ Thin(f.slots, e.slots) /\ Keeps(f.slots, e.slots)
           /\ No(f.slots, DropInK)
<1> DEFINE g == Music!stopKind(e, "dropin")
<1>1. e \in EngineType /\ "dropin" \in LiveKind
  BY DEF EngineOK, LiveKind
<1>2. f = [g EXCEPT !.dropInsPaused = TRUE, !.timers = @ \ {"dropin"}]
  BY DEF Music!pauseDropIns
<1>3. /\ g \in EngineType /\ Settings(g) = Settings(e)
      /\ g.phase = e.phase /\ g.paused = e.paused
      /\ Thin(g.slots, e.slots) /\ No(g.slots, {"dropin"} \X Asset)
      /\ \A K \in SUBSET Except("dropin") : Has(e.slots, K) => Has(g.slots, K)
  BY <1>1, StopKindIs
<1>4. EngineOK(g)
  BY <1>1, StopKindIsOK
<1> HIDE DEF g
<1>5. Keeps(g.slots, e.slots)
  BY <1>3, Apart DEF Keeps
<1>6. /\ f \in EngineType /\ f.slots = g.slots /\ Settings(f) = Settings(g)
      /\ f.phase = g.phase /\ f.paused = g.paused /\ f.dropInsPaused
  BY <1>2, <1>3 DEF EngineType, Settings
<1>7. EngineOK(f)
  BY <1>4, <1>6 DEF EngineOK
<1> QED BY <1>3, <1>5, <1>6, <1>7 DEF DropInK

(* Drop-ins may come again.                                                *)
LEMMA ResumeDropInsIs ==
    ASSUME NEW e, EngineOK(e), NEW f, f = Music!resumeDropIns(e)
    PROVE  /\ EngineOK(f) /\ Settings(f) = Settings(e)
           /\ f.phase = e.phase /\ f.paused = e.paused /\ f.slots = e.slots
<1> DEFINE g == [e EXCEPT !.dropInsPaused = FALSE]
<1>1. f = Music!scheduleDropIn(g)
  BY DEF Music!resumeDropIns
<1>2. /\ g \in EngineType /\ g.slots = e.slots /\ Settings(g) = Settings(e)
      /\ g.phase = e.phase /\ g.paused = e.paused
  BY DEF EngineOK, EngineType, Settings
<1> HIDE DEF g
<1>3. EngineOK(g)
  BY <1>2 DEF EngineOK
<1>4. Like(f, g)
  BY <1>1, <1>2, ScheduledIs
<1>5. EngineOK(f)
  BY <1>3, <1>4, LikeIsOK
<1> QED BY <1>2, <1>4, <1>5 DEF Like

(* A discovery: the textures leave.                                        *)
LEMMA DiscoveryIs ==
    ASSUME NEW e, EngineOK(e), NEW f, f = Music!onDiscoveryLanded(e)
    PROVE  /\ EngineOK(f) /\ Same(f, e)
           /\ Thin(f.slots, e.slots) /\ Keeps(f.slots, e.slots)
<1> DEFINE g == Music!stopKind(e, "texture")
<1>1. e \in EngineType /\ "texture" \in LiveKind
  BY DEF EngineOK, LiveKind
<1>2. f = [g EXCEPT !.discovery = TRUE, !.timers = @ \cup {"discovery"}]
  BY DEF Music!onDiscoveryLanded
<1>3. /\ g \in EngineType /\ Settings(g) = Settings(e)
      /\ g.phase = e.phase /\ g.paused = e.paused
      /\ g.dropInsPaused = e.dropInsPaused
      /\ Thin(g.slots, e.slots)
      /\ \A K \in SUBSET Except("texture") : Has(e.slots, K) => Has(g.slots, K)
  BY <1>1, StopKindIs
<1>4. EngineOK(g)
  BY <1>1, StopKindIsOK
<1> HIDE DEF g
<1>5. Keeps(g.slots, e.slots)
  BY <1>3, Apart DEF Keeps
<1>6. /\ f \in EngineType /\ f.slots = g.slots /\ Settings(f) = Settings(g)
      /\ f.phase = g.phase /\ f.paused = g.paused
      /\ f.dropInsPaused = g.dropInsPaused
  BY <1>2, <1>3 DEF EngineType, Settings
<1>7. EngineOK(f)
  BY <1>4, <1>6 DEF EngineOK
<1> QED BY <1>3, <1>5, <1>6, <1>7 DEF Same, Kept

(* All stop.                                                               *)
LEMMA StopIs ==
    ASSUME NEW e, EngineOK(e), NEW f, f = Music!stop(e)
    PROVE  /\ EngineOK(f) /\ Kept(f, e) /\ f.phase = "stopped"
           /\ \A K : No(f.slots, K)
<1> DEFINE t == [i \in DOMAIN e.slots |-> Music!Leaving]
<1>1. e \in EngineType /\ e.slots \in Seq(SlotSet) /\ Len(e.slots) <= MaxPlayers
  BY Types DEF EngineOK
<1>2. t \in Seq(SlotSet) /\ Len(t) = Len(e.slots) /\ DOMAIN t = DOMAIN e.slots
      /\ \A i \in DOMAIN t : t[i] = Music!Leaving
  <2>1. Music!Leaving \in SlotSet
    BY LeavingIs
  <2>2. DOMAIN e.slots = 1..Len(e.slots) /\ Len(e.slots) \in Nat
    BY <1>1, SlotFacts
  <2>3. t \in [1..Len(e.slots) -> SlotSet]
    BY <2>1, <2>2
  <2> QED BY <2>2, <2>3, SeqDef, LenProperties
<1>3. f = [e EXCEPT !.phase = "stopped", !.timers = {}, !.slots = t]
  BY DEF Music!stop
<1> HIDE DEF t
<1>4. /\ f \in EngineType /\ f.slots = t /\ Settings(f) = Settings(e)
      /\ f.phase = "stopped" /\ f.paused = e.paused
      /\ f.dropInsPaused = e.dropInsPaused
  BY <1>1, <1>2, <1>3 DEF EngineType, Settings
<1>5. \A i \in DOMAIN t : t[i].stopping
  BY <1>2, LeavingIs
<1>6. /\ \A K : No(t, K)
      /\ \A K : One(t, K)
      /\ Looped(t)
  BY <1>5 DEF No, One, Looped, Of
<1> QED BY <1>1, <1>2, <1>4, <1>6 DEF EngineOK, Kept

(* Players changed in their places.                                        *)
LEMMA SequenceIs ==
    ASSUME NEW s \in Seq(SlotSet), NEW t, DOMAIN t = DOMAIN s,
           t = [i \in DOMAIN s |-> t[i]], \A i \in DOMAIN s : t[i] \in SlotSet
    PROVE  t \in Seq(SlotSet) /\ Len(t) = Len(s)
<1>1. DOMAIN s = 1..Len(s) /\ Len(s) \in Nat
  BY SlotFacts
<1>2. t \in [1..Len(s) -> SlotSet]
  BY <1>1
<1> QED BY <1>1, <1>2, SeqDef, LenProperties

(* The same players, whatever timers they have.                            *)
Alike(t, s) ==
    /\ DOMAIN t = DOMAIN s
    /\ \A i \in DOMAIN s : /\ t[i].kind = s[i].kind /\ t[i].asset = s[i].asset
                           /\ t[i].stopping = s[i].stopping

(* Players that are alike count alike.                                     *)
LEMMA AlikeIsThin ==
    ASSUME NEW s, NEW t, Alike(t, s)
    PROVE  Thin(t, s) /\ \A K : Has(s, K) => Has(t, K)
<1>1. \A K : \A i \in DOMAIN s : Of(t[i], K) <=> Of(s[i], K)
  BY DEF Alike, Of
<1> QED BY <1>1 DEF Alike, Thin, No, One, Has

(* An interruption: what stops goes at once, loops wait.                   *)
LEMMA PauseIs ==
    ASSUME NEW e, EngineOK(e), NEW f, f = Music!pause(e)
    PROVE  /\ EngineOK(f) /\ Settings(f) = Settings(e)
           /\ f.phase = e.phase /\ f.paused /\ f.dropInsPaused = e.dropInsPaused
           /\ Thin(f.slots, e.slots)
<1> DEFINE s == e.slots
           stays == {i \in DOMAIN s : ~s[i].stopping /\ Music!Loops(s[i])}
           still == [i \in DOMAIN s |-> [s[i] EXCEPT !.loop = FALSE]]
           t == Music!Only(still, stays)
<1>1. e \in EngineType /\ s \in Seq(SlotSet) /\ Len(s) <= MaxPlayers
  BY Types DEF EngineOK
<1>2. CASE e.paused
  BY <1>2 DEF Music!pause, Thin
<1>3. CASE ~e.paused
  <2>1. f = [e EXCEPT !.paused = TRUE, !.timers = {}, !.slots = t]
    BY <1>3 DEF Music!pause
  <2> HIDE DEF s
  <2>2. still \in Seq(SlotSet) /\ Len(still) = Len(s) /\ Alike(still, s)
    <3>1. \A i \in DOMAIN s : still[i] \in SlotSet
      <4> SUFFICES ASSUME NEW i \in DOMAIN s PROVE [s[i] EXCEPT !.loop = FALSE] \in SlotSet
        OBVIOUS
      <4>1. s[i] \in SlotSet
        BY <1>1, SlotFacts
      <4>2. CASE s[i] = Music!Leaving
        <5>1. [Music!Leaving EXCEPT !.loop = FALSE] = Music!Leaving
          <6> DEFINE R == [kind : {"leaving"}, asset : {0}, loop : {FALSE},
                           stopping : {TRUE}, fades : {TRUE}]
          <6>1. Music!Leaving \in R
            BY DEF Music!Leaving
          <6>2. [Music!Leaving EXCEPT !.loop = FALSE] \in R
            BY <6>1
          <6> QED BY <6>1, <6>2
        <5> QED BY <4>2, <5>1, LeavingIs
      <4>3. CASE s[i] \in LiveSlot
        <5> DEFINE x == [s[i] EXCEPT !.loop = FALSE]
        <5>1. /\ x \in [kind : LiveKind, asset : Asset, loop : BOOLEAN,
                        stopping : BOOLEAN, fades : BOOLEAN]
              /\ x.kind = s[i].kind /\ x.asset = s[i].asset /\ ~x.loop
              /\ x.stopping = s[i].stopping /\ x.fades = s[i].fades
          BY <4>3 DEF LiveSlot
        <5> HIDE DEF x
        <5>2. x \in LiveSlot
          BY <4>3, <5>1 DEF LiveSlot
        <5> QED BY <5>2 DEF SlotSet, x
      <4> QED BY <4>1, <4>2, <4>3 DEF SlotSet
    <3>2. \A i \in DOMAIN s : /\ still[i].kind = s[i].kind /\ still[i].asset = s[i].asset
                              /\ still[i].stopping = s[i].stopping
      <4> SUFFICES ASSUME NEW i \in DOMAIN s
                   PROVE  LET x == [s[i] EXCEPT !.loop = FALSE] IN
                          x.kind = s[i].kind /\ x.asset = s[i].asset /\ x.stopping = s[i].stopping
        OBVIOUS
      <4>1. s[i] \in SlotSet
        BY <1>1, SlotFacts
      <4>2. CASE s[i] = Music!Leaving
        BY <4>2 DEF Music!Leaving
      <4>3. CASE s[i] \in LiveSlot
        BY <4>3 DEF LiveSlot
      <4> QED BY <4>1, <4>2, <4>3 DEF SlotSet
    <3>3. DOMAIN still = DOMAIN s /\ still = [i \in DOMAIN s |-> still[i]]
      OBVIOUS
    <3> HIDE DEF still
    <3>4. Alike(still, s)
      BY <3>2, <3>3 DEF Alike
    <3> QED BY <1>1, <3>1, <3>3, <3>4, SequenceIs
  <2>3. stays \in SUBSET DOMAIN still /\ t = Music!Only(still, stays)
    OBVIOUS
  <2> HIDE DEF stays, still, t
  <2>4. t \in Seq(SlotSet) /\ Len(t) <= Len(still) /\ Thin(t, still)
    BY <2>2, <2>3, OnlyIs
  <2>5. Thin(t, s)
    BY <2>2, <2>4, AlikeIsThin DEF Thin
  <2>6. /\ f \in EngineType /\ f.slots = t /\ Settings(f) = Settings(e)
        /\ f.phase = e.phase /\ f.paused /\ f.dropInsPaused = e.dropInsPaused
    BY <1>1, <2>1, <2>4 DEF EngineType, Settings
  <2>7. EngineOK(f)
    BY <2>2, <2>4, <2>5, <2>6, ThinIsOK DEF s
  <2> QED BY <2>5, <2>6, <2>7 DEF s
<1> QED BY <1>2, <1>3

(* Of the players kept alone matters what they are.                        *)
LEMMA OnlySame ==
    ASSUME NEW s \in Seq(SlotSet), NEW kept \in SUBSET DOMAIN s, NEW t, NEW u,
           \A i \in kept : t[i] = u[i]
    PROVE  Music!Only(t, kept) = Music!Only(u, kept)
<1>1. kept \in SUBSET Int /\ IsFiniteSet(kept)
  BY SlotFacts, FS_Subset
<1> DEFINE f == Music!Ordered(kept)
           n == Cardinality(kept)
<1>2. f \in [1..n -> kept]
  BY <1>1, OrderedOnce
<1>3. /\ Music!Only(t, kept) = [k \in 1..n |-> t[f[k]]]
      /\ Music!Only(u, kept) = [k \in 1..n |-> u[f[k]]]
  BY SameCounts DEF Music!Only
<1> HIDE DEF f, n
<1>4. \A k \in 1..n : t[f[k]] = u[f[k]]
  BY <1>2
<1> QED BY <1>3, <1>4

(* The loops go on, one live copy of each.                                 *)
LEMMA ResumeIs ==
    ASSUME NEW e, EngineOK(e), NEW can \in BOOLEAN, NEW f, f = Music!resume(e, can)
    PROVE  /\ EngineOK(f) /\ Settings(f) = Settings(e)
           /\ f.phase = e.phase /\ f.dropInsPaused = e.dropInsPaused
           /\ e.paused \/ ~f.paused
           /\ Thin(f.slots, e.slots) /\ (Has(e.slots, BedK) => Has(f.slots, BedK))
<1> DEFINE s == e.slots
           kept == {i \in DOMAIN s : /\ ~s[i].stopping /\ Music!Loops(s[i])
                                     /\ \A j \in 1..(i - 1) :
                                          ~s[j].stopping =>
                                            \/ s[j].kind # s[i].kind
                                            \/ s[j].asset # s[i].asset}
           armed == [i \in DOMAIN s |-> [s[i] EXCEPT !.loop = TRUE]]
           u == [i \in DOMAIN s |->
                   IF i \in kept THEN [s[i] EXCEPT !.loop = TRUE] ELSE s[i]]
           t == Music!Only(armed, kept)
           back == [e EXCEPT !.paused = FALSE, !.slots = t]
<1>1. e \in EngineType /\ s \in Seq(SlotSet) /\ Len(s) <= MaxPlayers
  BY Types DEF EngineOK
<1>2. CASE ~can
  BY <1>2, <1>1, Types DEF Music!resume, Thin
<1>3. CASE can
  <2>1. \/ f = back
        \/ f = Music!scheduleTextureRotate(Music!scheduleDropIn(back))
    BY <1>3 DEF Music!resume
  <2>2. kept \in SUBSET DOMAIN s /\ \A i \in kept : armed[i] = u[i]
    OBVIOUS
  <2>3. \A i \in kept : ~s[i].stopping /\ Music!Loops(s[i])
    OBVIOUS
  <2>4. ASSUME NEW i \in DOMAIN s, ~s[i].stopping, s[i].kind = "bed"
        PROVE  \E j \in kept : ~s[j].stopping /\ s[j].kind = "bed" /\ s[j].asset = s[i].asset
    <3> DEFINE B == {j \in DOMAIN s : ~s[j].stopping /\ s[j].kind = "bed"
                                        /\ s[j].asset = s[i].asset}
    <3>1. B \in SUBSET Int /\ IsFiniteSet(B) /\ B # {}
      <4>1. B \subseteq DOMAIN s /\ i \in B
        BY <2>4
      <4> HIDE DEF B
      <4> QED BY <4>1, <1>1, SlotFacts, FS_Subset
    <3>2. PICK m \in B : \A n \in B : m <= n
      <4> HIDE DEF B
      <4> QED BY <3>1, FiniteMin
    <3>3. m \in DOMAIN s /\ ~s[m].stopping /\ s[m].kind = "bed" /\ s[m].asset = s[i].asset
      OBVIOUS
    <3>4. Music!Loops(s[m])
      BY <3>3 DEF Music!Loops
    <3>5. \A j \in 1..(m - 1) :
             ~s[j].stopping => s[j].kind # s[m].kind \/ s[j].asset # s[m].asset
      <4> SUFFICES ASSUME NEW j \in 1..(m - 1), ~s[j].stopping,
                          s[j].kind = s[m].kind, s[j].asset = s[m].asset
                   PROVE  FALSE
        OBVIOUS
      <4>1. DOMAIN s = 1..Len(s) /\ Len(s) \in Nat
        BY <1>1, SlotFacts
      <4>2. j \in DOMAIN s
        BY <3>3, <4>1
      <4>3. j \in B
        BY <3>3, <4>2
      <4>4. m <= j /\ m \in Int
        BY <3>2, <4>3, <3>3, <4>1
      <4> QED BY <4>4
    <3> QED BY <3>3, <3>4, <3>5
  <2> HIDE DEF s, kept
  <2>5. \A i \in DOMAIN s :
           /\ u[i] \in SlotSet /\ u[i].kind = s[i].kind /\ u[i].asset = s[i].asset
           /\ u[i].stopping = s[i].stopping /\ (i \in kept => u[i].loop)
    <3> SUFFICES ASSUME NEW i \in DOMAIN s
                 PROVE  LET x == IF i \in kept THEN [s[i] EXCEPT !.loop = TRUE] ELSE s[i] IN
                        /\ x \in SlotSet /\ x.kind = s[i].kind /\ x.asset = s[i].asset
                        /\ x.stopping = s[i].stopping /\ (i \in kept => x.loop)
      OBVIOUS
    <3>1. s[i] \in SlotSet
      BY <1>1, SlotFacts
    <3>2. CASE i \notin kept
      BY <3>1, <3>2
    <3>3. CASE i \in kept
      <4>1. s[i] \in LiveSlot /\ Music!Loops(s[i])
        BY <3>1, <3>3, <2>3, LeavingIs DEF SlotSet
      <4> QED BY <3>3, <4>1 DEF LiveSlot, SlotSet, Music!Loops
    <3> QED BY <3>2, <3>3
  <2>6. DOMAIN u = DOMAIN s /\ u = [i \in DOMAIN s |-> u[i]]
    OBVIOUS
  <2> HIDE DEF u, armed
  <2>7. t = Music!Only(u, kept)
    BY <1>1, <2>2, OnlySame
  <2>8. u \in Seq(SlotSet) /\ Len(u) = Len(s) /\ Alike(u, s)
    <3>1. Alike(u, s)
      BY <2>5, <2>6 DEF Alike
    <3> QED BY <1>1, <2>5, <2>6, <3>1, SequenceIs
  <2> HIDE DEF t
  <2>9. /\ t \in Seq(SlotSet) /\ Len(t) <= Len(u) /\ Thin(t, u) /\ Picks(t, u, kept)
    BY <2>2, <2>6, <2>7, <2>8, OnlyIs
  <2>10. Thin(t, s)
    BY <2>8, <2>9, AlikeIsThin DEF Thin
  <2>11. Looped(t)
    BY <2>2, <2>5, <2>9 DEF Picks, Looped
  <2>12. Has(s, BedK) => Has(t, BedK)
    <3> SUFFICES ASSUME NEW i \in DOMAIN s, Of(s[i], BedK) PROVE Has(t, BedK)
      BY DEF Has
    <3>1. ~s[i].stopping /\ s[i].kind = "bed"
      BY <1>1, SlotFacts, KindIs DEF BedK
    <3>2. PICK j \in kept : ~s[j].stopping /\ s[j].kind = "bed"
      BY <2>4, <3>1
    <3>3. PICK k \in DOMAIN t : t[k] = u[j]
      BY <2>9 DEF Picks
    <3>4. t[k] \in SlotSet /\ ~t[k].stopping /\ t[k].kind = "bed"
      BY <2>2, <2>5, <3>2, <3>3
    <3> QED BY <3>4, KindIs DEF Has, BedK
  <2>13. /\ back \in EngineType /\ back.slots = t /\ Settings(back) = Settings(e)
         /\ back.phase = e.phase /\ ~back.paused /\ back.dropInsPaused = e.dropInsPaused
    BY <1>1, <2>9 DEF EngineType, Settings
  <2> HIDE DEF back
  <2>14. EngineOK(back)
    BY <2>8, <2>9, <2>10, <2>11, <2>13, ThinIsOK DEF s
  <2>15. f = back \/ Like(f, back)
    BY <2>1, <2>13, ScheduledTwice
  <2>16. EngineOK(f)
    BY <2>14, <2>15, LikeIsOK
  <2> QED BY <2>10, <2>12, <2>13, <2>15, <2>16 DEF Like, s
<1> QED BY <1>2, <1>3

(* The bed starts afresh when nothing plays.                               *)
LEMMA RestartBedIs ==
    ASSUME NEW e, EngineOK(e), No(e.slots, EveryK),
           NEW f, f = Music!restartBed(e, TRUE)
    PROVE  /\ EngineOK(f) /\ Settings(f) = Settings(e)
           /\ f.phase = "bed" /\ ~f.paused /\ f.dropInsPaused = e.dropInsPaused
           /\ One(f.slots, BedK) /\ Has(f.slots, BedK)
           /\ No(f.slots, DropInK)
           /\ e.enabled => No(f.slots, AboveK(Music!textureCount(f)))
<1> DEFINE L == DOMAIN e.slots \ Music!Live(e, "bed")
           t == Music!FadeOut(e.slots, L)
           g == [e EXCEPT !.paused = FALSE, !.phase = "bed", !.slots = t]
           h == Music!syncBed(g, TRUE)
           k == Music!syncTextures(h)
<1>1. f = Music!scheduleTextureRotate(Music!scheduleDropIn(k))
  BY DEF Music!restartBed
<1>2. e \in EngineType /\ e.slots \in Seq(SlotSet) /\ Len(e.slots) <= MaxPlayers
  BY Types DEF EngineOK
<1>3. t \in Seq(SlotSet) /\ Len(t) = Len(e.slots) /\ Thin(t, e.slots)
  BY <1>2, FadedIs
<1> HIDE DEF t
<1>4. No(t, EveryK)
  BY <1>3 DEF Thin
<1>5. /\ \A K : No(t, K) /\ One(t, K)
      /\ Looped(t)
  <2>1. \A i \in DOMAIN t : t[i].stopping
    BY <1>3, <1>4, SlotFacts, SlotIs DEF No
  <2> QED BY <2>1 DEF No, One, Looped, Of
<1>6. /\ g \in EngineType /\ g.slots = t /\ Settings(g) = Settings(e)
      /\ g.phase = "bed" /\ ~g.paused /\ g.dropInsPaused = e.dropInsPaused
  BY <1>2, <1>3 DEF EngineType, Settings
<1> HIDE DEF g
<1>7. EngineOK(g)
  BY <1>2, <1>3, <1>5, <1>6 DEF EngineOK
<1>8. /\ EngineOK(h) /\ Kept(h, g)
      /\ ThinFor(h.slots, g.slots, Except("bed"))
      /\ One(h.slots, BedK) /\ Has(h.slots, BedK) /\ h.phase = "bed"
  BY <1>5, <1>6, <1>7, SyncBedIs
<1> HIDE DEF h
<1>9. /\ EngineOK(k) /\ Settings(k) = Settings(h)
      /\ k.phase = h.phase /\ k.paused = h.paused
      /\ k.dropInsPaused = h.dropInsPaused
      /\ ThinFor(k.slots, h.slots, Except("texture"))
      /\ Keeps(k.slots, h.slots)
      /\ h.phase = "bed" /\ h.enabled /\ ~h.paused
           => No(k.slots, AboveK(Music!textureCount(k)))
  BY <1>8, SyncTexturesIs
<1> HIDE DEF k
<1>10. /\ One(k.slots, BedK) /\ Has(k.slots, BedK) /\ No(k.slots, DropInK)
  BY <1>5, <1>6, <1>8, <1>9, Apart DEF ThinFor, Keeps
<1>11. Like(f, k)
  BY <1>1, <1>9, ScheduledTwice DEF EngineOK
<1>12. /\ f.slots = k.slots /\ Settings(f) = Settings(k)
       /\ f.phase = k.phase /\ f.paused = k.paused
       /\ f.dropInsPaused = k.dropInsPaused
  BY <1>11 DEF Like
<1>13. EngineOK(f) /\ Music!textureCount(f) = Music!textureCount(k)
  BY <1>9, <1>11, <1>12, LikeIsOK, TextureCountSame
<1>14. h.enabled = e.enabled /\ ~h.paused
  BY <1>6, <1>8 DEF Settings, Kept
<1> QED BY <1>6, <1>8, <1>9, <1>10, <1>12, <1>13, <1>14 DEF Kept

-----------------------------------------------------------------------------
(* Timers.                                                                 *)

WithPlayers(e, s) == [e EXCEPT !.slots = s]

(* With other players.                                                     *)
LEMMA WithPlayersIs ==
    ASSUME NEW e \in EngineType, NEW s \in Seq(SlotSet),
           NEW f, f = WithPlayers(e, s)
    PROVE  f \in EngineType /\ f.slots = s /\ Same(f, e)
<1>1. f = [e EXCEPT !.slots = s]
  BY DEF WithPlayers
<1> QED BY <1>1, WithSlots DEF Same, Kept

(* Players leave or stay.                                                  *)
LEMMA ThinnerIsOK ==
    ASSUME NEW e, EngineOK(e), NEW s \in Seq(SlotSet), Len(s) <= Len(e.slots),
           Thin(s, e.slots), Looped(e.slots) => Looped(s),
           NEW f, f = WithPlayers(e, s)
    PROVE  EngineOK(f) /\ Same(f, e) /\ f.slots = s
<1>1. e \in EngineType /\ (~e.paused => Looped(e.slots))
  BY DEF EngineOK
<1>2. f \in EngineType /\ f.slots = s /\ Same(f, e)
  BY <1>1, WithPlayersIs
<1>3. f.phase = e.phase /\ f.paused = e.paused
  BY <1>2 DEF Same, Kept
<1> QED BY <1>1, <1>2, <1>3, ThinIsOK

(* A faded player goes.                                                    *)
LEMMA FadeEndsIs ==
    ASSUME NEW e, EngineOK(e), NEW i \in DOMAIN e.slots, e.slots[i].fades,
           NEW f, f = WithPlayers(e, Music!RemoveAll(e.slots, {i}))
    PROVE  EngineOK(f) /\ Same(f, e) /\ Thin(f.slots, e.slots)
           /\ Keeps(f.slots, e.slots)
<1> DEFINE t == Music!RemoveAll(e.slots, {i})
<1>1. e \in EngineType /\ e.slots \in Seq(SlotSet)
  BY Types DEF EngineOK
<1>2. /\ t \in Seq(SlotSet) /\ Thin(t, e.slots) /\ Len(t) <= Len(e.slots)
      /\ \A K : Has(e.slots, K) /\ (\A j \in {i} : ~Of(e.slots[j], K)) => Has(t, K)
      /\ Looped(e.slots) => Looped(t)
  BY <1>1, RemovedIs
<1>3. \A K : ~Of(e.slots[i], K)
  BY <1>1, SlotFacts, SlotIs DEF Of
<1> HIDE DEF t
<1>4. Keeps(t, e.slots)
  BY <1>2, <1>3 DEF Keeps
<1>5. f = WithPlayers(e, t)
  BY DEF t
<1>6. EngineOK(f) /\ Same(f, e) /\ f.slots = t
  BY <1>2, <1>5, ThinnerIsOK
<1> QED BY <1>2, <1>4, <1>6

(* A player starts to leave.                                               *)
LEMMA LeavesIs ==
    ASSUME NEW s \in Seq(SlotSet), NEW i \in DOMAIN s,
           NEW t, t = [s EXCEPT ![i] = Music!Leaving]
    PROVE  /\ t \in Seq(SlotSet) /\ Len(t) = Len(s) /\ DOMAIN t = DOMAIN s
           /\ Thin(t, s) /\ (Looped(s) => Looped(t))
           /\ \A j \in DOMAIN s \ {i} : t[j] = s[j]
           /\ \A K : Has(s, K) /\ ~Of(s[i], K) => Has(t, K)
           /\ \A K : One(s, K) /\ Of(s[i], K) => No(t, K)
<1>0. Music!Leaving \in SlotSet /\ Music!Leaving.stopping
  BY LeavingIs
<1>1. /\ DOMAIN t = DOMAIN s /\ t[i] = Music!Leaving
      /\ \A j \in DOMAIN s \ {i} : t[j] = s[j]
      /\ t = [j \in DOMAIN s |-> t[j]]
  OBVIOUS
<1>2. \A j \in DOMAIN s : t[j] \in SlotSet
  BY <1>0, <1>1, SlotFacts
<1>3. t \in Seq(SlotSet) /\ Len(t) = Len(s)
  BY <1>1, <1>2, SequenceIs
<1>4. \A K : ~Of(t[i], K)
  BY <1>0, <1>1 DEF Of
<1>5. Thin(t, s)
  BY <1>1, <1>4 DEF Thin, No, One
<1>6. Looped(s) => Looped(t)
  BY <1>0, <1>1 DEF Looped
<1>7. \A K : Has(s, K) /\ ~Of(s[i], K) => Has(t, K)
  BY <1>1 DEF Has
<1>8. \A K : One(s, K) /\ Of(s[i], K) => No(t, K)
  BY <1>1, <1>4 DEF One, No
<1> QED BY <1>1, <1>3, <1>5, <1>6, <1>7, <1>8

(* An arrival or a drop-in ends.                                           *)
LEMMA OneShotEndsIs ==
    ASSUME NEW e, EngineOK(e), NEW i \in DOMAIN e.slots,
           ~Music!Loops(e.slots[i]), ~e.slots[i].stopping,
           NEW f, f = WithPlayers(e, [e.slots EXCEPT ![i] = Music!Leaving])
    PROVE  EngineOK(f) /\ Same(f, e) /\ Thin(f.slots, e.slots)
           /\ Keeps(f.slots, e.slots)
<1> DEFINE t == [e.slots EXCEPT ![i] = Music!Leaving]
<1>1. e \in EngineType /\ e.slots \in Seq(SlotSet)
  BY Types DEF EngineOK
<1>2. t = [e.slots EXCEPT ![i] = Music!Leaving] /\ f = WithPlayers(e, t)
  OBVIOUS
<1> HIDE DEF t
<1>3. /\ t \in Seq(SlotSet) /\ Len(t) = Len(e.slots) /\ Thin(t, e.slots)
      /\ Looped(e.slots) => Looped(t)
      /\ \A K : Has(e.slots, K) /\ ~Of(e.slots[i], K) => Has(t, K)
  BY <1>1, <1>2, LeavesIs
<1>4. \A K \in SUBSET Lasting : ~Of(e.slots[i], K)
  BY <1>1 DEF Of, Lasting, Music!Loops
<1>5. Keeps(t, e.slots)
  BY <1>3, <1>4 DEF Keeps
<1>6. Len(t) <= Len(e.slots)
  BY <1>1, <1>3, SlotFacts
<1>7. EngineOK(f) /\ Same(f, e) /\ f.slots = t
  BY <1>2, <1>3, <1>6, ThinnerIsOK
<1> QED BY <1>3, <1>5, <1>7

(* The next copy of a loop starts and the old one fades out.               *)
Unarmed(s, i) == [s EXCEPT ![i].loop = FALSE]
Turned(s, i) ==
    Append(Music!RemoveAll([s EXCEPT ![i] = Music!Leaving],
                           Music!Evicted(Unarmed(s, i))), s[i])

(* A loop whose next turn is not armed.                                    *)
LEMMA UnarmedIs ==
    ASSUME NEW s \in Seq(SlotSet), NEW i \in DOMAIN s, s[i].loop,
           NEW t, t = Unarmed(s, i)
    PROVE  /\ t \in Seq(SlotSet) /\ Len(t) = Len(s) /\ Alike(t, s)
<1>1. /\ DOMAIN t = DOMAIN s /\ t = [j \in DOMAIN s |-> t[j]]
      /\ t[i] = [s[i] EXCEPT !.loop = FALSE]
      /\ \A j \in DOMAIN s \ {i} : t[j] = s[j]
  BY DEF Unarmed
<1>2. s[i] \in LiveSlot
  BY SlotFacts, LeavingIs DEF SlotSet
<1>3. /\ t[i] \in SlotSet /\ t[i].kind = s[i].kind /\ t[i].asset = s[i].asset
      /\ t[i].stopping = s[i].stopping
  <2> DEFINE x == [s[i] EXCEPT !.loop = FALSE]
  <2>1. /\ x \in [kind : LiveKind, asset : Asset, loop : BOOLEAN,
                  stopping : BOOLEAN, fades : BOOLEAN]
        /\ x.kind = s[i].kind /\ x.asset = s[i].asset /\ ~x.loop
        /\ x.stopping = s[i].stopping /\ x.fades = s[i].fades
    BY <1>2 DEF LiveSlot
  <2> HIDE DEF x
  <2>2. x \in LiveSlot
    BY <1>2, <2>1 DEF LiveSlot
  <2> QED BY <1>1, <2>1, <2>2 DEF SlotSet, x
<1>4. \A j \in DOMAIN s : t[j] \in SlotSet
  BY <1>1, <1>3, SlotFacts
<1>5. Alike(t, s)
  BY <1>1, <1>3 DEF Alike
<1> QED BY <1>1, <1>4, <1>5, SequenceIs

(* A loop has turned: its copy stands for it.                              *)
LEMMA TurnedIs ==
    ASSUME NEW s, Slots(s), NEW i \in DOMAIN s, s[i].loop,
           Len(s) < MaxPlayers \/ Music!Evicted(Unarmed(s, i)) # {},
           NEW t, t = Turned(s, i)
    PROVE  /\ Slots(t) /\ Thin(t, s) /\ Keeps(t, s)
           /\ Looped(s) => Looped(t)
<1> DEFINE due == Unarmed(s, i)
           gone == Music!Evicted(due)
           u == [s EXCEPT ![i] = Music!Leaving]
           v == Music!RemoveAll(u, gone)
<1>0. /\ u = [s EXCEPT ![i] = Music!Leaving] /\ v = Music!RemoveAll(u, gone)
      /\ t = Append(v, s[i]) /\ due = Unarmed(s, i) /\ gone = Music!Evicted(due)
      /\ Len(s) < MaxPlayers \/ gone # {}
  BY DEF Turned
<1> HIDE DEF due, gone, u, v
<1>1. s \in Seq(SlotSet) /\ Len(s) <= MaxPlayers
  BY DEF Slots
<1>2. due \in Seq(SlotSet) /\ Len(due) = Len(s) /\ Alike(due, s)
  BY <1>0, <1>1, UnarmedIs
<1>3. gone \in SUBSET DOMAIN s /\ \A j \in gone : ~Of(due[j], Lasting)
  BY <1>0, <1>2, EvictedIs DEF Alike
<1>4. /\ u \in Seq(SlotSet) /\ Len(u) = Len(s) /\ DOMAIN u = DOMAIN s
      /\ Thin(u, s) /\ (Looped(s) => Looped(u))
      /\ \A j \in DOMAIN s \ {i} : u[j] = s[j]
      /\ \A K : One(s, K) /\ Of(s[i], K) => No(u, K)
  BY <1>0, <1>1, LeavesIs
<1>5. /\ v \in Seq(SlotSet) /\ Thin(v, u) /\ Len(v) <= Len(u)
      /\ gone # {} => Len(v) < Len(u)
      /\ \A K : Has(u, K) /\ (\A j \in gone : ~Of(u[j], K)) => Has(v, K)
      /\ Looped(u) => Looped(v)
  BY <1>0, <1>3, <1>4, RemovedIs
<1>6. s[i] \in SlotSet
  BY <1>1, SlotFacts
<1>7. /\ t \in Seq(SlotSet) /\ Len(t) = Len(v) + 1 /\ Adds(t, v, s[i])
      /\ \A K : Has(v, K) \/ Of(s[i], K) => Has(t, K)
      /\ Looped(v) /\ (Music!Loops(s[i]) => s[i].loop) => Looped(t)
  BY <1>0, <1>5, <1>6, AppendedIs
<1>8. Slots(t)
  BY <1>0, <1>1, <1>4, <1>5, <1>7, SlotFacts, SoundAssumption DEF Slots
<1>9. Thin(t, s)
  <2> SUFFICES ASSUME NEW K
               PROVE  (No(s, K) => No(t, K)) /\ (One(s, K) => One(t, K))
    BY DEF Thin
  <2>1. No(s, K) => No(t, K)
    <3>1. No(s, K) => ~Of(s[i], K) /\ No(v, K)
      BY <1>4, <1>5 DEF Thin, No
    <3> QED BY <3>1, <1>7 DEF Adds
  <2>2. One(s, K) => One(t, K)
    <3>1. One(s, K) => One(v, K) /\ (Of(s[i], K) => No(v, K))
      BY <1>4, <1>5 DEF Thin
    <3> QED BY <3>1, <1>7 DEF Adds
  <2> QED BY <2>1, <2>2
<1>10. Keeps(t, s)
  <2> SUFFICES ASSUME NEW K \in SUBSET Lasting, NEW j \in DOMAIN s, Of(s[j], K),
                      ~Of(s[i], K)
               PROVE  Has(v, K)
    BY <1>7 DEF Keeps, Has
  <2>1. j # i /\ u[j] = s[j]
    BY <1>4
  <2>2. Has(u, K)
    BY <1>4, <2>1 DEF Has
  <2>3. \A n \in gone : ~Of(u[n], K)
    <3> SUFFICES ASSUME NEW n \in gone, Of(u[n], K) PROVE FALSE
      OBVIOUS
    <3>1. n # i
      BY <1>0, <1>1, <1>3, LeavingIs DEF Of
    <3>2. Of(s[n], K) /\ n \in DOMAIN s
      BY <1>3, <1>4, <3>1
    <3>3. Of(due[n], Lasting)
      BY <1>2, <3>2 DEF Alike, Of
    <3> QED BY <3>3, <1>3
  <2> QED BY <2>2, <2>3, <1>5
<1>11. Looped(s) => Looped(t)
  BY <1>4, <1>5, <1>7
<1> QED BY <1>8, <1>9, <1>10, <1>11

(* The three outcomes of a turn.                                           *)
LEMMA LoopTurnsIs ==
    ASSUME NEW e, EngineOK(e), e.phase \in {"intro", "bed"} => e.enabled,
           NEW i \in DOMAIN e.slots, e.slots[i].loop,
           NEW s, s = IF e.paused \/ ~e.enabled \/ e.phase = "stopped"
                      THEN Unarmed(e.slots, i)
                      ELSE IF /\ Len(e.slots) = MaxPlayers
                              /\ Music!Evicted(Unarmed(e.slots, i)) = {}
                           THEN e.slots ELSE Turned(e.slots, i),
           NEW f, f = WithPlayers(e, s)
    PROVE  EngineOK(f) /\ Same(f, e) /\ Thin(f.slots, e.slots)
           /\ Keeps(f.slots, e.slots)
<1>1. e \in EngineType /\ e.slots \in Seq(SlotSet) /\ Len(e.slots) <= MaxPlayers
  BY Types DEF EngineOK
<1>2. e.phase \in {"intro", "bed"} /\ e.enabled
  <2>1. ~No(e.slots, EveryK)
    BY <1>1, SlotFacts, SlotIs DEF No
  <2> QED BY <2>1 DEF EngineOK
<1>3. /\ s \in Seq(SlotSet) /\ Len(s) <= MaxPlayers /\ Thin(s, e.slots)
      /\ Keeps(s, e.slots) /\ (~e.paused => Looped(s))
  <2>1. CASE e.paused
    <3>1. s = Unarmed(e.slots, i) \/ s = e.slots
      BY <2>1
    <3>2. s \in Seq(SlotSet) /\ Len(s) = Len(e.slots) /\ Alike(s, e.slots)
      BY <3>1, <1>1, UnarmedIs DEF Alike
    <3> QED BY <2>1, <3>2, <1>1, AlikeIsThin DEF Keeps
  <2>2. CASE ~e.paused /\ s = e.slots
    BY <2>2, <1>1 DEF Thin, Keeps, EngineOK
  <2>3. CASE /\ ~e.paused /\ s = Turned(e.slots, i)
             /\ ~(Len(e.slots) = MaxPlayers /\ Music!Evicted(Unarmed(e.slots, i)) = {})
    <3>1. Slots(e.slots) /\ Looped(e.slots)
      BY <1>1, <2>3 DEF EngineOK, Slots
    <3>2. Len(e.slots) < MaxPlayers \/ Music!Evicted(Unarmed(e.slots, i)) # {}
      BY <1>1, <2>3, SlotFacts, SoundAssumption
    <3> QED BY <2>3, <3>1, <3>2, TurnedIs DEF Slots
  <2> QED BY <1>2, <2>1, <2>2, <2>3
<1>4. f \in EngineType /\ f.slots = s /\ Same(f, e)
  BY <1>1, <1>3, WithPlayersIs
<1>5. EngineOK(f)
  BY <1>2, <1>3, <1>4 DEF EngineOK, Thin, Same, Kept
<1> QED BY <1>3, <1>4, <1>5

(* A drop-in comes in.                                                     *)
LEMMA DropInIs ==
    ASSUME NEW e, EngineOK(e), e.phase = "bed",
           NEW f, f = WithPlayers(e, Music!createSlot(e.slots, DropInSlot))
    PROVE  EngineOK(f) /\ Same(f, e) /\ ThinFor(f.slots, e.slots, Except("dropin"))
           /\ Keeps(f.slots, e.slots)
<1> DEFINE t == Music!createSlot(e.slots, DropInSlot)
<1>1. /\ e \in EngineType /\ Slots(e.slots) /\ (~e.paused => Looped(e.slots))
      /\ One(e.slots, IntroK) /\ \A b \in 1..4 : One(e.slots, TexK(b))
  BY Types DEF EngineOK, Slots
<1>2. t = Music!createSlot(e.slots, DropInSlot) /\ f = WithPlayers(e, t)
  OBVIOUS
<1> HIDE DEF t
<1>3. /\ Slots(t) /\ ThinFor(t, e.slots, Except("dropin")) /\ Keeps(t, e.slots)
      /\ Looped(e.slots) => Looped(t)
  BY <1>1, <1>2, NewOnes, ComesIn
<1>4. One(t, IntroK) /\ \A b \in 1..4 : One(t, TexK(b))
  BY <1>1, <1>3, Apart DEF ThinFor
<1>5. f \in EngineType /\ f.slots = t /\ Same(f, e)
  BY <1>1, <1>2, <1>3, WithPlayersIs DEF Slots
<1>6. EngineOK(f)
  BY <1>1, <1>3, <1>4, <1>5 DEF EngineOK, Slots, Same, Kept
<1> QED BY <1>3, <1>5, <1>6

(* Some textures leave.                                                    *)
LEMMA TexturesLeave ==
    ASSUME NEW e, EngineOK(e), NEW L \in SUBSET Music!Live(e, "texture"),
           NEW f, f = WithPlayers(e, Music!FadeOut(e.slots, L))
    PROVE  EngineOK(f) /\ Same(f, e) /\ Thin(f.slots, e.slots)
           /\ Keeps(f.slots, e.slots)
<1> DEFINE t == Music!FadeOut(e.slots, L)
<1>1. e \in EngineType /\ e.slots \in Seq(SlotSet)
  BY Types DEF EngineOK
<1>2. t = Music!FadeOut(e.slots, L) /\ f = WithPlayers(e, t)
  OBVIOUS
<1> HIDE DEF t
<1>3. /\ t \in Seq(SlotSet) /\ Len(t) = Len(e.slots) /\ Thin(t, e.slots)
      /\ Looped(e.slots) => Looped(t)
      /\ \A K : Has(e.slots, K) /\ (\A i \in L : ~Of(e.slots[i], K)) => Has(t, K)
  BY <1>1, <1>2, FadedIs
<1>4. \A i \in L : i \in DOMAIN e.slots /\ e.slots[i].kind = "texture"
  BY DEF Music!Live
<1>5. \A K \in SUBSET Lasting : \A i \in L : ~Of(e.slots[i], K)
  BY <1>4 DEF Of, Lasting
<1>6. Keeps(t, e.slots)
  BY <1>3, <1>5 DEF Keeps
<1>7. Len(t) <= Len(e.slots)
  BY <1>1, <1>3, SlotFacts
<1>8. EngineOK(f) /\ Same(f, e) /\ f.slots = t
  BY <1>2, <1>3, <1>7, ThinnerIsOK
<1> QED BY <1>3, <1>6, <1>8

-----------------------------------------------------------------------------
(* The invariant of the music.                                             *)

Flags == [active : BOOLEAN, interrupted : BOOLEAN, reader : BOOLEAN,
          announcing : BOOLEAN]
May(e, f) == e.enabled /\ f.active /\ ~f.interrupted
Gated(e, f) ==
    ~f.active \/ f.interrupted \/ f.reader \/ f.announcing \/ ~e.enabled
DuckFor(f) == IF f.reader THEN "reader" ELSE "full"

(* e is the engine, f the flags, i the intro, y and h the history, on      *)
(* whether the layers play.                                                *)
Sound(e, f, i, y, h, on) ==
    /\ EngineOK(e)
    /\ e.phase \in {"intro", "bed"} => e.enabled /\ f.active
    /\ ~e.enabled \/ ~f.active => ~on
    /\ ~h => ~e.paused
    /\ i # "ready" \/ ~y => One(e.slots, BedK)
    /\ ~y /\ i # "ready" => No(e.slots, BedK) /\ e.phase # "bed"
    /\ i = "ready" /\ May(e, f) /\ ~h => Has(e.slots, BedK)
    /\ e.phase = "bed" /\ ~h => No(e.slots, AboveK(Music!textureCount(e)))
    /\ e.duck = DuckFor(f)
    /\ Gated(e, f) => e.dropInsPaused /\ No(e.slots, DropInK)

MusicInv ==
    /\ Sound(engine, flags, intro, early, hurt, layers.started)
    /\ layers \in [started : BOOLEAN, gain : {"full", "reader", "effect"}]
    /\ flags \in Flags /\ early \in BOOLEAN /\ hurt \in BOOLEAN

(* Beds last.                                                              *)
LEMMA Bands ==
    BedK \in SUBSET Lasting
BY Apart

(* What the settings say.                                                  *)
LEMMA SettingsIs ==
    ASSUME NEW e, NEW f, Settings(f) = Settings(e)
    PROVE  /\ f.enabled = e.enabled /\ f.grade = e.grade
           /\ f.reduceMotion = e.reduceMotion /\ f.duck = e.duck
           /\ Music!textureCount(f) = Music!textureCount(e)
BY TextureCountSame DEF Settings

(* Players leave, and nothing else changes.                                *)
LEMMA Steady ==
    ASSUME NEW e, NEW f, NEW i, NEW y, NEW h, NEW on, Sound(e, f, i, y, h, on),
           NEW g, EngineOK(g), Same(g, e), Thin(g.slots, e.slots),
           Keeps(g.slots, e.slots)
    PROVE  Sound(g, f, i, y, h, on)
<1>1. /\ g.enabled = e.enabled /\ g.duck = e.duck /\ g.phase = e.phase
      /\ g.paused = e.paused /\ g.dropInsPaused = e.dropInsPaused
      /\ Music!textureCount(g) = Music!textureCount(e)
  BY SettingsIs DEF Same, Kept
<1>2. /\ \A K : (No(e.slots, K) => No(g.slots, K)) /\ (One(e.slots, K) => One(g.slots, K))
      /\ Has(e.slots, BedK) => Has(g.slots, BedK)
  BY Bands DEF Thin, Keeps
<1> QED BY <1>1, <1>2 DEF Sound, May, Gated

(* Nothing changes but timers.                                             *)
LEMMA LikeIsSteady ==
    ASSUME NEW e, NEW f, NEW i, NEW y, NEW h, NEW on, Sound(e, f, i, y, h, on),
           NEW g, Like(g, e)
    PROVE  Sound(g, f, i, y, h, on)
<1>1. EngineOK(g)
  BY LikeIsOK DEF Sound
<1>2. Same(g, e) /\ g.slots = e.slots
  BY DEF Like, Same, Kept
<1>3. Thin(g.slots, e.slots) /\ Keeps(g.slots, e.slots)
  BY <1>2 DEF Thin, Keeps
<1> QED BY <1>1, <1>2, <1>3, Steady

(* The invariant holds at the start.                                       *)
LEMMA MusicInit ==
    ASSUME Music!Init
    PROVE  MusicInv
<1>1. PICK g \in Grades :
        engine = [enabled |-> TRUE, grade |-> g, random |-> FALSE,
                  reduceMotion |-> FALSE, phase |-> "idle",
                  paused |-> FALSE, dropInsPaused |-> FALSE,
                  discovery |-> FALSE, duck |-> "full", timers |-> {},
                  slots |-> <<>>]
  BY DEF Music!Init
<1>2. g \in (1..5) \X (1..5)
  BY SoundAssumption
<1>3. <<>> \in Seq(SlotSet) /\ Len(<<>>) = 0 /\ DOMAIN <<>> = {}
  OBVIOUS
<1>4. /\ engine.enabled /\ engine.phase = "idle" /\ ~engine.paused
      /\ ~engine.dropInsPaused /\ engine.duck = "full" /\ engine.slots = <<>>
      /\ engine \in EngineType
  BY <1>1, <1>2, <1>3 DEF EngineType
<1>5. /\ \A K : No(engine.slots, K) /\ One(engine.slots, K)
      /\ Looped(engine.slots)
  BY <1>3, <1>4 DEF No, One, Looped
<1>6. EngineOK(engine)
  BY <1>3, <1>4, <1>5, SoundAssumption DEF EngineOK
<1>7. /\ flags = [active |-> TRUE, interrupted |-> FALSE, reader |-> FALSE,
                  announcing |-> FALSE]
      /\ layers = [started |-> FALSE, gain |-> "full"]
      /\ intro = "none" /\ early = FALSE /\ hurt = FALSE
  BY DEF Music!Init
<1>8. flags \in Flags /\ flags.active /\ ~flags.interrupted /\ ~flags.reader
      /\ ~flags.announcing
  BY <1>7 DEF Flags
<1> QED BY <1>4, <1>5, <1>6, <1>7, <1>8 DEF MusicInv, Sound, May, Gated, DuckFor

-----------------------------------------------------------------------------
(* The steps: timers.                                                      *)

(* Only the engine moves.                                                  *)
LEMMA EngineSteps ==
    ASSUME MusicInv, Music!EngineOnly,
           Sound(engine', flags, intro, early, hurt, layers.started)
    PROVE  MusicInv'
BY DEF MusicInv, Music!EngineOnly

(* A fade ends.                                                            *)
LEMMA FadeEndsStep ==
    ASSUME MusicInv, NEW i \in DOMAIN engine.slots, Music!FadeEnds(i)
    PROVE  MusicInv'
<1>1. engine' = WithPlayers(engine, Music!RemoveAll(engine.slots, {i}))
  BY DEF Music!FadeEnds, WithPlayers
<1>2. EngineOK(engine) /\ engine.slots[i].fades
  BY DEF MusicInv, Sound, Music!FadeEnds
<1>3. /\ EngineOK(engine') /\ Same(engine', engine)
      /\ Thin(engine'.slots, engine.slots) /\ Keeps(engine'.slots, engine.slots)
  BY <1>1, <1>2, FadeEndsIs
<1>4. Sound(engine', flags, intro, early, hurt, layers.started)
  BY <1>3, Steady DEF MusicInv
<1> QED BY <1>4, EngineSteps DEF Music!FadeEnds

(* A one-shot ends.                                                        *)
LEMMA OneShotEndsStep ==
    ASSUME MusicInv, NEW i \in DOMAIN engine.slots, Music!OneShotEnds(i)
    PROVE  MusicInv'
<1>1. engine' = WithPlayers(engine, [engine.slots EXCEPT ![i] = Music!Leaving])
  BY DEF Music!OneShotEnds, WithPlayers
<1>2. EngineOK(engine) /\ ~Music!Loops(engine.slots[i]) /\ ~engine.slots[i].stopping
  BY DEF MusicInv, Sound, Music!OneShotEnds
<1>3. /\ EngineOK(engine') /\ Same(engine', engine)
      /\ Thin(engine'.slots, engine.slots) /\ Keeps(engine'.slots, engine.slots)
  BY <1>1, <1>2, OneShotEndsIs
<1>4. Sound(engine', flags, intro, early, hurt, layers.started)
  BY <1>3, Steady DEF MusicInv
<1> QED BY <1>4, EngineSteps DEF Music!OneShotEnds

(* A loop turns.                                                           *)
LEMMA LoopTurnsStep ==
    ASSUME MusicInv, NEW i \in DOMAIN engine.slots, Music!LoopTurns(i)
    PROVE  MusicInv'
<1> DEFINE s == IF engine.paused \/ ~engine.enabled \/ engine.phase = "stopped"
                THEN Unarmed(engine.slots, i)
                ELSE IF /\ Len(engine.slots) = MaxPlayers
                        /\ Music!Evicted(Unarmed(engine.slots, i)) = {}
                     THEN engine.slots ELSE Turned(engine.slots, i)
<1>1. engine' = WithPlayers(engine, s) /\ engine.slots[i].loop
  BY DEF Music!LoopTurns, WithPlayers, Unarmed, Turned
<1>2. EngineOK(engine) /\ (engine.phase \in {"intro", "bed"} => engine.enabled)
  BY DEF MusicInv, Sound
<1>3. /\ EngineOK(engine') /\ Same(engine', engine)
      /\ Thin(engine'.slots, engine.slots) /\ Keeps(engine'.slots, engine.slots)
  BY <1>1, <1>2, LoopTurnsIs
<1>4. Sound(engine', flags, intro, early, hurt, layers.started)
  BY <1>3, Steady DEF MusicInv
<1> QED BY <1>4, EngineSteps DEF Music!LoopTurns

(* A timer has fired.                                                      *)
LEMMA FiredIs ==
    ASSUME EngineOK(engine), NEW timer
    PROVE  Like(Music!Fired(timer), engine)
<1>1. engine \in EngineType
  BY DEF EngineOK
<1>2. engine.timers \ {timer} \in SUBSET {"dropin", "rotate", "discovery"}
  BY <1>1 DEF EngineType
<1>3. Like([engine EXCEPT !.timers = engine.timers \ {timer}], engine)
  BY <1>1, <1>2, Untimed
<1> QED BY <1>3 DEF Music!Fired

(* The timer of drop-ins.                                                  *)
LEMMA DropInFiresStep ==
    ASSUME MusicInv, NEW idle \in BOOLEAN, Music!DropInFires(idle)
    PROVE  MusicInv'
<1> DEFINE e == Music!Fired("dropin")
           g == WithPlayers(e, Music!createSlot(e.slots, DropInSlot))
           plays == /\ idle /\ e.phase = "bed" /\ ~e.paused /\ ~e.dropInsPaused
                    /\ Music!allowMusicStart(flags)
                    /\ ~flags.reader /\ ~flags.announcing
<1>1. engine' = Music!scheduleDropIn(IF plays THEN g ELSE e)
  BY DEF Music!DropInFires, WithPlayers, Music!Slot, DropInSlot
<1>2. Like(e, engine)
  BY FiredIs DEF MusicInv, Sound
<1>3. plays => e.phase = "bed" /\ (engine.enabled /\ flags.active /\ ~flags.interrupted)
                 /\ ~flags.reader /\ ~flags.announcing
  BY DEF Music!allowMusicStart
<1> HIDE DEF e, plays
<1>4. Sound(e, flags, intro, early, hurt, layers.started)
  BY <1>2, LikeIsSteady DEF MusicInv
<1>5. plays => Sound(g, flags, intro, early, hurt, layers.started)
  <2> SUFFICES ASSUME plays PROVE Sound(g, flags, intro, early, hurt, layers.started)
    OBVIOUS
  <2>1. g = WithPlayers(e, Music!createSlot(e.slots, DropInSlot))
    OBVIOUS
  <2> HIDE DEF g
  <2>2. EngineOK(e) /\ e.phase = "bed"
    BY <1>3, <1>4 DEF Sound
  <2>3. /\ EngineOK(g) /\ Same(g, e) /\ ThinFor(g.slots, e.slots, Except("dropin"))
        /\ Keeps(g.slots, e.slots)
    BY <2>1, <2>2, DropInIs
  <2>4. /\ g.enabled = e.enabled /\ g.duck = e.duck /\ g.phase = e.phase
        /\ g.paused = e.paused /\ g.dropInsPaused = e.dropInsPaused
        /\ Music!textureCount(g) = Music!textureCount(e)
    BY <2>3, SettingsIs DEF Same, Kept
  <2>5. /\ No(e.slots, BedK) => No(g.slots, BedK)
        /\ One(e.slots, BedK) => One(g.slots, BedK)
        /\ Has(e.slots, BedK) => Has(g.slots, BedK)
        /\ \A n \in Nat : No(e.slots, AboveK(n)) => No(g.slots, AboveK(n))
    BY <2>3, Apart DEF ThinFor, Keeps
  <2>6. Music!textureCount(e) \in Nat
    BY <2>2, TextureCount DEF EngineOK
  <2>7. engine.enabled = e.enabled
    BY <1>2 DEF Like, Settings
  <2>8. ~Gated(g, flags)
    BY <1>3, <2>4, <2>7 DEF Gated
  <2> QED BY <1>4, <2>3, <2>4, <2>5, <2>6, <2>8 DEF Sound, May
<1> HIDE DEF g
<1>6. PICK k : (k = e \/ k = g) /\ engine' = Music!scheduleDropIn(k)
                /\ Sound(k, flags, intro, early, hurt, layers.started)
  BY <1>1, <1>4, <1>5
<1>7. Like(engine', k)
  BY <1>6, ScheduledIs DEF Sound, EngineOK
<1>8. Sound(engine', flags, intro, early, hurt, layers.started)
  BY <1>6, <1>7, LikeIsSteady
<1> QED BY <1>8, EngineSteps DEF Music!DropInFires

(* Textures are brought into line: Calm is what Sound says but of them.    *)
Calm(e, f, i, y, h, on) ==
    /\ EngineOK(e)
    /\ e.phase \in {"intro", "bed"} => e.enabled /\ f.active
    /\ ~e.enabled \/ ~f.active => ~on
    /\ ~h => ~e.paused
    /\ i # "ready" \/ ~y => One(e.slots, BedK)
    /\ ~y /\ i # "ready" => No(e.slots, BedK) /\ e.phase # "bed"
    /\ i = "ready" /\ May(e, f) /\ ~h => Has(e.slots, BedK)
    /\ e.duck = DuckFor(f)
    /\ Gated(e, f) => e.dropInsPaused /\ No(e.slots, DropInK)

(* After it, the textures are in line too.                                 *)
LEMMA SyncIsSteady ==
    ASSUME NEW e, NEW f, NEW i, NEW y, NEW h, NEW on, Calm(e, f, i, y, h, on),
           NEW g, g = Music!syncTextures(e)
    PROVE  Sound(g, f, i, y, h, on)
<1>1. /\ EngineOK(g) /\ Settings(g) = Settings(e)
      /\ g.phase = e.phase /\ g.paused = e.paused
      /\ g.dropInsPaused = e.dropInsPaused
      /\ ThinFor(g.slots, e.slots, Except("texture"))
      /\ Keeps(g.slots, e.slots)
      /\ e.phase = "bed" /\ e.enabled /\ ~e.paused
           => No(g.slots, AboveK(Music!textureCount(g)))
  BY SyncTexturesIs DEF Calm
<1>2. /\ g.enabled = e.enabled /\ g.duck = e.duck
  BY <1>1, SettingsIs
<1>3. /\ No(e.slots, BedK) => No(g.slots, BedK)
      /\ One(e.slots, BedK) => One(g.slots, BedK)
      /\ Has(e.slots, BedK) => Has(g.slots, BedK)
      /\ No(e.slots, DropInK) => No(g.slots, DropInK)
  BY <1>1, Apart DEF ThinFor, Keeps
<1> QED BY <1>1, <1>2, <1>3 DEF Sound, Calm, May, Gated

(* So it is for what is sound.                                             *)
LEMMA SyncOfSound ==
    ASSUME NEW e, NEW f, NEW i, NEW y, NEW h, NEW on, Sound(e, f, i, y, h, on),
           NEW g, g = Music!syncTextures(e)
    PROVE  Sound(g, f, i, y, h, on)
<1>1. Calm(e, f, i, y, h, on)
  BY DEF Sound, Calm
<1> QED BY <1>1, SyncIsSteady

(* The timer of the rotation.                                              *)
LEMMA RotateFiresStep ==
    ASSUME MusicInv, NEW victims, Music!RotateFires(victims)
    PROVE  MusicInv'
<1> DEFINE e == Music!Fired("rotate")
           L == {i \in Music!Live(e, "texture") : e.slots[i].asset \in victims}
           g == WithPlayers(e, Music!FadeOut(e.slots, L))
           k == Music!syncTextures(g)
<1>1. engine' = e \/ engine' = Music!scheduleTextureRotate(k)
  BY DEF Music!RotateFires, WithPlayers
<1>2. Like(e, engine)
  BY FiredIs DEF MusicInv, Sound
<1>3. /\ L \in SUBSET Music!Live(e, "texture")
      /\ g = WithPlayers(e, Music!FadeOut(e.slots, L))
      /\ k = Music!syncTextures(g)
  OBVIOUS
<1> HIDE DEF e, L, g, k
<1>4. Sound(e, flags, intro, early, hurt, layers.started)
  BY <1>2, LikeIsSteady DEF MusicInv
<1>5. /\ EngineOK(g) /\ Same(g, e) /\ Thin(g.slots, e.slots) /\ Keeps(g.slots, e.slots)
  BY <1>3, <1>4, TexturesLeave DEF Sound
<1>6. Sound(g, flags, intro, early, hurt, layers.started)
  BY <1>4, <1>5, Steady
<1>7. Sound(k, flags, intro, early, hurt, layers.started)
  BY <1>3, <1>6, SyncOfSound
<1>8. Sound(engine', flags, intro, early, hurt, layers.started)
  <2>1. CASE engine' = e
    BY <1>4, <2>1
  <2>2. CASE engine' = Music!scheduleTextureRotate(k)
    <3>1. Like(engine', k)
      BY <2>2, <1>7, ScheduledIs DEF Sound, EngineOK
    <3> QED BY <1>7, <3>1, LikeIsSteady
  <2> QED BY <1>1, <2>1, <2>2
<1> QED BY <1>8, EngineSteps DEF Music!RotateFires

(* The duck of a discovery ends.                                           *)
LEMMA DiscoveryEndsStep ==
    ASSUME MusicInv, Music!DiscoveryEnds
    PROVE  MusicInv'
<1> DEFINE e == Music!Fired("discovery")
           g == [e EXCEPT !.discovery = FALSE]
<1>1. engine' = Music!syncTextures(g)
  BY DEF Music!DiscoveryEnds
<1>2. Like(e, engine)
  BY FiredIs DEF MusicInv, Sound
<1> HIDE DEF e
<1>3. Sound(e, flags, intro, early, hurt, layers.started)
  BY <1>2, LikeIsSteady DEF MusicInv
<1>4. Like(g, e)
  <2>1. e \in EngineType
    BY <1>3 DEF Sound, EngineOK
  <2> QED BY <2>1 DEF EngineType, Like, Settings
<1> HIDE DEF g
<1>5. Sound(engine', flags, intro, early, hurt, layers.started)
  BY <1>1, <1>3, <1>4, LikeIsSteady, SyncOfSound
<1> QED BY <1>5, EngineSteps DEF Music!DiscoveryEnds

-----------------------------------------------------------------------------
(* The steps: events of the screen.                                        *)

(* What the gates of soundSystem.ts answer.                                *)
LEMMA Answer ==
    \A f : /\ Music!allowMusicStart(f) <=> May(engine, f)
           /\ Music!dropInsGated(f) <=> Gated(engine, f)
           /\ Music!duckFor(f) = DuckFor(f)
BY DEF Music!allowMusicStart, May, Music!dropInsGated, Gated, Music!duckFor, DuckFor

(* The intro starts.                                                       *)
LEMMA IntroStartedStep ==
    ASSUME MusicInv, Music!IntroStarted
    PROVE  MusicInv'
<1> DEFINE can == Music!allowMusicStart(flags)
<1>1. /\ intro = "none" /\ intro' = "started"
      /\ engine' = Music!startIntro(engine, can)
      /\ UNCHANGED <<layers, flags, early, hurt>>
  BY DEF Music!IntroStarted
<1>2. can \in BOOLEAN /\ (can <=> May(engine, flags))
  BY Answer DEF Music!allowMusicStart
<1> HIDE DEF can
<1>3. Sound(engine, flags, "none", early, hurt, layers.started)
  BY <1>1 DEF MusicInv
<1>4. /\ EngineOK(engine') /\ Kept(engine', engine)
      /\ ThinFor(engine'.slots, engine.slots, Except("intro"))
      /\ engine'.phase = engine.phase \/ (can /\ engine'.phase = "intro")
  BY <1>1, <1>2, <1>3, StartIntroIs DEF Sound
<1>5. /\ No(engine.slots, BedK) => No(engine'.slots, BedK)
      /\ One(engine.slots, BedK) => One(engine'.slots, BedK)
      /\ No(engine.slots, DropInK) => No(engine'.slots, DropInK)
      /\ \A n \in Nat : No(engine.slots, AboveK(n)) => No(engine'.slots, AboveK(n))
  BY <1>4, Apart DEF ThinFor
<1>6. /\ engine'.enabled = engine.enabled /\ engine'.duck = engine.duck
      /\ engine'.paused = engine.paused /\ engine'.dropInsPaused = engine.dropInsPaused
      /\ Music!textureCount(engine') = Music!textureCount(engine)
  BY <1>4, SettingsIs DEF Kept
<1>7. Music!textureCount(engine) \in Nat
  BY <1>3, TextureCount DEF Sound, EngineOK
<1>8. Sound(engine', flags, "started", early, hurt, layers.started)
  BY <1>2, <1>3, <1>4, <1>5, <1>6, <1>7 DEF Sound, May, Gated
<1> QED BY <1>1, <1>8 DEF MusicInv

(* The intro is over.                                                      *)
LEMMA IntroReadyStep ==
    ASSUME MusicInv, Music!IntroReady
    PROVE  MusicInv'
<1> DEFINE can == Music!allowMusicStart(flags)
<1>1. /\ intro = "started" /\ intro' = "ready"
      /\ engine' = Music!startArrivalAndBed(engine, can)
      /\ layers' = [layers EXCEPT !.started = layers.started \/ can]
      /\ UNCHANGED <<flags, early, hurt>>
  BY DEF Music!IntroReady
<1>2. can \in BOOLEAN /\ (can <=> May(engine, flags))
  BY Answer DEF Music!allowMusicStart
<1> HIDE DEF can
<1>3. Sound(engine, flags, "started", early, hurt, layers.started)
  BY <1>1 DEF MusicInv
<1>4. /\ layers' \in [started : BOOLEAN, gain : {"full", "reader", "effect"}]
      /\ layers'.started <=> layers.started \/ can
  BY <1>1, <1>2 DEF MusicInv
<1>5. CASE ~can
  <2>1. engine' = engine
    BY <1>1, <1>5 DEF Music!startArrivalAndBed
  <2>2. Sound(engine', flags, "ready", early, hurt, layers'.started)
    BY <1>2, <1>3, <1>4, <1>5, <2>1 DEF Sound
  <2> QED BY <1>1, <1>4, <2>2 DEF MusicInv
<1>6. CASE can
  <2>1. can = TRUE
    BY <1>2, <1>6
  <2>2. engine' = Music!startArrivalAndBed(engine, TRUE)
    BY <1>1, <2>1
  <2>3. EngineOK(engine) /\ One(engine.slots, BedK)
    BY <1>3 DEF Sound
  <2>4. /\ EngineOK(engine') /\ Kept(engine', engine) /\ engine'.phase = "bed"
        /\ Has(engine'.slots, BedK)
        /\ No(engine.slots, BedK) => One(engine'.slots, BedK)
        /\ No(engine.slots, DropInK) => No(engine'.slots, DropInK)
        /\ engine.enabled /\ ~engine.paused =>
             No(engine'.slots, AboveK(Music!textureCount(engine')))
    BY <2>2, <2>3, ArrivalAndBed
  <2>5. /\ engine'.enabled = engine.enabled /\ engine'.duck = engine.duck
        /\ engine'.paused = engine.paused /\ engine'.dropInsPaused = engine.dropInsPaused
    BY <2>4, SettingsIs DEF Kept
  <2>6. Sound(engine', flags, "ready", early, hurt, layers'.started)
    BY <1>2, <1>3, <1>4, <1>6, <2>4, <2>5 DEF Sound, May, Gated
  <2> QED BY <1>1, <1>4, <2>6 DEF MusicInv
<1> QED BY <1>5, <1>6

(* The grade changes: what plays is brought into line.                     *)
LEMMA SetProgressStep ==
    ASSUME MusicInv, NEW grade \in Grades, Music!SetProgress(grade)
    PROVE  MusicInv'
<1> DEFINE e == [engine EXCEPT !.grade = grade]
           can == Music!allowMusicStart(flags)
           b == Music!syncBed(e, can)
<1>1. engine' = IF e.phase = "bed" THEN Music!syncTextures(b) ELSE e
  BY DEF Music!SetProgress
<1>2. can \in BOOLEAN /\ (can <=> May(engine, flags))
  BY Answer DEF Music!allowMusicStart
<1>3. Sound(engine, flags, intro, early, hurt, layers.started)
  BY DEF MusicInv
<1>4. /\ e \in EngineType /\ e.slots = engine.slots /\ e.enabled = engine.enabled
      /\ e.duck = engine.duck /\ e.phase = engine.phase /\ e.paused = engine.paused
      /\ e.dropInsPaused = engine.dropInsPaused
  BY <1>3, SoundAssumption DEF Sound, EngineOK, EngineType
<1>5. b = Music!syncBed(e, can)
  OBVIOUS
<1> HIDE DEF e, can, b
<1>6. EngineOK(e)
  BY <1>3, <1>4 DEF Sound, EngineOK
<1>7. CASE e.phase # "bed"
  <2>1. Sound(e, flags, intro, early, hurt, layers.started)
    BY <1>3, <1>4, <1>6, <1>7 DEF Sound, May, Gated
  <2> QED BY <1>1, <1>7, <2>1, EngineSteps DEF Music!SetProgress
<1>8. CASE e.phase = "bed"
  <2>1. /\ EngineOK(b) /\ Kept(b, e)
        /\ ThinFor(b.slots, e.slots, Except("bed"))
        /\ One(e.slots, BedK) => One(b.slots, BedK)
        /\ Has(e.slots, BedK) => Has(b.slots, BedK)
        /\ b.phase = "bed"
    BY <1>2, <1>5, <1>6, <1>8, SyncBedIs
  <2>2. No(e.slots, DropInK) => No(b.slots, DropInK)
    BY <2>1, Apart DEF ThinFor
  <2>3. /\ b.enabled = e.enabled /\ b.duck = e.duck /\ b.paused = e.paused
        /\ b.dropInsPaused = e.dropInsPaused
    BY <2>1, SettingsIs DEF Kept
  <2>4. Calm(b, flags, intro, early, hurt, layers.started)
    BY <1>3, <1>4, <1>8, <2>1, <2>2, <2>3 DEF Sound, Calm, May, Gated
  <2>5. Sound(engine', flags, intro, early, hurt, layers.started)
    BY <1>1, <1>8, <2>4, SyncIsSteady
  <2> QED BY <2>5, EngineSteps DEF Music!SetProgress
<1> QED BY <1>7, <1>8

(* Reduced motion caps the textures, too.                                  *)
LEMMA ReducedMotionStep ==
    ASSUME MusicInv, Music!SetReducedMotion
    PROVE  MusicInv'
<1> DEFINE e == [engine EXCEPT !.reduceMotion = ~engine.reduceMotion]
<1>1. engine' = IF e.phase = "bed" THEN Music!syncTextures(e) ELSE e
  BY DEF Music!SetReducedMotion
<1>2. Sound(engine, flags, intro, early, hurt, layers.started)
  BY DEF MusicInv
<1>3. /\ e \in EngineType /\ e.slots = engine.slots /\ e.enabled = engine.enabled
      /\ e.duck = engine.duck /\ e.phase = engine.phase /\ e.paused = engine.paused
      /\ e.dropInsPaused = engine.dropInsPaused
  BY <1>2 DEF Sound, EngineOK, EngineType
<1> HIDE DEF e
<1>4. EngineOK(e)
  BY <1>2, <1>3 DEF Sound, EngineOK
<1>5. Calm(e, flags, intro, early, hurt, layers.started)
  BY <1>2, <1>3, <1>4 DEF Sound, Calm, May, Gated
<1>6. e.phase # "bed" => Sound(e, flags, intro, early, hurt, layers.started)
  BY <1>5 DEF Sound, Calm
<1>7. e.phase = "bed" => Sound(engine', flags, intro, early, hurt, layers.started)
  BY <1>1, <1>5, SyncIsSteady
<1> QED BY <1>1, <1>6, <1>7, EngineSteps DEF Music!SetReducedMotion

(* A reshuffle begins.                                                     *)
LEMMA ReshuffleStartedStep ==
    ASSUME MusicInv, NEW random \in BOOLEAN, Music!ReshuffleStarted(random)
    PROVE  MusicInv'
<1>1. engine' = [engine EXCEPT !.random = random]
  BY DEF Music!ReshuffleStarted
<1>2. engine \in EngineType
  BY DEF MusicInv, Sound, EngineOK
<1>3. Like(engine', engine)
  BY <1>1, <1>2 DEF EngineType, Like, Settings
<1>4. Sound(engine', flags, intro, early, hurt, layers.started)
  BY <1>3, LikeIsSteady DEF MusicInv
<1> QED BY <1>4, EngineSteps DEF Music!ReshuffleStarted

(* A reshuffle lands.                                                      *)
LEMMA ReshuffleLandedStep ==
    ASSUME MusicInv, NEW random \in BOOLEAN, Music!ReshuffleLanded(random)
    PROVE  MusicInv'
<1> DEFINE e == [engine EXCEPT !.random = random]
           can == Music!allowMusicStart(flags)
           b == Music!syncBed(e, can)
<1>1. \/ engine' = Music!onDiscoveryLanded(b)
      \/ engine' = Music!onDiscoveryLanded(e)
  BY DEF Music!ReshuffleLanded
<1>2. can \in BOOLEAN /\ (can <=> May(engine, flags)) /\ b = Music!syncBed(e, can)
  BY Answer DEF Music!allowMusicStart
<1>3. engine \in EngineType /\ intro = "ready"
  BY DEF MusicInv, Sound, EngineOK, Music!ReshuffleLanded
<1>4. Like(e, engine)
  BY <1>3 DEF EngineType, Like, Settings
<1> HIDE DEF e, can, b
<1>5. Sound(e, flags, intro, early, hurt, layers.started)
  BY <1>4, LikeIsSteady DEF MusicInv
<1>6. Sound(b, flags, intro, early, hurt, layers.started)
  <2>1. EngineOK(e)
    BY <1>5 DEF Sound
  <2>2. /\ EngineOK(b) /\ Kept(b, e)
        /\ ThinFor(b.slots, e.slots, Except("bed"))
        /\ One(e.slots, BedK) => One(b.slots, BedK)
        /\ Has(e.slots, BedK) => Has(b.slots, BedK)
        /\ b.phase = e.phase \/ (can /\ b.phase = "bed")
        /\ ~can => b = e
    BY <1>2, <2>1, SyncBedIs
  <2>3. /\ No(e.slots, DropInK) => No(b.slots, DropInK)
        /\ \A n \in Nat : No(e.slots, AboveK(n)) => No(b.slots, AboveK(n))
    BY <2>2, Apart DEF ThinFor
  <2>4. /\ b.enabled = e.enabled /\ b.duck = e.duck /\ b.paused = e.paused
        /\ b.dropInsPaused = e.dropInsPaused
        /\ Music!textureCount(b) = Music!textureCount(e)
    BY <2>2, SettingsIs DEF Kept
  <2>5. /\ can => e.enabled /\ flags.active
        /\ Music!textureCount(e) \in Nat
    <3>1. e.enabled = engine.enabled
      BY <1>4, SettingsIs DEF Like
    <3>2. e \in EngineType
      BY <2>1 DEF EngineOK
    <3> QED BY <1>2, <3>1, <3>2, TextureCount DEF May
  <2>6. e.phase = "intro" => b = e
    BY <1>2 DEF Music!syncBed
  <2>7. e.phase \notin {"intro", "bed"} =>
          No(e.slots, AboveK(Music!textureCount(e)))
    <3>1. AboveK(Music!textureCount(e)) \in SUBSET EveryK
      BY <2>5 DEF AboveK, EveryK, LiveKind, Asset
    <3>2. No(e.slots, EveryK) => No(e.slots, AboveK(Music!textureCount(e)))
      BY <3>1 DEF No, Of
    <3> QED BY <2>1, <3>2 DEF EngineOK
  <2>8. CASE b = e
    BY <1>5, <2>8
  <2>9. CASE b # e
    BY <1>3, <1>5, <2>2, <2>3, <2>4, <2>5, <2>6, <2>7, <2>9 DEF Sound, May, Gated
  <2> QED BY <2>8, <2>9
<1>7. PICK k : engine' = Music!onDiscoveryLanded(k)
                 /\ Sound(k, flags, intro, early, hurt, layers.started)
  BY <1>1, <1>5, <1>6
<1>8. /\ EngineOK(engine') /\ Same(engine', k)
      /\ Thin(engine'.slots, k.slots) /\ Keeps(engine'.slots, k.slots)
  BY <1>7, DiscoveryIs DEF Sound
<1>9. Sound(engine', flags, intro, early, hurt, layers.started)
  BY <1>7, <1>8, Steady
<1> QED BY <1>9, EngineSteps DEF Music!ReshuffleLanded

(* All stops and drop-ins wait.                                            *)
LEMMA Silenced ==
    ASSUME NEW e, EngineOK(e), NEW f, f = Music!pauseDropIns(Music!stop(e))
    PROVE  /\ EngineOK(f) /\ Settings(f) = Settings(e) /\ f.phase = "stopped"
           /\ f.paused = e.paused /\ f.dropInsPaused /\ \A K : No(f.slots, K)
<1> DEFINE g == Music!stop(e)
<1>1. g = Music!stop(e) /\ f = Music!pauseDropIns(g)
  OBVIOUS
<1> HIDE DEF g
<1>2. EngineOK(g) /\ Kept(g, e) /\ g.phase = "stopped" /\ \A K : No(g.slots, K)
  BY <1>1, StopIs
<1>3. /\ EngineOK(f) /\ Settings(f) = Settings(g)
      /\ f.phase = g.phase /\ f.paused = g.paused /\ f.dropInsPaused
      /\ Thin(f.slots, g.slots)
  BY <1>1, <1>2, PauseDropInsIs
<1> QED BY <1>2, <1>3 DEF Kept, Thin

(* None is at most one.                                                    *)
LEMMA NoIsOne ==
    ASSUME NEW s, \A K : No(s, K)
    PROVE  \A K : One(s, K)
BY DEF No, One

(* A music that is silent is sound once nothing asks for it.               *)
LEMMA SilentIsSound ==
    ASSUME NEW e, NEW f, NEW i, NEW y, NEW h, EngineOK(e), e.phase = "stopped",
           e.dropInsPaused, \A K : No(e.slots, K), ~h => ~e.paused,
           e.duck = DuckFor(f), ~May(e, f)
    PROVE  Sound(e, f, i, y, h, FALSE)
<1>1. \A K : One(e.slots, K)
  BY NoIsOne
<1> QED BY <1>1 DEF Sound

(* Music is turned on or off.                                              *)
LEMMA SetMusicStep ==
    ASSUME MusicInv, NEW on \in BOOLEAN, Music!SetMusic(on)
    PROVE  MusicInv'
<1> DEFINE e == [engine EXCEPT !.enabled = on]
           can == flags.active /\ ~flags.interrupted
<1>1. /\ on # engine.enabled
      /\ engine' = IF on THEN Music!restartBed(e, can)
                   ELSE Music!pauseDropIns(Music!stop(e))
      /\ layers' = [layers EXCEPT !.started = layers.started /\ on]
      /\ early' = (early \/ (on /\ intro # "ready"))
      /\ UNCHANGED <<flags, intro, hurt>>
  BY DEF Music!SetMusic
<1>2. Sound(engine, flags, intro, early, hurt, layers.started)
  BY DEF MusicInv
<1>3. /\ e \in EngineType /\ e.slots = engine.slots /\ e.enabled = on
      /\ e.duck = engine.duck /\ e.phase = engine.phase /\ e.paused = engine.paused
      /\ e.dropInsPaused = engine.dropInsPaused /\ engine.enabled \in BOOLEAN
  BY <1>2 DEF Sound, EngineOK, EngineType
<1>4. /\ layers' \in [started : BOOLEAN, gain : {"full", "reader", "effect"}]
      /\ layers'.started <=> layers.started /\ on
  BY <1>1 DEF MusicInv
<1>5. EngineOK(e)
  BY <1>2, <1>3 DEF Sound, EngineOK
<1>6. can \in BOOLEAN
  BY DEF MusicInv, Flags
<1> HIDE DEF e, can
<1>7. CASE ~on
  <2>1. engine' = Music!pauseDropIns(Music!stop(e))
    BY <1>1, <1>7
  <2>2. /\ EngineOK(engine') /\ Settings(engine') = Settings(e)
        /\ engine'.phase = "stopped" /\ engine'.paused = e.paused
        /\ engine'.dropInsPaused /\ \A K : No(engine'.slots, K)
    BY <1>5, <2>1, Silenced
  <2>3. ~engine'.enabled /\ engine'.duck = engine.duck
    BY <1>3, <1>7, <2>2, SettingsIs
  <2>4. Sound(engine', flags, intro, early', hurt, FALSE)
    <3>1. ~May(engine', flags)
      BY <2>3 DEF May
    <3>2. (~hurt => ~engine'.paused) /\ engine'.duck = DuckFor(flags)
      BY <1>2, <1>3, <2>2, <2>3 DEF Sound
    <3> QED BY <2>2, <3>1, <3>2, SilentIsSound
  <2>5. layers'.started = FALSE
    BY <1>4, <1>7
  <2> QED BY <1>1, <1>4, <2>4, <2>5, <1>7 DEF MusicInv
<1>8. CASE on
  <2>1. ~engine.enabled /\ engine.phase \notin {"intro", "bed"}
    BY <1>1, <1>2, <1>3, <1>8 DEF Sound
  <2>2. No(e.slots, EveryK) /\ e.phase \notin {"intro", "bed"}
    BY <1>3, <1>5, <2>1 DEF EngineOK
  <2>3. engine' = Music!restartBed(e, can) /\ early' \in BOOLEAN
    BY <1>1, <1>8 DEF MusicInv
  <2>4. engine.dropInsPaused /\ No(engine.slots, DropInK) /\ ~layers'.started
    BY <1>2, <1>4, <2>1 DEF Sound, Gated
  <2>5. CASE ~can
    <3>1. engine' = e
      BY <2>3, <2>5 DEF Music!restartBed
    <3>2. No(e.slots, BedK)
      <4>1. BedK \in SUBSET EveryK
        BY DEF BedK, EveryK, LiveKind
      <4> QED BY <2>2, <4>1 DEF No, Of
    <3>3. One(e.slots, BedK)
      BY <3>2 DEF No, One
    <3>4. ~May(e, flags)
      BY <2>5 DEF May, can
    <3>5. Sound(e, flags, intro, early', hurt, layers'.started)
      BY <1>2, <1>3, <1>5, <2>1, <2>2, <2>4, <3>2, <3>3, <3>4 DEF Sound
    <3> QED BY <1>1, <1>4, <2>3, <3>1, <3>5 DEF MusicInv
  <2>6. CASE can
    <3>1. engine' = Music!restartBed(e, TRUE)
      BY <1>6, <2>3, <2>6
    <3>2. /\ EngineOK(engine') /\ Settings(engine') = Settings(e)
          /\ engine'.phase = "bed" /\ ~engine'.paused
          /\ engine'.dropInsPaused = e.dropInsPaused
          /\ One(engine'.slots, BedK) /\ Has(engine'.slots, BedK)
          /\ No(engine'.slots, DropInK)
          /\ e.enabled => No(engine'.slots, AboveK(Music!textureCount(engine')))
      BY <1>5, <2>2, <3>1, RestartBedIs
    <3>3. engine'.enabled = e.enabled /\ engine'.duck = e.duck
      BY <3>2, SettingsIs
    <3>4. flags.active
      BY <2>6 DEF can
    <3>5. ~early' => intro = "ready"
      BY <1>1, <1>8 DEF MusicInv
    <3>6. Sound(engine', flags, intro, early', hurt, layers'.started)
      BY <1>2, <1>3, <1>8, <2>4, <3>2, <3>3, <3>4, <3>5 DEF Sound
    <3> QED BY <1>1, <1>4, <2>3, <3>6 DEF MusicInv
  <2> QED BY <1>6, <2>5, <2>6
<1> QED BY <1>7, <1>8

-----------------------------------------------------------------------------
(* The steps: the system.                                                  *)

(* Drop-ins wait or go on, as the flags say.                               *)
LEMMA GateIs ==
    ASSUME NEW e, EngineOK(e), NEW f, NEW g, g = Music!gateDropIns(e, f)
    PROVE  /\ EngineOK(g) /\ Settings(g) = Settings(e)
           /\ g.phase = e.phase /\ g.paused = e.paused
           /\ Thin(g.slots, e.slots) /\ Keeps(g.slots, e.slots)
           /\ Gated(engine, f) => g.dropInsPaused /\ No(g.slots, DropInK)
<1>1. g = IF Gated(engine, f) THEN Music!pauseDropIns(e) ELSE Music!resumeDropIns(e)
  <2>1. g = IF Music!dropInsGated(f) THEN Music!pauseDropIns(e) ELSE Music!resumeDropIns(e)
    BY DEF Music!gateDropIns
  <2> QED BY <2>1, Answer
<1>2. CASE Gated(engine, f)
  <2>1. g = Music!pauseDropIns(e)
    BY <1>1, <1>2
  <2> QED BY <2>1, <1>2, PauseDropInsIs
<1>3. CASE ~Gated(engine, f)
  <2>1. g = Music!resumeDropIns(e)
    BY <1>1, <1>3
  <2>2. g.slots = e.slots
    BY <2>1, ResumeDropInsIs
  <2>3. Thin(g.slots, e.slots) /\ Keeps(g.slots, e.slots)
    BY <2>2 DEF Thin, Keeps
  <2> QED BY <2>1, <2>3, <1>3, ResumeDropInsIs
<1> QED BY <1>2, <1>3

(* The gain of the engine is set.                                          *)
Ducked(e, d) == [e EXCEPT !.duck = d]

(* The gain matters to nothing else.                                       *)
LEMMA DuckedIs ==
    ASSUME NEW e, EngineOK(e), NEW d \in {"full", "reader"}, NEW f, f = Ducked(e, d)
    PROVE  /\ EngineOK(f) /\ f.slots = e.slots /\ f.phase = e.phase
           /\ f.paused = e.paused /\ f.dropInsPaused = e.dropInsPaused
           /\ f.enabled = e.enabled /\ f.duck = d
           /\ Music!textureCount(f) = Music!textureCount(e)
<1>1. /\ f \in EngineType /\ f.slots = e.slots /\ f.phase = e.phase
      /\ f.paused = e.paused /\ f.dropInsPaused = e.dropInsPaused
      /\ f.enabled = e.enabled /\ f.duck = d
      /\ f.grade = e.grade /\ f.reduceMotion = e.reduceMotion
  BY DEF EngineOK, EngineType, Ducked
<1>2. EngineOK(f)
  BY <1>1 DEF EngineOK
<1>3. Music!textureCount(f) = Music!textureCount(e)
  BY <1>1 DEF Music!textureCount, Music!Tiers, Music!Eighths
<1> QED BY <1>1, <1>2, <1>3

(* The app goes to the background or comes back.                           *)
LEMMA BackgroundStep ==
    ASSUME MusicInv, Music!AppActive(FALSE)
    PROVE  MusicInv'
<1>1. /\ flags' = [flags EXCEPT !.active = FALSE]
      /\ engine' = Music!pauseDropIns(Music!stop(engine))
      /\ layers' = [layers EXCEPT !.started = FALSE]
      /\ UNCHANGED <<early, intro, hurt>>
  BY DEF Music!AppActive
<1>2. Sound(engine, flags, intro, early, hurt, layers.started) /\ EngineOK(engine)
  BY DEF MusicInv, Sound
<1>3. /\ flags' \in Flags /\ ~flags'.active /\ flags'.reader = flags.reader
      /\ layers' \in [started : BOOLEAN, gain : {"full", "reader", "effect"}]
      /\ layers'.started = FALSE
  BY <1>1 DEF MusicInv, Flags
<1>4. /\ EngineOK(engine') /\ Settings(engine') = Settings(engine)
      /\ engine'.phase = "stopped" /\ engine'.paused = engine.paused
      /\ engine'.dropInsPaused /\ \A K : No(engine'.slots, K)
  BY <1>1, <1>2, Silenced
<1>5. engine'.duck = engine.duck
  BY <1>4, SettingsIs
<1>6. Sound(engine', flags', intro, early, hurt, FALSE)
  <2>1. ~May(engine', flags')
    BY <1>3 DEF May
  <2>2. (~hurt => ~engine'.paused) /\ engine'.duck = DuckFor(flags')
    BY <1>2, <1>3, <1>4, <1>5 DEF Sound, DuckFor
  <2> QED BY <1>4, <2>1, <2>2, SilentIsSound
<1> QED BY <1>1, <1>3, <1>6 DEF MusicInv

(* The app comes back.                                                     *)
LEMMA ForegroundStep ==
    ASSUME MusicInv, Music!AppActive(TRUE)
    PROVE  MusicInv'
<1> DEFINE f == [flags EXCEPT !.active = TRUE]
           can == Music!allowMusicStart(f)
           bed == Music!restartBed(engine, can)
           back == Music!gateDropIns(bed, f)
           duck == IF f.reader THEN "reader" ELSE back.duck
<1>1. /\ flags' = f /\ flags.active # TRUE
      /\ engine' = Ducked(back, duck)
      /\ layers' = [started |-> layers.started \/ can,
                    gain |-> IF f.reader THEN "reader" ELSE layers.gain]
      /\ early' = (early \/ (can /\ intro # "ready"))
      /\ UNCHANGED <<intro, hurt>>
  BY DEF Music!AppActive, Ducked
<1>2. /\ Sound(engine, flags, intro, early, hurt, layers.started) /\ EngineOK(engine)
      /\ early \in BOOLEAN /\ engine.enabled \in BOOLEAN
  BY DEF MusicInv, Sound, EngineOK, EngineType
<1>3. /\ f \in Flags /\ f.active /\ f.reader = flags.reader
      /\ f.interrupted = flags.interrupted /\ f.announcing = flags.announcing
  BY DEF MusicInv, Flags
<1>4. can \in BOOLEAN /\ (can <=> May(engine, f))
  BY Answer DEF Music!allowMusicStart
<1>5. /\ bed = Music!restartBed(engine, can) /\ back = Music!gateDropIns(bed, f)
      /\ duck = IF f.reader THEN "reader" ELSE back.duck
  OBVIOUS
<1> HIDE DEF f, can, bed, back, duck
<1>6. /\ layers' \in [started : BOOLEAN, gain : {"full", "reader", "effect"}]
      /\ layers'.started <=> layers.started \/ can
  BY <1>1, <1>4 DEF MusicInv
<1>7. /\ engine.phase \notin {"intro", "bed"} /\ No(engine.slots, EveryK)
      /\ engine.dropInsPaused /\ No(engine.slots, DropInK) /\ ~layers.started
  <2>1. ~flags.active
    BY <1>1 DEF MusicInv, Flags
  <2> QED BY <2>1, <1>2 DEF Sound, EngineOK, Gated
<1>8. /\ EngineOK(bed) /\ Settings(bed) = Settings(engine)
      /\ bed.dropInsPaused /\ No(bed.slots, DropInK)
      /\ can => /\ bed.phase = "bed" /\ ~bed.paused
                /\ One(bed.slots, BedK) /\ Has(bed.slots, BedK)
                /\ engine.enabled => No(bed.slots, AboveK(Music!textureCount(bed)))
      /\ ~can => bed = engine
  <2>1. CASE ~can
    BY <1>2, <1>5, <1>7, <2>1 DEF Music!restartBed
  <2>2. CASE can
    <3>1. bed = Music!restartBed(engine, TRUE)
      BY <1>4, <1>5, <2>2
    <3> QED BY <1>2, <1>7, <2>2, <3>1, RestartBedIs
  <2> QED BY <2>1, <2>2
<1>9. /\ EngineOK(back) /\ Settings(back) = Settings(bed)
      /\ back.phase = bed.phase /\ back.paused = bed.paused
      /\ Thin(back.slots, bed.slots) /\ Keeps(back.slots, bed.slots)
      /\ Gated(engine, f) => back.dropInsPaused /\ No(back.slots, DropInK)
  BY <1>5, <1>8, GateIs
<1>10. /\ back.enabled = engine.enabled /\ back.duck = engine.duck
       /\ Music!textureCount(back) = Music!textureCount(bed)
  BY <1>8, <1>9, SettingsIs
<1>11. duck \in {"full", "reader"} /\ duck = DuckFor(f)
  BY <1>2, <1>3, <1>5, <1>10 DEF Sound, DuckFor
<1>12. /\ EngineOK(engine') /\ engine'.slots = back.slots /\ engine'.phase = back.phase
       /\ engine'.paused = back.paused /\ engine'.dropInsPaused = back.dropInsPaused
       /\ engine'.enabled = back.enabled /\ engine'.duck = duck
       /\ Music!textureCount(engine') = Music!textureCount(back)
  BY <1>1, <1>9, <1>11, DuckedIs
<1>13. /\ \A K : (No(bed.slots, K) => No(engine'.slots, K))
                   /\ (One(bed.slots, K) => One(engine'.slots, K))
       /\ Has(bed.slots, BedK) => Has(engine'.slots, BedK)
  BY <1>9, <1>12, Bands DEF Thin, Keeps
<1>14. CASE can
  <2>1. engine.enabled /\ f.active
    BY <1>4, <1>14 DEF May
  <2>2. ~early' => intro = "ready"
    BY <1>1, <1>2, <1>14
  <2>3. Sound(engine', f, intro, early', hurt, layers'.started)
    BY <1>8, <1>9, <1>10, <1>11, <1>12, <1>13, <1>14, <2>1, <2>2 DEF Sound, Gated
  <2>4. early' \in BOOLEAN
    BY <1>1, <1>2, <1>4
  <2> QED BY <1>1, <1>3, <1>6, <2>3, <2>4 DEF MusicInv
<1>15. CASE ~can
  <2>1. early' = early /\ ~layers'.started
    BY <1>1, <1>2, <1>6, <1>7, <1>15
  <2>2. No(engine.slots, BedK) /\ One(engine.slots, BedK)
    <3>1. BedK \in SUBSET EveryK
      BY DEF BedK, EveryK, LiveKind
    <3>2. No(engine.slots, BedK)
      BY <1>7, <3>1 DEF No, Of
    <3> QED BY <3>2 DEF No, One
  <2>3. ~May(engine', f)
    BY <1>4, <1>10, <1>12, <1>15 DEF May
  <2>4. Sound(engine', f, intro, early', hurt, layers'.started)
    BY <1>2, <1>7, <1>8, <1>9, <1>10, <1>11, <1>12, <1>13, <1>15, <2>1, <2>2, <2>3
       DEF Sound, Gated
  <2> QED BY <1>1, <1>2, <1>3, <1>6, <2>1, <2>4 DEF MusicInv
<1> QED BY <1>4, <1>14, <1>15

(* An interruption begins or ends.                                         *)
LEMMA InterruptionStep ==
    ASSUME MusicInv, NEW began \in BOOLEAN, Music!Interruption(began)
    PROVE  MusicInv'
<1> DEFINE f == [flags EXCEPT !.interrupted = began]
           can == Music!allowMusicStart(f)
           back == Music!resume(engine, can)
           gate == IF Music!dropInsGated(f) THEN back ELSE Music!resumeDropIns(back)
           wait == Music!pause(engine)
<1>1. /\ flags' = f /\ hurt' = TRUE /\ UNCHANGED <<intro, early>>
      /\ IF began
         THEN engine' = Music!pauseDropIns(wait) /\ UNCHANGED layers
         ELSE /\ engine' = Ducked(gate, Music!duckFor(f))
              /\ layers' = [layers EXCEPT !.gain = Music!duckFor(f)]
  BY DEF Music!Interruption, Ducked
<1>2. /\ Sound(engine, flags, intro, early, hurt, layers.started) /\ EngineOK(engine)
  BY DEF MusicInv, Sound
<1>3. /\ f \in Flags /\ f.active = flags.active /\ f.reader = flags.reader
      /\ f.interrupted = began /\ f.announcing = flags.announcing
  BY DEF MusicInv, Flags
<1>4. /\ layers' \in [started : BOOLEAN, gain : {"full", "reader", "effect"}]
      /\ layers'.started = layers.started
  BY <1>1 DEF MusicInv, Music!duckFor
<1>5. /\ can \in BOOLEAN /\ back = Music!resume(engine, can)
      /\ gate = (IF Gated(engine, f) THEN back ELSE Music!resumeDropIns(back))
      /\ wait = Music!pause(engine)
  BY Answer DEF Music!allowMusicStart
<1>6. DuckFor(f) = DuckFor(flags) /\ DuckFor(f) \in {"full", "reader"}
  BY <1>3 DEF DuckFor
<1> HIDE DEF f, can, back, gate, wait
<1>7. CASE began
  <2>1. /\ EngineOK(wait) /\ Settings(wait) = Settings(engine)
        /\ wait.phase = engine.phase /\ Thin(wait.slots, engine.slots)
    BY <1>2, <1>5, PauseIs
  <2>2. engine' = Music!pauseDropIns(wait)
    BY <1>1, <1>7
  <2>3. /\ EngineOK(engine') /\ Settings(engine') = Settings(wait)
        /\ engine'.phase = wait.phase /\ engine'.dropInsPaused
        /\ Thin(engine'.slots, wait.slots) /\ No(engine'.slots, DropInK)
    BY <2>1, <2>2, PauseDropInsIs
  <2>4. engine'.enabled = engine.enabled /\ engine'.duck = engine.duck
    BY <2>1, <2>3, SettingsIs
  <2>5. Thin(engine'.slots, engine.slots)
    BY <2>1, <2>3 DEF Thin
  <2>6. Sound(engine', f, intro, early, TRUE, layers.started)
    BY <1>2, <1>3, <1>6, <2>1, <2>3, <2>4, <2>5 DEF Sound, Thin
  <2> QED BY <1>1, <1>3, <1>4, <2>6 DEF MusicInv
<1>8. CASE ~began
  <2>1. /\ EngineOK(back) /\ Settings(back) = Settings(engine)
        /\ back.phase = engine.phase /\ back.dropInsPaused = engine.dropInsPaused
        /\ Thin(back.slots, engine.slots)
    BY <1>2, <1>5, ResumeIs
  <2>2. /\ EngineOK(gate) /\ Settings(gate) = Settings(engine)
        /\ gate.phase = engine.phase /\ Thin(gate.slots, engine.slots)
        /\ Gated(engine, f) => gate.dropInsPaused = engine.dropInsPaused
    <3>1. CASE Gated(engine, f)
      BY <1>5, <2>1, <3>1
    <3>2. CASE ~Gated(engine, f)
      <4>1. gate = Music!resumeDropIns(back)
        BY <1>5, <3>2
      <4> QED BY <2>1, <3>2, <4>1, ResumeDropInsIs
    <3> QED BY <3>1, <3>2
  <2>3. engine' = Ducked(gate, DuckFor(f))
    BY <1>1, <1>8, Answer
  <2>4. /\ EngineOK(engine') /\ engine'.slots = gate.slots
        /\ engine'.phase = gate.phase
        /\ engine'.dropInsPaused = gate.dropInsPaused
        /\ engine'.enabled = gate.enabled /\ engine'.duck = DuckFor(f)
    BY <1>6, <2>2, <2>3, DuckedIs
  <2>5. gate.enabled = engine.enabled
    BY <2>2, SettingsIs
  <2>6. Gated(engine, f) => Gated(engine, flags)
    BY <1>3, <1>8 DEF Gated
  <2>7. Sound(engine', f, intro, early, TRUE, layers.started)
    BY <1>2, <1>3, <2>2, <2>4, <2>5, <2>6 DEF Sound, Thin, Gated
  <2> QED BY <1>1, <1>3, <1>4, <2>7 DEF MusicInv
<1> QED BY <1>7, <1>8

(* A screen reader comes or goes.                                          *)
LEMMA ScreenReaderStep ==
    ASSUME MusicInv, NEW on \in BOOLEAN, Music!ScreenReader(on)
    PROVE  MusicInv'
<1> DEFINE f == [flags EXCEPT !.reader = on]
           can == Music!allowMusicStart(f)
           back == Music!resume(engine, can)
           gate == IF on THEN Music!pauseDropIns(engine)
                   ELSE IF Music!dropInsGated(f) THEN back
                   ELSE Music!resumeDropIns(back)
<1>1. /\ flags' = f /\ UNCHANGED <<intro, early, hurt>>
      /\ engine' = Ducked(gate, Music!duckFor(f))
      /\ layers' = [layers EXCEPT !.gain = Music!duckFor(f)]
  BY DEF Music!ScreenReader, Ducked
<1>2. /\ Sound(engine, flags, intro, early, hurt, layers.started) /\ EngineOK(engine)
  BY DEF MusicInv, Sound
<1>3. /\ f \in Flags /\ f.active = flags.active /\ f.reader = on
      /\ f.interrupted = flags.interrupted /\ f.announcing = flags.announcing
  BY DEF MusicInv, Flags
<1>4. /\ layers' \in [started : BOOLEAN, gain : {"full", "reader", "effect"}]
      /\ layers'.started = layers.started
  BY <1>1 DEF MusicInv, Music!duckFor
<1>5. /\ can \in BOOLEAN /\ back = Music!resume(engine, can)
      /\ gate = (IF on THEN Music!pauseDropIns(engine)
                 ELSE IF Gated(engine, f) THEN back
                 ELSE Music!resumeDropIns(back))
  BY Answer DEF Music!allowMusicStart
<1>6. DuckFor(f) \in {"full", "reader"}
  BY DEF DuckFor
<1> HIDE DEF f, can, back, gate
<1>7. /\ EngineOK(back) /\ Settings(back) = Settings(engine)
      /\ back.phase = engine.phase /\ back.dropInsPaused = engine.dropInsPaused
      /\ engine.paused \/ ~back.paused
      /\ Thin(back.slots, engine.slots)
      /\ Has(engine.slots, BedK) => Has(back.slots, BedK)
  BY <1>2, <1>5, ResumeIs
<1>8. /\ EngineOK(gate) /\ Settings(gate) = Settings(engine)
      /\ gate.phase = engine.phase /\ Thin(gate.slots, engine.slots)
      /\ engine.paused \/ ~gate.paused
      /\ Has(engine.slots, BedK) => Has(gate.slots, BedK)
      /\ Gated(engine, f) => gate.dropInsPaused /\ No(gate.slots, DropInK)
  <2>1. CASE on
    <3>1. gate = Music!pauseDropIns(engine)
      BY <1>5, <2>1
    <3>2. engine.paused \in BOOLEAN
      BY <1>2, Types DEF EngineOK
    <3> QED BY <1>2, <3>1, <3>2, PauseDropInsIs, Bands DEF Keeps
  <2>2. CASE ~on /\ Gated(engine, f)
    <3>1. engine.dropInsPaused /\ No(engine.slots, DropInK)
      BY <1>2, <1>3, <2>2 DEF Sound, Gated
    <3> QED BY <1>5, <1>7, <2>2, <3>1 DEF Thin
  <2>3. CASE ~on /\ ~Gated(engine, f)
    <3>1. gate = Music!resumeDropIns(back)
      BY <1>5, <2>3
    <3> QED BY <1>7, <2>3, <3>1, ResumeDropInsIs
  <2> QED BY <2>1, <2>2, <2>3
<1>9. engine' = Ducked(gate, DuckFor(f))
  BY <1>1, Answer
<1>10. /\ EngineOK(engine') /\ engine'.slots = gate.slots
       /\ engine'.phase = gate.phase /\ engine'.paused = gate.paused
       /\ engine'.dropInsPaused = gate.dropInsPaused
       /\ engine'.enabled = gate.enabled /\ engine'.duck = DuckFor(f)
       /\ Music!textureCount(engine') = Music!textureCount(gate)
  BY <1>6, <1>8, <1>9, DuckedIs
<1>11. /\ gate.enabled = engine.enabled
       /\ Music!textureCount(gate) = Music!textureCount(engine)
  BY <1>8, SettingsIs
<1>12. Sound(engine', f, intro, early, hurt, layers.started)
  BY <1>2, <1>3, <1>8, <1>10, <1>11 DEF Sound, Thin, Gated, May
<1> QED BY <1>1, <1>3, <1>4, <1>12 DEF MusicInv

(* An announcement begins or ends.                                         *)
LEMMA AnnouncementStep ==
    ASSUME MusicInv, NEW on \in BOOLEAN, Music!Announcement(on)
    PROVE  MusicInv'
<1> DEFINE f == [flags EXCEPT !.announcing = on]
           g == Music!gateDropIns(engine, f)
<1>1. /\ flags' = f /\ UNCHANGED <<layers, intro, early, hurt>>
      /\ engine' = g \/ (engine' = engine
                          /\ (Music!dropInsGated(f) <=> Music!dropInsGated(flags)))
  BY DEF Music!Announcement, Music!dropInsGated
<1>2. /\ Sound(engine, flags, intro, early, hurt, layers.started) /\ EngineOK(engine)
  BY DEF MusicInv, Sound
<1>3. /\ f \in Flags /\ f.active = flags.active /\ f.reader = flags.reader
      /\ f.interrupted = flags.interrupted /\ f.announcing = on
  BY DEF MusicInv, Flags
<1>4. g = Music!gateDropIns(engine, f)
  OBVIOUS
<1> HIDE DEF f, g
<1>5. /\ EngineOK(g) /\ Settings(g) = Settings(engine)
      /\ g.phase = engine.phase /\ g.paused = engine.paused
      /\ Thin(g.slots, engine.slots) /\ Keeps(g.slots, engine.slots)
      /\ Gated(engine, f) => g.dropInsPaused /\ No(g.slots, DropInK)
  BY <1>2, <1>4, GateIs
<1>6. DuckFor(f) = DuckFor(flags)
  BY <1>3 DEF DuckFor
<1>7. CASE engine' = engine /\ (Gated(engine, f) <=> Gated(engine, flags))
  <2>1. Sound(engine', f, intro, early, hurt, layers.started)
    BY <1>2, <1>3, <1>6, <1>7 DEF Sound, May
  <2> QED BY <1>1, <1>3, <2>1 DEF MusicInv
<1>8. CASE engine' = g
  <2>1. /\ g.enabled = engine.enabled /\ g.duck = engine.duck
        /\ Music!textureCount(g) = Music!textureCount(engine)
    BY <1>5, SettingsIs
  <2>2. Has(engine.slots, BedK) => Has(g.slots, BedK)
    BY <1>5, Bands DEF Keeps
  <2>3. Sound(g, f, intro, early, hurt, layers.started)
    BY <1>2, <1>3, <1>5, <1>6, <2>1, <2>2 DEF Sound, Thin, Gated, May
  <2> QED BY <1>1, <1>3, <1>8, <2>3 DEF MusicInv
<1> QED BY <1>1, <1>7, <1>8, Answer

(* The duck of an effect is the layers' own.                               *)
LEMMA EffectStep ==
    ASSUME MusicInv, Music!Effects
    PROVE  MusicInv'
<1>1. /\ UNCHANGED <<engine, flags, intro, early, hurt>>
      /\ layers' = layers \/ \E d \in {"full", "effect", layers.gain} :
                                layers' = [layers EXCEPT !.gain = d]
  BY DEF Music!Effects, Music!EffectAllowed, Music!noteEffectStarted, Music!EffectEnds
<1>2. /\ layers' \in [started : BOOLEAN, gain : {"full", "reader", "effect"}]
      /\ layers'.started = layers.started
  BY <1>1 DEF MusicInv
<1> QED BY <1>1, <1>2 DEF MusicInv

-----------------------------------------------------------------------------
(* What the invariant says.                                                *)

(* The live players of a kind.                                             *)
LEMMA LiveIs ==
    ASSUME EngineOK(engine), NEW kind \in LiveKind
    PROVE  Music!Live(engine, kind)
             = {i \in DOMAIN engine.slots : Of(engine.slots[i], {kind} \X Asset)}
<1>1. engine.slots \in Seq(SlotSet)
  BY Types DEF EngineOK
<1>2. \A i \in DOMAIN engine.slots :
         Of(engine.slots[i], {kind} \X Asset)
           <=> engine.slots[i].kind = kind /\ ~engine.slots[i].stopping
  BY <1>1, SlotFacts, KindIs
<1> QED BY <1>2 DEF Music!Live

(* At most one bed.                                                        *)
LEMMA OneIsCounted ==
    ASSUME EngineOK(engine), One(engine.slots, BedK)
    PROVE  Music!Cardinality(Music!Live(engine, "bed")) <= 1
<1> DEFINE L == Music!Live(engine, "bed")
<1>1. L = {i \in DOMAIN engine.slots : Of(engine.slots[i], BedK)}
  BY LiveIs DEF LiveKind, BedK
<1>2. \A i, j \in L : i = j
  BY <1>1 DEF One
<1> HIDE DEF L
<1>3. CASE L = {}
  <2>1. Cardinality(L) = 0
    BY <1>3, FS_EmptySet
  <2> QED BY <2>1, SameCounts DEF L
<1>4. CASE L # {}
  <2>1. PICK i : L = {i}
    BY <1>2, <1>4
  <2>2. Cardinality(L) = 1
    BY <2>1, FS_Singleton
  <2> QED BY <2>2, SameCounts DEF L
<1> QED BY <1>3, <1>4

(* Textures of at most n kinds, one of each.                               *)
LEMMA TexturesAreCounted ==
    ASSUME EngineOK(engine), NEW n \in 0..4, No(engine.slots, AboveK(n))
    PROVE  Music!Cardinality(Music!Live(engine, "texture")) <= n
<1> DEFINE L == Music!Live(engine, "texture")
           asset == [i \in L |-> engine.slots[i].asset]
<1>0. engine.slots \in Seq(SlotSet)
  BY Types DEF EngineOK
<1>1. L \subseteq DOMAIN engine.slots
      /\ \A i \in L : ~engine.slots[i].stopping /\ engine.slots[i].kind = "texture"
  BY DEF Music!Live
<1>2. IsFiniteSet(L)
  BY <1>0, <1>1, SlotFacts, FS_Subset
<1> HIDE DEF L
<1>3. \A i \in L : engine.slots[i].asset \in 1..4
  BY <1>0, <1>1, SlotFacts, SlotIs DEF LiveSlot
<1>4. \A i \in L : engine.slots[i].asset \in 1..n
  <2> SUFFICES ASSUME NEW i \in L, engine.slots[i].asset > n PROVE FALSE
    BY <1>3
  <2>1. engine.slots[i].asset \in (n + 1)..4
    BY <1>3
  <2>2. Of(engine.slots[i], AboveK(n))
    BY <2>1, <1>1 DEF Of, AboveK
  <2> QED BY <2>2, <1>1 DEF No
<1>5. \A i, j \in L : engine.slots[i].asset = engine.slots[j].asset => i = j
  <2> SUFFICES ASSUME NEW i \in L, NEW j \in L,
                      engine.slots[i].asset = engine.slots[j].asset
               PROVE  i = j
    OBVIOUS
  <2> DEFINE a == engine.slots[i].asset
  <2>1. a \in 1..4 /\ One(engine.slots, TexK(a))
    BY <1>3 DEF EngineOK
  <2>2. Of(engine.slots[i], TexK(a)) /\ Of(engine.slots[j], TexK(a))
    BY <1>1 DEF Of, TexK
  <2> QED BY <2>1, <2>2, <1>1 DEF One
<1>6. asset \in Injection(L, 1..n)
  <2>1. asset \in [L -> 1..n]
    BY <1>4
  <2>2. \A i, j \in L : asset[i] = asset[j] => i = j
    BY <1>5
  <2> HIDE DEF asset
  <2> QED BY <2>1, <2>2, Zenon DEF Injection, IsInjective
<1>7. IsFiniteSet(1..n) /\ Cardinality(1..n) = n
  <2>1. 1 \in Int /\ n \in Int /\ (1 > n => n = 0)
    OBVIOUS
  <2>2. IsFiniteSet(1..n) /\ Cardinality(1..n) = IF 1 > n THEN 0 ELSE n - 1 + 1
    BY <2>1, FS_Interval
  <2> QED BY <2>1, <2>2
<1>8. Cardinality(L) <= Cardinality(1..n)
  BY <1>2, <1>6, <1>7, FS_Injection
<1> QED BY <1>7, <1>8, SameCounts DEF L

(* The invariant implies the property.                                     *)
LEMMA MusicInvIsEnough ==
    ASSUME MusicInv
    PROVE  MusicIsSound
<1>1. /\ Sound(engine, flags, intro, early, hurt, layers.started) /\ EngineOK(engine)
      /\ early \in BOOLEAN /\ hurt \in BOOLEAN /\ flags.active \in BOOLEAN
  BY DEF MusicInv, Sound, Flags
<1>2. /\ engine \in EngineType /\ engine.slots \in Seq(SlotSet)
      /\ engine.enabled \in BOOLEAN
  BY <1>1, Types DEF EngineOK
<1>3. Music!TypeOK
  <2>1. \A i \in DOMAIN engine.slots : engine.slots[i].kind \in Music!Kind
    BY <1>2, SlotFacts, SlotIs
  <2> QED BY <1>1, <1>2, <2>1, Types DEF Music!TypeOK, EngineOK
<1>4. Music!SilentWhenOff
  <2> SUFFICES ASSUME ~flags.active \/ ~engine.enabled
               PROVE  /\ ~layers.started
                      /\ \A i \in DOMAIN engine.slots : engine.slots[i].stopping
    BY DEF Music!SilentWhenOff
  <2>1. ~layers.started /\ No(engine.slots, EveryK)
    BY <1>1, <1>2 DEF Sound, EngineOK
  <2> QED BY <2>1, <1>2, SlotFacts, SlotIs DEF No
<1>5. Music!ReaderIsHeard
  <2>1. Music!dropInsGated(flags) => engine.dropInsPaused /\ Music!Live(engine, "dropin") = {}
    <3>1. Gated(engine, flags) => engine.dropInsPaused /\ No(engine.slots, DropInK)
      BY <1>1 DEF Sound
    <3>2. Music!Live(engine, "dropin")
            = {i \in DOMAIN engine.slots : Of(engine.slots[i], DropInK)}
      BY <1>1, LiveIs DEF LiveKind, DropInK
    <3> QED BY <3>1, <3>2, Answer DEF No
  <2>2. engine.duck = Music!duckFor(flags)
    BY <1>1, Answer DEF Sound
  <2> QED BY <2>1, <2>2 DEF Music!ReaderIsHeard, Music!DropInsKeepQuiet
<1>6. Music!OneBedAfterIntro
  <2>1. ~early => Music!Cardinality(Music!Live(engine, "bed")) <= 1
    BY <1>1, OneIsCounted DEF Sound
  <2>2. intro = "ready" /\ Music!allowMusicStart(flags) /\ ~hurt =>
          Music!Live(engine, "bed") # {}
    <3>1. intro = "ready" /\ May(engine, flags) /\ ~hurt => Has(engine.slots, BedK)
      BY <1>1 DEF Sound
    <3>2. Music!Live(engine, "bed")
            = {i \in DOMAIN engine.slots : Of(engine.slots[i], BedK)}
      BY <1>1, LiveIs DEF LiveKind, BedK
    <3> QED BY <3>1, <3>2, Answer DEF Has
  <2> QED BY <2>1, <2>2 DEF Music!OneBedAfterIntro
<1>7. Music!TexturesAreCapped
  BY <1>1, <1>2, TextureCount, TexturesAreCounted DEF Sound, Music!TexturesAreCapped
<1>8. Music!PlayersHaveTimers
  <2>1. \A i \in DOMAIN engine.slots : engine.slots[i] \in SlotSet
    BY <1>2, SlotFacts
  <2>2. \A i \in DOMAIN engine.slots : engine.slots[i].stopping => engine.slots[i].fades
    BY <2>1, SlotIs, LeavingIs
  <2>3. ~engine.paused => Looped(engine.slots)
    BY <1>1 DEF EngineOK
  <2> QED BY <2>2, <2>3 DEF Music!PlayersHaveTimers, Looped
<1> QED BY <1>3, <1>4, <1>5, <1>6, <1>7, <1>8 DEF MusicIsSound

(* Every step keeps the invariant.                                         *)
LEMMA MusicStep ==
    ASSUME MusicInv, [SoundNext]_soundVars
    PROVE  MusicInv'
<1>1. CASE Music!Next
  <2>1. CASE Music!Timers
    BY <2>1, FadeEndsStep, OneShotEndsStep, LoopTurnsStep, DropInFiresStep,
       RotateFiresStep, DiscoveryEndsStep DEF Music!Timers
  <2>2. CASE Music!Screen
    BY <2>2, IntroStartedStep, IntroReadyStep, ReducedMotionStep, SetProgressStep,
       ReshuffleStartedStep, ReshuffleLandedStep, SetMusicStep DEF Music!Screen
  <2>3. CASE Music!System
    <3>1. PICK on \in BOOLEAN : \/ Music!AppActive(on) \/ Music!Interruption(on)
                                \/ Music!ScreenReader(on) \/ Music!Announcement(on)
      BY <2>3 DEF Music!System
    <3>2. CASE Music!AppActive(on)
      <4>1. on = TRUE \/ on = FALSE
        OBVIOUS
      <4> QED BY <3>2, <4>1, ForegroundStep, BackgroundStep
    <3> QED BY <3>1, <3>2, InterruptionStep, ScreenReaderStep, AnnouncementStep
  <2>4. CASE Music!Effects
    BY <2>4, EffectStep
  <2> QED BY <1>1, <2>1, <2>2, <2>3, <2>4 DEF Music!Next
<1>2. CASE UNCHANGED musicVars
  BY <1>2 DEF musicVars, MusicInv
<1> QED BY <1>1, <1>2 DEF SoundNext, soundVars

(* Music is heard only when it may be and as low as it must be             *)
(* (soundSystem.ts, soundMusic.ts).                                        *)
THEOREM MusicCorrect == SoundSpec => []MusicIsSound
<1>1. SoundInit => MusicInv
  BY MusicInit DEF SoundInit
<1>2. MusicInv /\ [SoundNext]_soundVars => MusicInv'
  BY MusicStep
<1>3. MusicInv => MusicIsSound
  BY MusicInvIsEnough
<1> QED BY <1>1, <1>2, <1>3, PTL DEF SoundSpec
=============================================================================
