----------------------------- MODULE FrontTitle -----------------------------
(* The title on the front of a card: how it is wrapped, shrunk and, at last,  *)
(* hyphenated (lib/conceptFrontTitle.ts), and how a native card comes to show *)
(* it (components/ConceptCard.tsx): the words are measured once by an         *)
(* invisible probe text, whose result every card shares through a cache; when *)
(* the probe does not answer in 100 ms a title laid out with approximate      *)
(* widths is shown and kept.  A title is the sequence of its words' lengths;  *)
(* a width is counted in thousandths of a pixel, as every letter is as wide   *)
(* as `per` thousandths of the font size.                                     *)
EXTENDS Integers, SequencesExt

CONSTANTS
    Titles,         \* titles, each a nonempty sequence of word lengths
    ColumnWidths,   \* widths of the title's column in px, 0 before the layout
    ContentHeight,  \* height in px of the face inside its padding
    Measured        \* per mille of the font size: true width of a letter

Slots == {"front", "behind"}
Approximate == 527          \* CONCEPT_FRONT_TITLE_CHAR_WIDTH_RATIO
MaxFont == 32
MinFont == 24
MaxLines == 4
NoWrap == <<>>
NoLayout == [how |-> "none"]

VARIABLES
    titleKey,       \* [Slots -> <<title, column width>>]: nativeTitleMeasureCacheKey
    cached,         \* keys in nativeTitleLayoutCache
    shownTitle,     \* [Slots -> NoLayout or how it was measured]: nativeTitleLayout
    fallbackUp,     \* [Slots -> BOOLEAN]: nativeFallbackVisibleRef
    probing,        \* [Slots -> BOOLEAN]: an onTextLayout is still to come
    waiting         \* [Slots -> BOOLEAN]: the fallback timer runs

frontTitleVars == <<titleKey, cached, shownTitle, fallbackUp, probing, waiting>>

---------------------------------------------------------------------------
(* The layout of a title *)

Letters(lengths) == FoldLeft(+, 0, lengths)
Wide(letters, size, per) == letters * size * per
Fits(letters, size, per, width) == Wide(letters, size, per) <= width * 1000

(* The mutant of wrapTitleAtSpaces forgets the space between two words.       *)
wrapTitleUnspaced(words, width, size, per) ==
    IF \E i \in DOMAIN words : ~Fits(words[i], size, per, width) THEN NoWrap
    ELSE FoldLeft(
           LAMBDA lines, word :
               IF lines # <<>> /\ Fits(Last(lines) + word, size, per, width)
                 THEN Front(lines) \o <<Last(lines) + 1 + word>>
                 ELSE Append(lines, word),
           <<>>, words)

(* Greedy wrap at spaces; NoWrap when a word alone is too wide.               *)
wrapTitleAtSpaces(words, width, size, per) ==
    IF \E i \in DOMAIN words : ~Fits(words[i], size, per, width) THEN NoWrap
    ELSE FoldLeft(
           LAMBDA lines, word :
               IF lines # <<>> /\ Fits(Last(lines) + 1 + word, size, per, width)
                 THEN Front(lines) \o <<Last(lines) + 1 + word>>
                 ELSE Append(lines, word),
           <<>>, words)

(* One word cut into the longest pieces that fit with their hyphen; the last  *)
(* piece has none.  A piece is never empty, however narrow the column.        *)
hyphenateWord(length, width, size, per) ==
    LET cut(rest) == LET most == ((width * 1000) \div (size * per)) - 1
                     IN  IF most < 1 THEN 1 ELSE IF most < rest THEN most ELSE rest - 1
        pieces[rest \in 0..length] ==
            IF rest = 0 THEN <<>>
            ELSE IF Fits(rest, size, per, width) \/ length < 2 THEN <<rest>>
            ELSE <<cut(rest)>> \o pieces[rest - cut(rest)]
    IN  pieces[length]

(* Lines are their lengths, hyphens included; a word that does not fit starts *)
(* a line of its own and the words after it go on behind its last piece.      *)
wrapTitleWithHyphens(words, width, size, per) ==
    FoldLeft(
        LAMBDA lines, word :
            IF ~Fits(word, size, per, width)
              THEN LET p == hyphenateWord(word, width, size, per)
                   IN  lines \o [i \in DOMAIN p |-> IF i < Len(p) THEN p[i] + 1 ELSE p[i]]
              ELSE IF lines # <<>> /\ Fits(Last(lines) + 1 + word, size, per, width)
                THEN Front(lines) \o <<Last(lines) + 1 + word>>
                ELSE Append(lines, word),
        <<>>, words)

(* The largest size at which the words wrap in at most four lines; else the   *)
(* smallest at which they wrap at all; else hyphens, at the smallest size.    *)
layoutConceptFrontTitle(words, width, per) ==
    LET wrapped(size) == wrapTitleAtSpaces(words, width, size, per)
        short == {size \in MinFont..MaxFont :
                     wrapped(size) # NoWrap /\ Len(wrapped(size)) <= MaxLines}
    IN  IF width = 0 THEN [size |-> MaxFont, lines |-> <<Letters(words) + Len(words) - 1>>]
        ELSE IF short # {} THEN LET size == Max(short) IN [size |-> size, lines |-> wrapped(size)]
        ELSE IF wrapped(MinFont) # NoWrap THEN [size |-> MinFont, lines |-> wrapped(MinFont)]
        ELSE [size |-> MinFont, lines |-> wrapTitleWithHyphens(words, width, MinFont, per)]

(* The band above the title puts it low on the face, yields to a tall block,  *)
(* and shows at most four whole lines of a longer one; the one below keeps    *)
(* 48 px while they are there.                                                *)
lineHeight(layout) == (layout.size * 115 + 50) \div 100
blockHeight(layout) == Len(layout.lines) * lineHeight(layout)
viewportHeight(layout) == Min({blockHeight(layout), MaxLines * lineHeight(layout)})

topSpacer(layout) ==
    IF Len(layout.lines) > MaxLines THEN Max({0, ContentHeight - viewportHeight(layout)})
    ELSE Min({(ContentHeight * 47 + 50) \div 100, Max({0, ContentHeight - blockHeight(layout) - 48})})

bottomSpacer(layout) ==
    Min({48, Max({0, ContentHeight - blockHeight(layout) - topSpacer(layout)})})

---------------------------------------------------------------------------
(* How a native card comes to show it *)

Width(c) == titleKey[c][2]

(* The effects of a render with another title, column or text scale: a cached *)
(* layout is taken; else the title is hidden, a probe is laid out and the     *)
(* timer is armed.  Nothing is asked before the face has a width.             *)
Rekeyed(c, key) ==
    LET found == key \in cached
    IN  /\ titleKey' = [titleKey EXCEPT ![c] = key]
        /\ shownTitle' = [shownTitle EXCEPT ![c] =
              IF found THEN [how |-> "probe", key |-> key] ELSE NoLayout]
        /\ fallbackUp' = [fallbackUp EXCEPT ![c] = FALSE]
        /\ probing' = [probing EXCEPT ![c] = key[2] > 0 /\ ~found]
        /\ waiting' = [waiting EXCEPT ![c] = key[2] > 0 /\ ~found]

Rekey(c) ==
    /\ \E title \in Titles, width \in ColumnWidths :
          <<title, width>> # titleKey[c] /\ Rekeyed(c, <<title, width>>)
    /\ UNCHANGED cached

(* The mutant of TextLayout lets a late answer replace what is shown.          *)
TextLayoutReplaces(c) ==
    /\ probing[c] /\ probing' = [probing EXCEPT ![c] = FALSE]
    /\ cached' = cached \cup {titleKey[c]}
    /\ shownTitle' = [shownTitle EXCEPT ![c] = [how |-> "probe", key |-> titleKey[c]]]
    /\ UNCHANGED <<titleKey, fallbackUp, waiting>>

(* onTextLayout of the probe: the first card to measure a key fills the cache *)
(* and shows the result, unless it already shows the fallback.  A card whose  *)
(* key was measured by another one in the meantime does nothing.              *)
TextLayout(c) ==
    /\ probing[c] /\ probing' = [probing EXCEPT ![c] = FALSE]
    /\ cached' = cached \cup {titleKey[c]}
    /\ shownTitle' = IF titleKey[c] \in cached \/ fallbackUp[c] THEN shownTitle
                     ELSE [shownTitle EXCEPT ![c] = [how |-> "probe", key |-> titleKey[c]]]
    /\ UNCHANGED <<titleKey, fallbackUp, waiting>>

(* 100 ms without an answer: the approximate layout, for good, unless the key *)
(* is cached by now.                                                          *)
Timeout(c) ==
    /\ waiting[c] /\ waiting' = [waiting EXCEPT ![c] = FALSE]
    /\ LET falls == titleKey[c] \notin cached /\ shownTitle[c] = NoLayout
       IN  /\ shownTitle' = IF falls THEN [shownTitle EXCEPT ![c] =
                                              [how |-> "approximate", key |-> titleKey[c]]]
                            ELSE shownTitle
           /\ fallbackUp' = [fallbackUp EXCEPT ![c] = @ \/ falls]
    /\ UNCHANGED <<titleKey, cached, probing>>

Init ==
    /\ titleKey = [c \in Slots |-> <<CHOOSE t \in Titles : TRUE, 0>>]
    /\ cached = {} /\ shownTitle = [c \in Slots |-> NoLayout]
    /\ fallbackUp = [c \in Slots |-> FALSE]
    /\ probing = [c \in Slots |-> FALSE] /\ waiting = [c \in Slots |-> FALSE]

Next == \E c \in Slots : Rekey(c) \/ TextLayout(c) \/ Timeout(c)

Spec == Init /\ [][Next]_frontTitleVars

---------------------------------------------------------------------------
LayoutOf(c) ==
    layoutConceptFrontTitle(titleKey[c][1], Width(c),
        IF shownTitle[c].how = "probe" THEN Measured ELSE Approximate)

(* The least number of lines the words can be set in: breaks after some words *)
(* so that every line fits.                                                   *)
LineFits(words, from, to, size, per, width) ==
    Fits(Letters(SubSeq(words, from, to)) + to - from, size, per, width)
CanBeSet(words, breaks, size, per, width) ==
    \A from \in {1} \cup {b + 1 : b \in breaks} :
        LET to == Min({b \in breaks \cup {Len(words)} : b >= from})
        IN  LineFits(words, from, to, size, per, width)

(* What a title on screen looks like, against its definition.  Every line     *)
(* fits the column.  No letter is lost.  A word is hyphenated only when it is *)
(* too wide at the smallest size.  Without hyphens no other break of the      *)
(* words has fewer lines, and a smaller title than the largest has four lines *)
(* or more at the next size.  At most four lines are in sight at once, and a  *)
(* title that fits the face is never pushed out of it.                        *)
TitleIsWellSet ==
    \A c \in Slots : shownTitle[c] # NoLayout =>
        LET words == titleKey[c][1]
            per == IF shownTitle[c].how = "probe" THEN Measured ELSE Approximate
            layout == LayoutOf(c)
            fewer == {breaks \in SUBSET (1..(Len(words) - 1)) :
                         Cardinality(breaks) + 1 < Len(layout.lines)}
            overwide == \E i \in DOMAIN words : ~Fits(words[i], MinFont, per, Width(c))
        IN  /\ \A i \in DOMAIN layout.lines : Fits(layout.lines[i], layout.size, per, Width(c))
            /\ Letters(layout.lines) >= Letters(words)
            /\ Letters(layout.lines) <= Letters(words) + Len(words) + Len(layout.lines)
            /\ ~overwide => /\ Letters(layout.lines) =
                                   Letters(words) + Len(words) - Len(layout.lines)
                            /\ \A b \in fewer : ~CanBeSet(words, b, layout.size, per, Width(c))
            /\ layout.size \in MinFont..(MaxFont - 1) /\ ~overwide =>
                  \A b \in SUBSET (1..(Len(words) - 1)) :
                      Cardinality(b) < MaxLines => ~CanBeSet(words, b, layout.size + 1, per, Width(c))
            /\ blockHeight(layout) <= ContentHeight =>
                  topSpacer(layout) + blockHeight(layout) + bottomSpacer(layout) <= ContentHeight
            /\ Len(layout.lines) > MaxLines =>
                  topSpacer(layout) + MaxLines * lineHeight(layout) >= ContentHeight

(* A title on screen is set once ("first visible frame is final size (no      *)
(* jump)", ConceptCard.tsx:644): it changes only with the title, the column   *)
(* or the text scale.  And a hidden title is being waited for, unless another *)
(* card with the same title and column was measured while this one waited.    *)
TitleNeverJumps ==
    [][\A c \in Slots :
          /\ shownTitle[c] # NoLayout /\ titleKey'[c] = titleKey[c] => shownTitle'[c] = shownTitle[c]
          /\ shownTitle'[c] = NoLayout /\ titleKey'[c][2] > 0 =>
                waiting'[c] \/ titleKey'[c] \in cached']_frontTitleVars

(* Not so without the exception: "if onTextLayout never fires, show approx    *)
(* layout after a short wait" (ConceptCard.tsx:298) misses the card that was  *)
(* beaten to the cache.                                                       *)
HiddenTitleIsWaitedFor ==
    \A c \in Slots : shownTitle[c] = NoLayout /\ Width(c) > 0 => probing[c] \/ waiting[c]
=============================================================================
