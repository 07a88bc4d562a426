------------------------------ MODULE CardMedia ------------------------------
(***************************************************************************)
(* The picture on the back of a card: ConceptCard.tsx with cardBackLayout, *)
(* cardBackMedia and the preloading hook of the stack.  The picture is     *)
(* prefetched by two effects, fetched (on the web) or awaited (on a device)*)
(* by the card, and loaded by its Image; each answers when it likes, and   *)
(* the card's face and its copy are measured meanwhile.                    *)
(*                                                                         *)
(* Lengths are whole pixels; the instances take heights whose fractions    *)
(* below are whole too.                                                    *)
(***************************************************************************)
EXTENDS Integers, FiniteSets, FiniteSetsExt

CONSTANTS
    Picture,    \* [uri, purpose, dark, jpegName, jpegType, w, h] of the cards
    NoPicture,  \* a card without one
    FaceHeight, \* heights a face may be measured with
    TextHeight, \* heights of its copy
    FaceWidth,
    facePad     \* face padding

VARIABLES
    onWeb,    \* Platform.OS = "web"
    item,     \* the card's picture
    decoded, mediaError,
    measured, \* mediaSourceSize and mediaSourceType are those of the picture
    faceH, textH,   \* backFaceH and backTextBlockH, 0 before their layout
    copyH,    \* the height the copy was laid out with last, 0 before
    laidOut,  \* the copy of this card has been laid out
    image,    \* the Image: "none", "loading" or "loaded"
    preloaded, \* preloadedMediaUrls
    prefetches \* prefetches under way that will be heard: "current", "batch"

cardMediaVars == <<onWeb, item, decoded, mediaError, measured, faceH, textH,
                   copyH, laidOut, image, preloaded, prefetches>>

-----------------------------------------------------------------------------
(* cardBackMedia.ts                                                        *)

CARD_BACK_MEDIA_MIN_READING_STRIP == 27
CARD_BACK_MEDIA_CONTAIN_INSET == 16
CARD_BACK_MEDIA_SEAM_OVERLAP == 2
minBand(h) == (h * 28) \div 100

(* resolveCardBackMediaBand; 0 stands for dropImage.                       *)
bandHeight(h, text) ==
    IF h = 0 \/ h - minBand(h) < CARD_BACK_MEDIA_MIN_READING_STRIP + facePad
    THEN 0
    ELSE IF text = 0 THEN minBand(h)
    ELSE Max({minBand(h), h - (text + facePad)})

coverUpscales(p, band) ==  \* coverUpscaleFactor > 1.5
    2 * FaceWidth > 3 * p.w \/ 2 * band > 3 * p.h

purposes(purpose) == IF purpose = "photo" THEN "cover" ELSE "contain"

(* resolveCardBackMediaFit                                                 *)
contentFit(p, known, band) ==
    CASE p.purpose # "unknown" -> purposes(p.purpose)
      [] p.purpose = "unknown" /\ ~(IF known THEN p.jpegType ELSE p.jpegName) ->
            "contain"
      [] p.purpose = "unknown" /\ known /\
            (5 * p.w < 3 * p.h \/ 5 * p.w > 9 * p.h \/ coverUpscales(p, band)) ->
            "contain"
      [] OTHER -> "cover"

(* resolveCardBackMediaFade: where in the band it starts.                  *)
fadeStart(p, h, band) ==
    LET start == band - (band * 40) \div 100
    IN IF p.dark THEN Max({0, start - (h * 15) \div 100}) ELSE start

(* resolveContainMediaBox, in width: the scale is 3/2 at most.             *)
containWidth(p, band) ==
    LET w == FaceWidth - 2 * CARD_BACK_MEDIA_CONTAIN_INSET
        h == Max({0, band - 2 * CARD_BACK_MEDIA_CONTAIN_INSET})
    IN Min({w, (h * p.w) \div p.h, (3 * p.w) \div 2})

-----------------------------------------------------------------------------
(* resolveCardBackMediaPhase                                               *)
phase(p, d, e) ==
    CASE p = NoPicture -> "absent" [] p # NoPicture /\ e -> "failed"
      [] p # NoPicture /\ ~e /\ ~d -> "loading" [] OTHER -> "ready"

(* composeCardBackLayout with the band: whether the layer is shown.        *)
layer(p, d, e, h, text) ==
    phase(p, d, e) \in {"loading", "ready"} /\ bandHeight(h, text) > 0

showMediaLayer == layer(item, decoded, mediaError, faceH, textH)
showVisibleMediaImage == showMediaLayer /\ decoded

readingPadTop ==
    LET band == bandHeight(faceH, textH) IN
    CASE ~showMediaLayer -> 0
      [] showMediaLayer /\ contentFit(item, measured, band) = "contain" -> band
      [] OTHER -> Max({0, band - CARD_BACK_MEDIA_SEAM_OVERLAP})

isPrefetched(p, urls) == p # NoPicture /\ p.uri \in urls

(* The Image is there while the layer is; it keeps what it has loaded.     *)
ImageFollows(same) ==
    image' = IF ~layer(item', decoded', mediaError', faceH', textH') THEN "none"
             ELSE IF image = "none" \/ ~same THEN "loading" ELSE image

(* Mutant: what is prefetched is not trusted on a device either.           *)
ResetAlways(p, urls) ==
    /\ decoded' = (p = NoPicture) /\ mediaError' = FALSE
    /\ measured' = FALSE /\ textH' = 0

(* The layout effect on the picture's URI and on whether it is prefetched. *)
Reset(p, urls) ==
    /\ decoded' = (p = NoPicture \/ (~onWeb /\ isPrefetched(p, urls)))
    /\ mediaError' = FALSE
    /\ measured' = FALSE /\ textH' = 0

-----------------------------------------------------------------------------
Init ==
    /\ onWeb \in BOOLEAN
    /\ item = NoPicture /\ decoded = TRUE /\ mediaError = FALSE
    /\ measured = FALSE /\ faceH = 0 /\ textH = 0 /\ image = "none"
    /\ copyH = 0 /\ laidOut = FALSE
    /\ preloaded = {} /\ prefetches = {}

(* The stack gives the card the picture of another concept, once its width *)
(* is known; the effects of the hook start over.                           *)
ShowCard(p) ==
    /\ p # item /\ item' = p
    /\ Reset(p, preloaded)
    /\ prefetches' = (prefetches \ {"current"})
                       \cup (IF p = NoPicture THEN {} ELSE {"current"})
    /\ laidOut' = FALSE
    /\ UNCHANGED <<onWeb, faceH, copyH, preloaded>> /\ ImageFollows(FALSE)

(* New concepts come: the debounced batch starts anew.                     *)
DeckGrows ==
    /\ prefetches' = prefetches \cup {"batch"}
                       \cup (IF item = NoPicture THEN {} ELSE {"current"})
    /\ UNCHANGED <<onWeb, item, decoded, mediaError, measured, faceH, textH,
                   copyH, laidOut, image, preloaded>>

(* A prefetch answers; urls are those that came.                           *)
Prefetched(which, urls) ==
    /\ which \in prefetches /\ prefetches' = prefetches \ {which}
    /\ which = "current" =>
         item # NoPicture /\ urls \subseteq {item.uri}
    /\ preloaded' = preloaded \cup urls
    /\ UNCHANGED <<onWeb, item, faceH, copyH, laidOut>>
    /\ IF isPrefetched(item, preloaded') # isPrefetched(item, preloaded)
       THEN Reset(item, preloaded')
       ELSE UNCHANGED <<decoded, mediaError, measured, textH>>
    /\ ImageFollows(TRUE)

MediaChanges(d, e, m) ==
    /\ decoded' = d /\ mediaError' = e /\ measured' = m
    /\ UNCHANGED <<onWeb, item, faceH, textH, copyH, laidOut, preloaded,
                   prefetches>>

onMediaLoad ==
    /\ image = "loading"
    /\ MediaChanges(TRUE, FALSE, TRUE) /\ image' = "loaded"
onMediaError ==
    /\ image = "loading"
    /\ MediaChanges(decoded, TRUE, measured) /\ image' = "none"

(* The decode timeout of a device and the fetch of the web, which are set  *)
(* while the picture is neither decoded nor failed.                        *)
Answers(ok) ==
    /\ phase(item, decoded, mediaError) = "loading"
    /\ onWeb \/ ~ok
    /\ MediaChanges(ok, ~ok, measured) /\ ImageFollows(TRUE)

FaceMeasured(h) ==
    /\ h # faceH /\ faceH' = h
    /\ UNCHANGED <<onWeb, item, decoded, mediaError, measured, textH,
                   copyH, laidOut, preloaded, prefetches>>
    /\ ImageFollows(TRUE)

(* The copy is laid out; its onLayout comes if the height is another than  *)
(* before.                                                                 *)
CopyLaidOut(text) ==
    /\ ~laidOut /\ laidOut' = TRUE
    /\ copyH' = text
    /\ textH' = IF text = copyH THEN textH ELSE text
    /\ UNCHANGED <<onWeb, item, decoded, mediaError, measured, faceH,
                   preloaded, prefetches>>
    /\ ImageFollows(TRUE)

Next ==
    \/ \E p \in Picture \cup {NoPicture} : ShowCard(p)
    \/ DeckGrows
    \/ \E which \in {"current", "batch"},
          urls \in SUBSET {p.uri : p \in Picture} : Prefetched(which, urls)
    \/ onMediaLoad \/ onMediaError \/ \E ok \in BOOLEAN : Answers(ok)
    \/ \E h \in FaceHeight : FaceMeasured(h)
    \/ \E text \in TextHeight : CopyLaidOut(text)

Spec == Init /\ [][Next]_cardMediaVars

-----------------------------------------------------------------------------
(* Properties.                                                             *)

(* A picture that is shown stays, unless its Image fails, another card     *)
(* comes or the face leaves it no room; on the web it also goes while it   *)
(* is fetched again because its prefetch has ended.  What is loaded on a   *)
(* device is shown.                                                        *)
ShownStays ==
    [][/\ showVisibleMediaImage /\ ~showVisibleMediaImage' =>
            \/ item' # item \/ mediaError' \/ bandHeight(faceH', textH') = 0
            \/ onWeb /\ preloaded' # preloaded
       /\ image' = "loaded" /\ ~onWeb => showVisibleMediaImage'
      ]_cardMediaVars

(* What has been measured is this card's picture, and under a picture      *)
(* there is always room for a line of copy and the inset, below where the  *)
(* fade ends.                                                              *)
BackIsReadable ==
    /\ measured => decoded
    /\ image # "none" =>
         LET band == bandHeight(faceH, textH) IN
         /\ showMediaLayer
         /\ faceH - readingPadTop >=
              facePad + CARD_BACK_MEDIA_MIN_READING_STRIP
         /\ fadeStart(item, faceH, band) \in 0..band
         /\ containWidth(item, band) \in 1..FaceWidth

(* Not so: a picture that has been loaded is fitted by what was measured.  *)
(* A prefetch that ends later forgets the size that onLoad had measured.   *)
FitIsMeasured ==
    image = "loaded" =>
        contentFit(item, measured, bandHeight(faceH, textH))
          = contentFit(item, TRUE, bandHeight(faceH, textH))
=============================================================================
