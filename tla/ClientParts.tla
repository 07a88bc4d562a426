---------------------------- MODULE ClientParts ----------------------------
(***************************************************************************)
(* The parts of the client around its deck (which is DeckLoading): those   *)
(* that show a card and take what the reader does -- the stack with its    *)
(* motions, how it is drawn and how a card is turned over, the picture on  *)
(* the back, the title and the pattern on the front, the room that the     *)
(* screen gives them, the cue of a reshuffle, the coaching tips, the       *)
(* status line, the sheets, the grade rails, the line and the row around   *)
(* the card, and the reader's preferences.  Its sound is ClientSound.      *)
(*                                                                         *)
(* Each part talks to the others through a few props and callbacks, which  *)
(* its own module lets vary freely.  So it is enough to look at one part   *)
(* at a time: a behaviour is one of the part chosen at its start.          *)
(***************************************************************************)
EXTENDS Integers, FiniteSets

CONSTANTS
    None, MaxCards, MaxComplexity,                         \* CardStack
    LastCard, NoTip,                                       \* Coaching
    Picture, NoPicture, FaceHeight, TextHeight, FaceWidth, facePad,
                                                           \* CardMedia
    Unknown, Message, NoMessage, MaxRetries,               \* Connectivity
    MaxCloses,                                             \* Sheets
    RailWidth, TouchAt, MaxCalls,                          \* GradeRails
    Titles, ColumnWidths, ContentHeight, Measured,         \* FrontTitle
    Hashes, Faces, TitleBoxes, NoTitle,                    \* CardPattern
    Choice, Stored, Junk, MaxWrites,                       \* Preferences
    MaxGrade, MaxCues,                                     \* HomeChrome
    Cards, Turn, Suppress, TapMax, MaxStay,                \* CardFlip
    CardWidth, CardHeight, Frames, DragX, DragY, Reach, ScrollRanges,
                                                           \* CardPose
    gatherMs, minCueMs, statusDelayMs, dealMs, reverseDealMs, crossfadeMs,
    riffleEveryMs, riffleMoveMs, timeoutMs, silhouettes, Full,
                                                           \* ReshuffleCue
    Screens, Texts, Height                                 \* CardLayout

ASSUME ClientAssumption ==
    /\ MaxCards \in Nat /\ MaxComplexity \in Nat \ {0} /\ None \notin Int
    /\ None \notin {"left", "right", "up", "down", "x", "y"}
    /\ None \notin {"gather", "shuffle", "deal", "reverse"}
    /\ None \notin [age : Nat, reduced : BOOLEAN,
                    answer : {None, "deal", "nothing"}, settle : Nat \cup {None}]
    /\ None \notin [token : Nat, elapsed : BOOLEAN]
    /\ LastCard \in Nat
    /\ FaceHeight \cup TextHeight \cup {FaceWidth, facePad} \subseteq Nat \ {0}
    /\ FaceWidth > 32 /\ \A text0 \in TextHeight : text0 >= 27   \* one line
    \* No picture is too thin to be a pixel wide where the face has room for it.
    /\ \A picture0 \in Picture, face0 \in FaceHeight :
          LET least == (face0 * 28) \div 100 IN
          /\ picture0.w \in Nat \ {0} /\ picture0.h \in Nat \ {0}
          /\ face0 - least >= 27 + facePad =>
               (least - 32) * picture0.w >= picture0.h
    /\ {MaxRetries, MaxCalls, MaxWrites, MaxGrade, MaxCues} \subseteq Nat
    /\ MaxCloses \in Nat \ {0} /\ Unknown \notin BOOLEAN /\ NoMessage \notin Message
    /\ Titles # {} /\ Hashes \subseteq Nat /\ Hashes # {} /\ Faces # {}
    /\ \A face0 \in Faces : face0[1] \in Nat \ {0} /\ face0[2] \in Nat \ {0}
    /\ \A box0 \in TitleBoxes : \A side \in 1..4 : box0[side] \in Int
    /\ {Turn, Suppress, TapMax, MaxStay, Reach} \subseteq Nat \ {0}
    /\ None \notin Cards
    /\ {CardWidth, CardHeight, Frames} \subseteq 1..1000     \* in thousandths
    /\ None \notin [dir : {"left", "right", "up", "down"}, at : Nat, fromX : Int,
                    fromY : Int, fades : BOOLEAN, release : Int]
    /\ DragX \cup DragY \subseteq Int /\ ScrollRanges \subseteq Nat
    /\ {gatherMs, minCueMs, statusDelayMs, dealMs, reverseDealMs, crossfadeMs,
        riffleEveryMs, riffleMoveMs, timeoutMs, silhouettes, Full}
         \subseteq Nat \ {0}
    /\ \A of \in {"motion", "sound", "locale", "laterality", "complexity"} :
          Choice[of] \cap {None, Junk} = {}
    /\ Choice.laterality \cup Choice.complexity \subseteq 1..5
    /\ Choice.sound \subseteq [{"sound", "music", "effects"} -> BOOLEAN]
    /\ Screens \subseteq [width : Nat, height : Nat, top : Nat, bottom : Nat]
    /\ \A window0 \in Screens : window0.width >= 240      \* the gutters
    /\ \A text0 \in Texts : \A control \in {"complexity", "laterality", "nav"} :
          Height[text0][control] \in Nat \ {0}

VARIABLES
    part,       \* the part that is looked at
    onWeb,      \* Platform.OS = "web"
    stackDeck, stackView, card, commit, pan, spring, locks, shownBehind, moving,
    reduceMotion, enter, nav, crossed, stayed,
    session, coachView, idle, effects, chip,
    item, decoded, mediaError, measured, faceH, textH, copyH, laidOut, image,
    preloaded, prefetches,
    net, navigatorOnline, told, connected, debounce, ui, retries, overridden,
    message, lineDue, announced, effect, quiet, speaking,
    shown, mounted, slide, titleFocused, title, menuView, initialView, returnTo,
    rowFocus, focus, swapping, skipNextClose, mixClose, heard,
    railGrades, settled, preview, width, finger, calls, reshuffling, landed, deckDealt,
    titleKey, cached, shownTitle, fallbackUp, probing, waiting,
    layer, connector, gate, breathOf, breath, calm,
    key, stored, writes, pref, hydrated, others, intro, url, swap, motion,
    picked, prefFrom, lost,
    start, screen, complexity, urlGrade, status, tip, cue, cueChip, posted,
    modality, press, said, dropped,
    flipDeck, flipped, turn, presented, news, refs, due, dwell, away, held,
    linkQuiet, linkTouch, seen, flipOdd,
    poseX, poseY, home, hand, thumb, back, exit, peer, behind, still, canGoBack,
    poseOdd,
    live, phase, cueSwap, cueStatus, dealt, anim, every, changed,
    window, text, navShown, heights

Stack == INSTANCE CardStack
           WITH deck <- stackDeck, view <- stackView
Coach == INSTANCE Coaching WITH view <- coachView
Media == INSTANCE CardMedia
Network == INSTANCE Connectivity
             WITH inBrowser <- onWeb, nav <- navigatorOnline
Sheet == INSTANCE Sheets WITH byKeyboard <- onWeb, view <- menuView
Rails == INSTANCE GradeRails WITH grades <- railGrades, dealt <- deckDealt
Title == INSTANCE FrontTitle
Pattern == INSTANCE CardPattern
Prefs == INSTANCE Preferences WITH settled <- picked, session <- prefFrom
Chrome == INSTANCE HomeChrome
            WITH session <- urlGrade, chip <- cueChip, nav <- modality
Flip == INSTANCE CardFlip
          WITH deck <- flipDeck, quiet <- linkQuiet, touch <- linkTouch,
               odd <- flipOdd
Pose == INSTANCE CardPose
          WITH x <- poseX, y <- poseY, finger <- thumb, reduceMotion <- still,
               odd <- poseOdd, W <- CardWidth, H <- CardHeight
Reshuffle == INSTANCE ReshuffleCue WITH swap <- cueSwap, status <- cueStatus
Page == INSTANCE CardLayout WITH screen <- window, measured <- heights

stackVars == <<stackDeck, stackView, card, commit, pan, spring, locks,
               shownBehind, moving, reduceMotion, enter, nav, crossed, stayed>>
coachVars == <<session, coachView, idle, effects, chip>>
mediaVars == <<item, decoded, mediaError, measured, faceH, textH, copyH,
               laidOut, image, preloaded, prefetches>>
networkVars == <<net, navigatorOnline, told, connected, debounce, ui, retries,
                 overridden, message, lineDue, announced, effect, quiet,
                 speaking>>
sheetVars == <<shown, mounted, slide, titleFocused, title, menuView,
               initialView, returnTo, rowFocus, focus, swapping, skipNextClose,
               mixClose, heard>>
railVars == <<railGrades, settled, preview, width, finger, calls, reshuffling,
              landed, deckDealt>>
titleVars == <<titleKey, cached, shownTitle, fallbackUp, probing, waiting>>
patternVars == <<layer, connector, gate, breathOf, breath, calm>>
prefVars == <<key, stored, writes, pref, hydrated, others, intro, url, swap,
              motion, picked, prefFrom, lost>>
chromeVars == <<start, screen, complexity, urlGrade, status, tip, cue, cueChip,
                posted, modality, press, said, dropped>>
flipVars == <<flipDeck, flipped, turn, presented, news, refs, due, dwell, away,
              held, linkQuiet, linkTouch, seen, flipOdd>>
poseVars == <<poseX, poseY, home, hand, thumb, back, exit, peer, behind, still,
              canGoBack, poseOdd>>
reshuffleVars == <<live, phase, cueSwap, cueStatus, dealt, anim, every, changed>>
pageVars == <<window, text, navShown, heights>>

-----------------------------------------------------------------------------
Part == {"stack", "coach", "media", "network", "sheets", "rails", "title",
         "pattern", "prefs", "chrome", "flip", "pose", "reshuffle", "page"}
Platforms == {"media", "network", "sheets"}            \* differ on the web

(* What may differ at the start matters to the chosen part alone.          *)
ClientInit ==
    /\ part \in Part
    /\ onWeb \in BOOLEAN /\ (onWeb => part \in Platforms)
    /\ Stack!Init
    /\ part # "stack" => /\ stackDeck.count = 1 /\ stackDeck.complexity = 1
                         /\ ~reduceMotion
    /\ Coach!Init /\ Media!Init /\ Network!Init /\ Sheet!Init
    /\ Rails!Init /\ Title!Init /\ Pattern!Init /\ Prefs!Init /\ Chrome!Init
    /\ Flip!Init /\ Pose!Init /\ Reshuffle!Init /\ Page!Init
    /\ part # "prefs" => key = "complexity" /\ stored = None /\ url.asks = None
    /\ part # "chrome" => start = [url |-> None, web |-> FALSE, reduced |-> FALSE]
    /\ part # "flip" => flipDeck.top = CHOOSE c \in Cards : TRUE
    /\ part # "pose" => /\ ~still /\ ~canGoBack
                        /\ back.range = CHOOSE d \in ScrollRanges : TRUE
    /\ part # "reshuffle" => ~live
    /\ part # "page" => /\ window = CHOOSE w \in Screens : TRUE
                        /\ text = CHOOSE t \in Texts : TRUE

Keeps(of, its) == part # of => UNCHANGED its
OthersRest ==
    /\ UNCHANGED <<part, onWeb>>
    /\ Keeps("stack", stackVars) /\ Keeps("coach", coachVars)
    /\ Keeps("media", mediaVars) /\ Keeps("network", networkVars)
    /\ Keeps("sheets", sheetVars) /\ Keeps("rails", railVars)
    /\ Keeps("title", titleVars) /\ Keeps("pattern", patternVars)
    /\ Keeps("prefs", prefVars) /\ Keeps("chrome", chromeVars)
    /\ Keeps("flip", flipVars) /\ Keeps("pose", poseVars)
    /\ Keeps("reshuffle", reshuffleVars) /\ Keeps("page", pageVars)

ClientNext ==
    \/ part = "stack" /\ Stack!Next /\ OthersRest
    \/ part = "coach" /\ Coach!Next /\ OthersRest
    \/ part = "media" /\ Media!Next /\ OthersRest
    \/ part = "network" /\ Network!Next /\ OthersRest
    \/ part = "sheets" /\ Sheet!Next /\ OthersRest
    \/ part = "rails" /\ Rails!Next /\ OthersRest
    \/ part = "title" /\ Title!Next /\ OthersRest
    \/ part = "pattern" /\ Pattern!Next /\ OthersRest
    \/ part = "prefs" /\ Prefs!Next /\ OthersRest
    \/ part = "chrome" /\ Chrome!Next /\ OthersRest
    \/ part = "flip" /\ Flip!Next /\ OthersRest
    \/ part = "pose" /\ Pose!Next /\ OthersRest
    \/ part = "reshuffle" /\ Reshuffle!Next /\ OthersRest
    \/ part = "page" /\ Page!Next /\ OthersRest

clientVars == <<part, onWeb, stackVars, coachVars, mediaVars, networkVars,
                sheetVars, railVars, titleVars, patternVars, prefVars,
                chromeVars, flipVars, poseVars, reshuffleVars, pageVars>>
ClientSpec == ClientInit /\ [][ClientNext]_clientVars

-----------------------------------------------------------------------------
(* Properties: those of the parts, and several together where one question *)
(* is asked of a part.  Only the chosen part moves, so that an invariant of *)
(* another one holds as it did at the start.                                *)

(* A motion of the stack ends on the card that it uncovered and commits    *)
(* from the one it began on, and the stack comes to rest (ConceptCardStack *)
(* with cardSwipe.ts).                                                     *)
StackIsSound ==
    /\ [](Stack!TypeOK /\ Stack!ComesToRest)
    /\ Stack!UncoversWhatComes /\ Stack!CommitsOnItsCard

(* Frame by frame, what is seen of a motion goes on without a jump from    *)
(* the drag before it to the card after it, and a card does not leap when  *)
(* it takes over from the scroll of its back (cardSwipe.ts).               *)
PoseLandsAsItLooks ==
    /\ [](part = "pose" => Pose!LandsAsItLooks /\ Pose!NothingElseIsSeen)
    /\ Pose!HandoffIsGentle
PoseIsSound == PoseLandsAsItLooks /\ Pose!TurnsSmoothly

(* The face that takes presses is the one that is seen, its time is told   *)
(* as its own, and a link does not turn it over (cardFlip.ts,              *)
(* flipSuppress.ts, ConceptCardStack).                                     *)
FlipIsSound == Flip!FlipIsSound

(* A picture that is shown stays, and leaves its copy room, whichever of   *)
(* prefetch, fetch, load, timeout and layout comes first (ConceptCard).    *)
BackStaysReadable == []Media!BackIsReadable /\ Media!ShownStays

(* A title on screen is well set and set once (conceptFrontTitle.ts), and  *)
(* the glow of the pattern behind it runs only on a card that lies still   *)
(* and clear of it (PatternLayer, useConnectorPulse).                      *)
FrontIsSound ==
    /\ [](Title!TitleIsWellSet /\ (part = "pattern" => Pattern!PatternIsSound))
    /\ Title!TitleNeverJumps

(* The card that the screen makes room for is the one that the stack and   *)
(* the cue draw, and it fits between its gaps, whatever has been measured  *)
(* of the screen (cardLayout.ts, practiceLayout.ts, lateralityChrome.ts).  *)
CardFitsItsScreen == part = "page" => Page!CardFitsItsScreen

(* A reshuffle is never dark, exchanges the card out of sight and lands    *)
(* without a jump, however late the answer (LateralityReshuffle).          *)
CueIsSound == Reshuffle!CueIsSound

(* What is said around the card: the tip offered is the first one that is  *)
(* not done with, at rest it is shown on its own card, and the next one    *)
(* has its timer; the status line ends on what the network is, and what it *)
(* says is heard; the grade of the URL is announced once, a cue never      *)
(* stays, and the row of buttons does what it says (discoveryCoaching.ts,  *)
(* useConnectivity, DeckStatusLine, ComplexityCue, index.tsx).             *)
MessagesAreSound ==
    /\ part = "coach" => Coach!CoachingIsSound
    /\ part = "network" =>
         Network!OfflineLineSettles /\ Network!SpokenStatusIsQuiet
    /\ part = "chrome" => Chrome!ChromeIsSound

(* Sheets: see the module.                                                 *)
SheetsAreSound == Sheet!TypeOK /\ Sheet!SheetsAreSound

(* Grade rails: see the module.                                            *)
RailsAreSound == Rails!RailsAreSound

(* What is stored is what the reader settled for, and nothing loaded late  *)
(* overwrites it (the storage modules and index.tsx).                      *)
PreferencesAreKept == Prefs!PreferencesAreKept
=============================================================================
