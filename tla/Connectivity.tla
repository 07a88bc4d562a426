----------------------------- MODULE Connectivity -----------------------------
(***************************************************************************)
(* The offline line of the deck screen: useConnectivity, which follows     *)
(* NetInfo and, on the web, the browser; connectivityStatus, the reducer   *)
(* that retries share; and DeckStatusLine, which announces a status and    *)
(* keeps the sound quiet meanwhile.                                        *)
(*                                                                         *)
(* NetInfo and the browser change independently, and what they tell is     *)
(* heard later, with the state there is then.                              *)
(***************************************************************************)
EXTENDS Naturals, FiniteSets

CONSTANTS
    Unknown,    \* isConnected is null
    Message,    \* status copy that is not the offline line
    NoMessage,
    MaxRetries  \* bound: retries under way

VARIABLES
    inBrowser,  \* the browser's events and navigator.onLine are there
    net, nav,   \* NetInfo's isConnected and navigator.onLine
    told,       \* what has been told and not heard: "netinfo", "offline"
    connected, debounce,  \* connectedRef, and whether the timer is set
    ui,         \* ConnectivityUiState
    retries,    \* Retries of the offline line under way
    overridden, \* a retry succeeded since the network was last heard (history)
    message,    \* what the chrome's resolver gives the line
    lineDue,    \* the line's effects have not run since its props changed
    announced,  \* announcedStatusRef, and announcedOfflineRef
    effect,     \* the announcement whose clean-up is pending, or NoMessage
    quiet,      \* announcementActive of the sound system
    speaking    \* what the screen reader speaks (history)

network == <<inBrowser, net, nav, told>>
hook == <<connected, debounce, ui, retries, overridden>>
line == <<message, announced, effect, quiet, speaking>>
connectivityVars == <<network, hook, line, lineDue>>

OfflineLine == "offline"

resolveIsConnected(netInfo, navigator) ==
    IF netInfo \in BOOLEAN THEN netInfo ELSE navigator # FALSE

-----------------------------------------------------------------------------
(* reduceConnectivityUi                                                    *)

Online == [offline |-> FALSE, retrying |-> FALSE, shouldAnnounce |-> FALSE]
setOffline(s) == [offline |-> TRUE, retrying |-> FALSE,
                  shouldAnnounce |-> s.shouldAnnounce \/ ~s.offline]
retry(s) == [s EXCEPT !.retrying = s.offline]
retryFailed(s) ==
    IF s.offline \/ s.retrying THEN [Online EXCEPT !.offline = TRUE] ELSE s
announceConsumed(s) == [s EXCEPT !.shouldAnnounce = FALSE]

Shows(s) == ui' = s /\ lineDue' = (lineDue \/ s # ui)

-----------------------------------------------------------------------------
Init ==
    /\ inBrowser \in BOOLEAN
    /\ net = TRUE /\ nav = (IF inBrowser THEN TRUE ELSE Unknown)
    /\ told = {"netinfo"}
    /\ connected = TRUE /\ debounce = FALSE /\ ui = Online
    /\ retries = 0 /\ overridden = FALSE
    /\ message = NoMessage /\ lineDue = TRUE
    /\ announced = [status |-> NoMessage, offline |-> FALSE]
    /\ effect = NoMessage /\ quiet = FALSE /\ speaking = NoMessage

NetChanges(state) ==
    /\ net # state /\ net' = state
    /\ told' = told \cup {"netinfo"}
    /\ UNCHANGED <<inBrowser, nav, hook, line, lineDue>>

(* Mutant: the debounce of an offline that has passed goes on.             *)
ConnectedKeepsTimer ==
    connected' = TRUE /\ Shows(Online) /\ UNCHANGED debounce

(* applyConnected(true)                                                    *)
Connected == connected' = TRUE /\ debounce' = FALSE /\ Shows(Online)

(* applyConnected                                                          *)
applyConnected(c) ==
    /\ overridden' = FALSE
    /\ CASE c -> Connected
         [] ~c /\ nav = TRUE -> UNCHANGED <<connected, debounce, ui, lineDue>>
         [] ~c /\ nav # TRUE /\ ~connected /\ ~debounce ->
              Shows(setOffline(ui)) /\ UNCHANGED <<connected, debounce>>
         [] OTHER -> /\ connected' = FALSE /\ debounce' = TRUE
                     /\ UNCHANGED <<ui, lineDue>>

(* NetInfo's listener, and its answer to the question that the browser's   *)
(* offline event asks.                                                     *)
Heard(which) ==
    /\ which \in told /\ told' = told \ {which}
    /\ applyConnected(IF which = "netinfo" THEN resolveIsConnected(net, nav)
                      ELSE resolveIsConnected(net, FALSE))
    /\ UNCHANGED <<inBrowser, net, nav, retries, line>>

(* The browser's events: online is trusted at once, offline asks NetInfo.  *)
BrowserChanges ==
    /\ inBrowser /\ nav' = ~nav
    /\ IF nav'
       THEN /\ connected' = TRUE /\ debounce' = FALSE /\ Shows(Online)
            /\ overridden' = FALSE /\ UNCHANGED told
       ELSE /\ told' = told \cup {"offline"}
            /\ UNCHANGED <<connected, debounce, ui, overridden, lineDue>>
    /\ UNCHANGED <<inBrowser, net, retries, line>>

DebounceFires ==
    /\ debounce /\ debounce' = FALSE
    /\ IF nav = TRUE THEN connected' = TRUE /\ UNCHANGED <<ui, lineDue>>
       ELSE Shows(setOffline(ui)) /\ UNCHANGED connected
    /\ UNCHANGED <<network, retries, overridden, line>>

(* onOfflineRetry, pressed on a line whose effects have run, and the       *)
(* answer of the load it started.                                          *)
beginRetry ==
    /\ ui.offline /\ ~lineDue /\ retries < MaxRetries
    /\ Shows(retry(ui)) /\ retries' = retries + 1
    /\ UNCHANGED <<network, connected, debounce, overridden, line>>

RetryEnds(ok) ==
    /\ retries > 0 /\ retries' = retries - 1
    /\ Shows(IF ok THEN Online ELSE retryFailed(ui))
    /\ overridden' = (overridden \/ ok)
    /\ UNCHANGED <<network, connected, debounce, line>>

-----------------------------------------------------------------------------
(* DeckStatusLine.                                                         *)

MessageChanges(m) ==
    /\ m # message /\ message' = m /\ lineDue' = TRUE
    /\ UNCHANGED <<network, hook, announced, effect, quiet, speaking>>

(* What the two effects announce now, or NoMessage.                        *)
Announcement ==
    CASE ui.offline /\ ui.shouldAnnounce /\ ~announced.offline -> OfflineLine
      [] ~ui.offline /\ message # announced.status -> message
      [] OTHER -> NoMessage

(* The effects run: those whose dependencies changed are cleaned up, which *)
(* ends their announcement, before the new one begins.  The offline line   *)
(* is consumed at once, and that changes a dependency of its own effect.   *)
LineEffects ==
    /\ lineDue
    /\ announced' = [status |-> IF ui.offline THEN NoMessage ELSE message,
                     offline |-> ui.offline /\ (announced.offline \/
                                                ui.shouldAnnounce)]
    /\ effect' = Announcement
    /\ quiet' = (Announcement # NoMessage \/ (effect = NoMessage /\ quiet))
    /\ speaking' = IF Announcement # NoMessage THEN Announcement ELSE speaking
    /\ IF Announcement = OfflineLine
       THEN Shows(announceConsumed(ui))
       ELSE lineDue' = FALSE /\ UNCHANGED ui
    /\ UNCHANGED <<network, connected, debounce, retries, overridden, message>>

(* The sound system's own limit, by when the reader has spoken.            *)
SpeechEnds ==
    /\ speaking # NoMessage /\ speaking' = NoMessage /\ quiet' = FALSE
    /\ UNCHANGED <<network, hook, message, announced, effect, lineDue>>

Next ==
    \/ \E state \in {TRUE, FALSE, Unknown} : NetChanges(state)
    \/ BrowserChanges
    \/ \E which \in {"netinfo", "offline"} : Heard(which)
    \/ DebounceFires \/ beginRetry \/ \E ok \in BOOLEAN : RetryEnds(ok)
    \/ \E m \in Message \cup {NoMessage} : MessageChanges(m)
    \/ LineEffects \/ SpeechEnds

Spec == Init /\ [][Next]_connectivityVars

-----------------------------------------------------------------------------
(* Properties.                                                             *)

(* When everything that was told has been heard and no timer runs, the     *)
(* offline line says what the network is -- unless a retry has got through *)
(* since; no retry is shown that is not under way, and the line announces  *)
(* the next time that the network goes.                                    *)
OfflineLineSettles ==
    told = {} /\ ~debounce =>
        /\ ui.offline => ~resolveIsConnected(net, nav) /\ nav # TRUE
        /\ ~ui.offline =>
             overridden \/ nav = TRUE \/ resolveIsConnected(net, nav)
        /\ ui.retrying => retries > 0
        /\ ~lineDue /\ announced.offline => ui.offline

(* While a status is spoken and stands, the sound is quiet; not so while   *)
(* the offline line is spoken.                                             *)
SpokenStatusIsQuiet ==
    ~lineDue /\ speaking \in Message /\ effect = speaking => quiet

(* Not so for the offline line: while anything is spoken that still stands, *)
(* the sound is quiet.                                                      *)
SpokenIsQuiet ==
    /\ SpokenStatusIsQuiet
    /\ ~lineDue /\ speaking = OfflineLine /\ ui.offline => quiet
=============================================================================
