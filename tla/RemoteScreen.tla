----------------------------- MODULE RemoteScreen -----------------------------
(***************************************************************************)
(* The screen of a running session in the web client: RemoteScreen         *)
(* (src/client/src/components/RemoteScreen.tsx), with what the agent on    *)
(* Windows does with its events (agent/input/inject_windows.go).           *)
(*                                                                         *)
(* A client has a mouse and a keyboard, or a touch screen and a virtual    *)
(* keyboard (isMobile).  Keys and mouse buttons are physical: they go down *)
(* and up whatever the page hears of it, and the remote machine knows of   *)
(* them what the events told it.                                            *)
(*                                                                         *)
(* Coordinates are left out, except how far a finger is from where it      *)
(* began: 0 is within the 8 px of a drag, 1 within the 10 px of a tap, 2   *)
(* is further.  Wheel, paste and moves change nothing kept here.           *)
(***************************************************************************)
EXTENDS Naturals, FiniteSets

CONSTANTS
    Keys,      \* keys that are no modifiers
    Unknown,   \* those windowsVK has no code for
    MaxHeld    \* bound: keys and buttons held at once

Mods   == {"ctrl", "alt", "meta"}
Button == "left"

ASSUME KeysAssumption == /\ Keys \cap (Mods \cup {Button}) = {} /\ Unknown \subseteq Keys
                         /\ MaxHeld \in Nat

VARIABLES
    isMobile, isLocalMac,   \* what the client is
    shown,          \* RemoteScreen is mounted
    swapCtrlCmd,
    toolbarVisible,
    hideTimer,      \* set
    showDisconnectDlg,
    over,           \* the pointer is over the video
    focus,          \* the video has the keyboard
    held,           \* keys and buttons that are physically down
    down,           \* keys and buttons that are down on the remote machine
    slips,          \* history: the ways in which held and down can have come apart
    fingers,        \* on the video
    touchStart,     \* set
    far,            \* distance of the first finger from it
    longPressTimer, \* set, and running
    strayTimer,     \* a long-press timer runs that longPressTimer no longer names
    prevCentroid,   \* number of fingers it was taken of, 0 for null
    touchDragging,
    twoFingerUsed,
    gesture,        \* history: what the gesture has done so far
    cancelled,      \* history: a touch was cancelled, and no whole gesture made since
    showKb,
    kbFocus,        \* the hidden input has the focus
    activeMods

screenVars  == <<isMobile, isLocalMac, shown>>
toolbarVars == <<swapCtrlCmd, toolbarVisible, hideTimer, showDisconnectDlg>>
handVars    == <<over, focus, held, down, slips>>
touchVars   == <<fingers, touchStart, far, longPressTimer, strayTimer, prevCentroid,
                 touchDragging, twoFingerUsed, gesture, cancelled>>
kbVars      == <<showKb, kbFocus, activeMods>>
vars == <<isMobile, isLocalMac, shown, swapCtrlCmd, toolbarVisible, hideTimer, showDisconnectDlg, over, focus,
          held, down, slips, fingers, touchStart, far, longPressTimer, strayTimer, prevCentroid,
          touchDragging, twoFingerUsed, gesture, cancelled, showKb, kbFocus, activeMods>>

\* The swap is on unless the client is a Mac, for ControlPage passes no platform;
\* the timer of the toolbar runs at once, on a desktop.
Init ==
    /\ isMobile \in BOOLEAN /\ isLocalMac \in BOOLEAN /\ shown = TRUE
    /\ swapCtrlCmd = ~isLocalMac
    /\ toolbarVisible = TRUE /\ hideTimer = ~isMobile /\ showDisconnectDlg = FALSE
    /\ over = FALSE /\ focus = FALSE /\ held = {} /\ down = {} /\ slips = {}
    /\ fingers = 0 /\ touchStart = FALSE /\ far = 0 /\ longPressTimer = FALSE
    /\ strayTimer = FALSE /\ prevCentroid = 0 /\ touchDragging = FALSE /\ twoFingerUsed = FALSE
    /\ gesture = {} /\ cancelled = FALSE
    /\ showKb = FALSE /\ kbFocus = FALSE /\ activeMods = {}

------------------------------------------------------------------------------
(* The agent on Windows: what an event does to the keys that are down.      *)

Swapped(m) == IF ~swapCtrlCmd THEN m
              ELSE {CASE k = "ctrl" -> "meta" [] k = "meta" -> "ctrl" [] OTHER -> k : k \in m}

\* Ctrl+Alt+Delete is SendSAS, and its keyup is dropped.
SecureAttention(k, mods) == k = "Delete" /\ {"ctrl", "alt"} \subseteq mods

\* Slips: a key without a code is pressed; a keyup leaves its modifiers.
HopefulKeyDown(d, k, mods) == IF SecureAttention(k, mods) THEN d ELSE d \cup mods \cup {k}
BareKeyUp(d, k, mods)      == IF SecureAttention(k, mods) THEN d ELSE d \ {k}

\* pressModsDown comes before the look-up of the key, releaseModsUp after it.
KeyDown(d, k, mods) == IF SecureAttention(k, mods) THEN d ELSE d \cup mods \cup ({k} \ Unknown)
KeyUp(d, k, mods) == IF SecureAttention(k, mods) THEN d ELSE d \ ({k} \cup mods)

------------------------------------------------------------------------------
(* Mouse and keyboard.                                                      *)

Desktop == shown /\ ~isMobile
Mobile  == shown /\ isMobile

\* getMods: the modifiers that are down with the event.
GetMods(h) == Swapped(h \cap Mods)

Lose(keys, slip) == slips' = IF keys = {} THEN slips ELSE slips \cup {slip}

\* The pointer comes onto the video, which takes the focus, or moves over it:
\* the timer of the toolbar starts again.
PointerEnters ==
    /\ Desktop /\ ~showDisconnectDlg /\ ~over
    /\ over' = TRUE /\ focus' = TRUE
    /\ hideTimer' = TRUE
    /\ UNCHANGED <<screenVars, swapCtrlCmd, toolbarVisible, showDisconnectDlg, held, down, slips,
                   touchVars, kbVars>>

PointerMoves ==
    /\ Desktop /\ over
    /\ hideTimer' = TRUE
    /\ UNCHANGED <<screenVars, swapCtrlCmd, toolbarVisible, showDisconnectDlg, handVars,
                   touchVars, kbVars>>

\* The pointer leaves the video, which is blurred: keys that go up are not heard.
PointerLeaves ==
    /\ Desktop /\ over
    /\ over' = FALSE /\ focus' = FALSE
    /\ Lose(held \ {Button}, "focus")
    /\ UNCHANGED <<screenVars, toolbarVars, held, down, touchVars, kbVars>>

\* The window goes to the back with the pointer where it is, and comes to the front.
WindowBlurs ==
    /\ Desktop /\ focus
    /\ focus' = FALSE
    /\ Lose(held \ {Button}, "focus")
    /\ UNCHANGED <<screenVars, toolbarVars, over, held, down, touchVars, kbVars>>

WindowFocuses ==
    /\ Desktop /\ over /\ ~focus
    /\ focus' = TRUE
    /\ UNCHANGED <<screenVars, toolbarVars, over, held, down, slips, touchVars, kbVars>>

\* A key goes down, or repeats.  Under the swap a modifier's own event carries
\* the other one, which is pressed with it.
HandleKeyDown(k) ==
    /\ Desktop /\ (k \in held \/ Cardinality(held) < MaxHeld)
    /\ held' = held \cup {k}
    /\ IF focus
       THEN /\ down' = KeyDown(down, k, GetMods(held'))
            /\ Lose(GetMods(held') \ held', "swap")
       ELSE UNCHANGED <<down, slips>>
    /\ UNCHANGED <<screenVars, toolbarVars, over, focus, touchVars, kbVars>>

HandleKeyUp(k) ==
    /\ Desktop /\ k \in held
    /\ held' = held \ {k}
    /\ IF focus
       THEN /\ down' = KeyUp(down, k, GetMods(held'))
            /\ Lose(down' \cap {k}, "sas")
       ELSE UNCHANGED <<down, slips>>
    /\ UNCHANGED <<screenVars, toolbarVars, over, focus, touchVars, kbVars>>

\* A button goes down on the video, and up wherever the pointer then is.
OnMouseDown ==
    /\ Desktop /\ over /\ Button \notin held /\ Cardinality(held) < MaxHeld
    /\ held' = held \cup {Button}
    /\ down' = down \cup {Button}
    /\ focus' = TRUE
    /\ UNCHANGED <<screenVars, toolbarVars, over, slips, touchVars, kbVars>>

OnMouseUp ==
    /\ Desktop /\ Button \in held
    /\ held' = held \ {Button}
    /\ down' = IF over THEN down \ {Button} ELSE down
    /\ Lose(down' \cap {Button}, "button")
    /\ UNCHANGED <<screenVars, toolbarVars, over, focus, touchVars, kbVars>>

\* A double click comes after the two clicks it is made of, as two more of them.
OnDoubleClick ==
    /\ Desktop /\ over /\ Button \notin held
    /\ down' = down \ {Button}
    /\ UNCHANGED <<screenVars, toolbarVars, over, focus, held, slips, touchVars, kbVars>>

------------------------------------------------------------------------------
(* The toolbar and the dialog.                                              *)

\* Something on the toolbar, or the button that shows it, can be clicked.
Reachable == shown /\ ~showDisconnectDlg /\ ~over

HideTimerFires ==
    /\ Desktop /\ hideTimer
    /\ hideTimer' = FALSE
    /\ toolbarVisible' = FALSE
    /\ UNCHANGED <<screenVars, swapCtrlCmd, showDisconnectDlg, handVars, touchVars, kbVars>>

HideToolbar ==
    /\ Reachable /\ toolbarVisible
    /\ toolbarVisible' = FALSE
    /\ UNCHANGED <<screenVars, swapCtrlCmd, hideTimer, showDisconnectDlg, handVars, touchVars, kbVars>>

ShowToolbar ==
    /\ Reachable /\ ~toolbarVisible
    /\ toolbarVisible' = TRUE
    /\ hideTimer' = ~isMobile
    /\ UNCHANGED <<screenVars, swapCtrlCmd, showDisconnectDlg, handVars, touchVars, kbVars>>

SwapTool ==
    /\ Reachable /\ toolbarVisible
    /\ swapCtrlCmd' = ~swapCtrlCmd
    /\ UNCHANGED <<screenVars, toolbarVisible, hideTimer, showDisconnectDlg, handVars, touchVars,
                   kbVars>>

OpenDialog ==
    /\ Reachable /\ toolbarVisible
    /\ showDisconnectDlg' = TRUE
    /\ UNCHANGED <<screenVars, swapCtrlCmd, toolbarVisible, hideTimer, handVars, touchVars, kbVars>>

CloseDialog ==
    /\ shown /\ showDisconnectDlg
    /\ showDisconnectDlg' = FALSE
    /\ UNCHANGED <<screenVars, swapCtrlCmd, toolbarVisible, hideTimer, handVars, touchVars, kbVars>>

------------------------------------------------------------------------------
(* Touch.  A third finger does what the second did and is left out.         *)

\* onTouchStart.  A timer still set is overwritten, not cleared.
FirstFinger ==
    /\ Mobile /\ ~showDisconnectDlg /\ fingers = 0
    /\ fingers' = 1 /\ touchStart' = TRUE /\ far' = 0 /\ touchDragging' = FALSE
    /\ longPressTimer' = TRUE
    /\ strayTimer' = (strayTimer \/ longPressTimer)
    /\ gesture' = {}
    /\ UNCHANGED <<screenVars, toolbarVars, handVars, prevCentroid, twoFingerUsed, cancelled, kbVars>>

SecondFinger ==
    /\ Mobile /\ ~showDisconnectDlg /\ fingers = 1
    /\ fingers' = 2 /\ longPressTimer' = FALSE /\ twoFingerUsed' = TRUE /\ prevCentroid' = 2
    /\ toolbarVisible' = FALSE
    /\ IF showKb THEN showKb' = FALSE /\ kbFocus' = FALSE /\ activeMods' = {} ELSE UNCHANGED kbVars
    /\ UNCHANGED <<screenVars, swapCtrlCmd, hideTimer, showDisconnectDlg, handVars, touchStart,
                   far, strayTimer, touchDragging, gesture, cancelled>>

\* The timer of the finger that is down, or an older one: either clears the timer
\* that longPressTimer names, and is the right button.
LongPressFires(own) ==
    /\ Mobile /\ (IF own THEN longPressTimer ELSE strayTimer)
    /\ longPressTimer' = FALSE
    /\ strayTimer' = (own /\ strayTimer)
    /\ touchStart' = FALSE
    /\ gesture' = gesture \cup {"right"}
    /\ UNCHANGED <<screenVars, toolbarVars, handVars, fingers, far, prevCentroid, touchDragging,
                   twoFingerUsed, cancelled, kbVars>>

\* Slip: a drag does not stop the timer.
RestlessFingerMoves(d) ==
    /\ Mobile /\ fingers = 1
    /\ far' = d
    /\ touchDragging' = (touchDragging \/ (touchStart /\ d > 0))
    /\ prevCentroid' = 1
    /\ gesture' = IF touchDragging' /\ prevCentroid # 0 THEN gesture \cup {"scroll"} ELSE gesture
    /\ UNCHANGED <<screenVars, toolbarVars, handVars, fingers, touchStart, longPressTimer,
                   strayTimer, twoFingerUsed, cancelled, kbVars>>

\* onTouchMove of one finger.  It scrolls by its way from prevCentroid, which is
\* still that of two fingers for the one that stays.
FingerMoves(d) ==
    /\ Mobile /\ fingers = 1
    /\ far' = d
    /\ IF touchStart /\ d > 0 THEN longPressTimer' = FALSE /\ touchDragging' = TRUE
                              ELSE UNCHANGED <<longPressTimer, touchDragging>>
    /\ prevCentroid' = 1
    /\ gesture' = gesture \cup (IF touchDragging' /\ prevCentroid # 0 THEN {"scroll"} ELSE {})
                          \cup (IF touchDragging' /\ prevCentroid = 2 THEN {"jump"} ELSE {})
    /\ UNCHANGED <<screenVars, toolbarVars, handVars, fingers, touchStart, strayTimer,
                   twoFingerUsed, cancelled, kbVars>>

TwoFingersMove ==
    /\ Mobile /\ fingers = 2
    /\ gesture' = IF prevCentroid # 0 THEN gesture \cup {"scroll"} ELSE gesture
    /\ prevCentroid' = 2
    /\ UNCHANGED <<screenVars, toolbarVars, handVars, fingers, touchStart, far, longPressTimer,
                   strayTimer, touchDragging, twoFingerUsed, cancelled, kbVars>>

\* onTouchEnd: a finger goes up; a click, if it is the first and came back near to
\* where it began.  The last one up ends the gesture.
Tap == ~twoFingerUsed /\ touchStart /\ far < 2

TouchEnd ==
    /\ Mobile /\ fingers > 0
    /\ fingers' = fingers - 1
    /\ longPressTimer' = FALSE
    /\ IF Tap THEN gesture' = gesture \cup {"tap"} /\ toolbarVisible' = TRUE
              ELSE UNCHANGED <<gesture, toolbarVisible>>
    /\ IF fingers' = 0
       THEN /\ touchStart' = FALSE /\ far' = 0 /\ prevCentroid' = 0
            /\ touchDragging' = FALSE /\ twoFingerUsed' = FALSE
            /\ cancelled' = (cancelled /\ strayTimer)
       ELSE UNCHANGED <<touchStart, far, prevCentroid, touchDragging, twoFingerUsed, cancelled>>
    /\ UNCHANGED <<screenVars, swapCtrlCmd, hideTimer, showDisconnectDlg, handVars, strayTimer,
                   kbVars>>

\* The system takes the touches over (a notification, an edge gesture): there is
\* no handler.  One at a time, which bounds the timers that run.
TouchCancel ==
    /\ Mobile /\ fingers > 0 /\ ~cancelled
    /\ fingers' = 0 /\ cancelled' = TRUE
    /\ UNCHANGED <<screenVars, toolbarVars, handVars, touchStart, far, longPressTimer, strayTimer,
                   prevCentroid, touchDragging, twoFingerUsed, gesture, kbVars>>

------------------------------------------------------------------------------
(* The virtual keyboard.                                                    *)

\* onBlur: something else is touched, or the system closes the keyboard.
InputBlurs ==
    /\ Mobile /\ kbFocus
    /\ kbFocus' = FALSE /\ showKb' = FALSE /\ activeMods' = {}
    /\ UNCHANGED <<screenVars, toolbarVars, handVars, touchVars>>

\* toggleKeyboard.  It focuses the input in any case; the updater blurs it on
\* closing, and React runs it before that (at once) or after it (when it renders).
ToggleKeyboard ==
    /\ Reachable /\ Mobile /\ toolbarVisible
    /\ showKb' = ~showKb
    /\ IF showKb THEN activeMods' = {} /\ kbFocus' \in BOOLEAN
                 ELSE UNCHANGED activeMods /\ kbFocus' = TRUE
    /\ UNCHANGED <<screenVars, toolbarVars, handVars, touchVars>>

\* A key of the modifier row.  Pressing it takes no focus from the input, so that
\* the row does not go away under the finger.
ModKey == Mobile /\ showKb /\ ~showDisconnectDlg

ToggleModifier(m) ==
    /\ ModKey
    /\ activeMods' = IF m \in activeMods THEN activeMods \ {m} ELSE activeMods \cup {m}
    /\ kbFocus' = TRUE
    /\ UNCHANGED <<screenVars, toolbarVars, handVars, touchVars, showKb>>

\* A key of the row or of the keyboard goes down and up with the latched
\* modifiers, which are then released.
TapKey(k) ==
    LET mods == Swapped(activeMods) IN
    /\ down' = KeyUp(KeyDown(down, k, mods), k, mods)
    /\ activeMods' = {}
    /\ UNCHANGED <<screenVars, toolbarVars, over, focus, held, slips, touchVars, showKb>>

SendSpecialKey(k) == ModKey /\ TapKey(k) /\ kbFocus' = TRUE
TypeKey(k)        == Mobile /\ kbFocus /\ TapKey(k) /\ UNCHANGED kbFocus

------------------------------------------------------------------------------
(* The session ends, by the dialog or by itself, and another one is shown.  *)
(* The remote machine and the hand keep their keys.  A long-press timer     *)
(* outlives the screen (only the toolbar's timer is cleared) and, within    *)
(* 600 ms of the press, sends a right click to the session there is then:   *)
(* that click is left out, and the timer, which names no state of the next  *)
(* screen, with it.                                                         *)

Leave ==
    /\ shown
    /\ shown' = FALSE
    /\ toolbarVisible' = TRUE /\ hideTimer' = FALSE /\ showDisconnectDlg' = FALSE
    /\ over' = FALSE /\ focus' = FALSE /\ held' = {}
    /\ Lose(held, "end")
    /\ fingers' = 0 /\ touchStart' = FALSE /\ far' = 0 /\ longPressTimer' = FALSE
    /\ strayTimer' = FALSE /\ prevCentroid' = 0 /\ touchDragging' = FALSE
    /\ twoFingerUsed' = FALSE /\ gesture' = {} /\ cancelled' = FALSE
    /\ showKb' = FALSE /\ kbFocus' = FALSE /\ activeMods' = {}
    /\ UNCHANGED <<isMobile, isLocalMac, swapCtrlCmd, down>>

NextSession ==
    /\ ~shown
    /\ shown' = TRUE
    /\ swapCtrlCmd' = ~isLocalMac /\ hideTimer' = ~isMobile
    /\ UNCHANGED <<isMobile, isLocalMac, toolbarVisible, showDisconnectDlg, handVars, touchVars, kbVars>>

------------------------------------------------------------------------------

Next ==
    \/ PointerEnters \/ PointerMoves \/ PointerLeaves \/ WindowBlurs \/ WindowFocuses
    \/ \E k \in Keys \cup Mods : HandleKeyDown(k) \/ HandleKeyUp(k)
    \/ OnMouseDown \/ OnMouseUp \/ OnDoubleClick
    \/ HideTimerFires \/ HideToolbar \/ ShowToolbar \/ SwapTool \/ OpenDialog \/ CloseDialog
    \/ FirstFinger \/ SecondFinger \/ TwoFingersMove \/ TouchEnd \/ TouchCancel
    \/ \E own \in BOOLEAN : LongPressFires(own)
    \/ \E d \in 0 .. 2 : FingerMoves(d)
    \/ InputBlurs \/ ToggleKeyboard
    \/ \E m \in Mods : ToggleModifier(m)
    \/ \E k \in Keys : SendSpecialKey(k) \/ TypeKey(k)
    \/ Leave \/ NextSession

Spec == Init /\ [][Next]_vars

------------------------------------------------------------------------------
(* Properties.                                                              *)

\* Types of RemoteScreen's state and of the machine's keys.
TypeOK ==
    /\ {isMobile, isLocalMac, shown, swapCtrlCmd, toolbarVisible, hideTimer, showDisconnectDlg, over, focus}
           \subseteq BOOLEAN
    /\ held \subseteq Keys \cup Mods \cup {Button}
    /\ down \subseteq (Keys \ Unknown) \cup Mods \cup {Button}
    /\ slips \subseteq {"focus", "swap", "sas", "button", "end"}
    /\ fingers \in 0 .. 2 /\ far \in 0 .. 2 /\ prevCentroid \in 0 .. 2
    /\ {touchStart, longPressTimer, strayTimer, touchDragging, twoFingerUsed, cancelled,
        showKb, kbFocus} \subseteq BOOLEAN
    /\ gesture \subseteq {"right", "scroll", "jump", "tap"}
    /\ activeMods \subseteq Mods

\* What is down on the remote machine is down under the hand, whatever keys and
\* buttons overlap and in whatever order they go up, unless the focus was lost,
\* the session ended or a button went up off the video while they were down, or
\* the swap or Ctrl+Alt+Delete was involved.  No virtual key ever stays down.
KeysFollowTheHand == slips = {} => down \subseteq held

\* The long press is that of one finger which has not gone far: the timer is gone
\* once there is a second finger, a drag, a lift or an end of the gesture.
LongPressNeedsAStillFinger ==
    longPressTimer /\ ~cancelled => fingers = 1 /\ touchStart /\ ~touchDragging

\* A gesture is a left or a right click, not both; with two fingers it is never a
\* left click, and only then does it scroll after the right click, or jump.
GestureIsOneThing ==
    ~cancelled =>
        /\ ~ {"tap", "right"} \subseteq gesture
        /\ ~ {"tap", "jump"} \subseteq gesture
        /\ twoFingerUsed => "tap" \notin gesture
        /\ {"right", "scroll"} \subseteq gesture /\ fingers > 0 => twoFingerUsed

\* A latched modifier is one the user sees, so it cannot join a later key unseen.
LatchedModsAreVisible == activeMods # {} => showKb

\* A touch does what it looks like: onTouchStart, onTouchMove, onTouchEnd and the
\* long-press timer agree on what the gesture is, as long as no touch was cancelled
\* since the last whole gesture (there is no handler for that, and its timer fires
\* into what follows), and no latched modifier joins in unseen.
TouchDoesWhatItShows ==
    LongPressNeedsAStillFinger /\ GestureIsOneThing /\ LatchedModsAreVisible
==============================================================================
