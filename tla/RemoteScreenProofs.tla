-------------------------- MODULE RemoteScreenProofs --------------------------
(***************************************************************************)
(* What RemoteScreen promises, for any keys and any number of them held:   *)
(* the remote machine's keys follow the hand, and a touch is what it shows.*)
(***************************************************************************)
EXTENDS RemoteScreen, TLAPS

\* While the video has no focus only a button can be down: a key that went down
\* before must have come up before, for its end will not be heard.
OnlyAButtonUnheard == slips = {} /\ ~focus => down \subseteq {Button}

\* A timer that no variable names is left by a cancelled touch, as are two
\* fingers that never went up.
TimersHaveAFinger ==
    /\ strayTimer => cancelled
    /\ longPressTimer /\ ~cancelled => gesture = {}

FingersAreCounted ==
    /\ fingers = 2 => twoFingerUsed
    /\ prevCentroid = 2 => twoFingerUsed
    /\ twoFingerUsed /\ fingers = 0 => cancelled

\* What the gesture has done says what it may still do.
GestureSoFar ==
    /\ fingers > 0 => "tap" \notin gesture
    /\ "right" \in gesture /\ fingers > 0 => ~touchStart
    /\ "jump" \in gesture /\ fingers > 0 => twoFingerUsed
    /\ "right" \in gesture /\ fingers > 0 /\ ~twoFingerUsed /\ ~cancelled
           => ~touchDragging /\ "scroll" \notin gesture

KeysInv  == KeysFollowTheHand /\ OnlyAButtonUnheard
TouchInv == TouchDoesWhatItShows /\ TimersHaveAFinger /\ FingersAreCounted /\ GestureSoFar
ScreenInv == TypeOK /\ KeysInv /\ TouchInv

\* The parts of TypeOK.
HandTypes ==
    /\ held \subseteq Keys \cup Mods \cup {Button}
    /\ down \subseteq (Keys \ Unknown) \cup Mods \cup {Button}
    /\ slips \subseteq {"focus", "swap", "sas", "button", "end"}

BooleanTypes ==
    /\ {isMobile, isLocalMac, shown, swapCtrlCmd, toolbarVisible, hideTimer, showDisconnectDlg, over, focus}
           \subseteq BOOLEAN
    /\ {touchStart, longPressTimer, strayTimer, touchDragging, twoFingerUsed, cancelled,
        showKb, kbFocus} \subseteq BOOLEAN

TouchTypes ==
    /\ fingers \in 0 .. 2 /\ far \in 0 .. 2 /\ prevCentroid \in 0 .. 2
    /\ gesture \subseteq {"right", "scroll", "jump", "tap"}

ModTypes == activeMods \subseteq Mods

------------------------------------------------------------------------------
(* The agent's keys.                                                        *)

\* The swap turns modifiers into modifiers.
LEMMA SwappedMods ==
    ASSUME NEW m, m \subseteq Mods
    PROVE  Swapped(m) \subseteq Mods
BY DEF Swapped, Mods

\* A key that goes down brings no more than itself, if it has a code, and its modifiers.
LEMMA KeyDownBounded ==
    ASSUME NEW d, NEW k, NEW m
    PROVE  KeyDown(d, k, m) \subseteq d \cup m \cup ({k} \ Unknown)
BY DEF KeyDown

\* A key that goes up takes nothing down.
LEMMA KeyUpShrinks ==
    ASSUME NEW d, NEW k, NEW m
    PROVE  KeyUp(d, k, m) \subseteq d
BY DEF KeyUp

\* A key that goes down and up with the same modifiers leaves nothing.
LEMMA TapLeavesNothing ==
    ASSUME NEW d, NEW k, NEW m
    PROVE  KeyUp(KeyDown(d, k, m), k, m) \subseteq d
BY DEF KeyUp, KeyDown

------------------------------------------------------------------------------
\* The type invariant of the module in parts.
LEMMA TypeOKParts == TypeOK <=> HandTypes /\ BooleanTypes /\ TouchTypes /\ ModTypes
BY DEF TypeOK, HandTypes, BooleanTypes, TouchTypes, ModTypes

\* At the start nothing is held, touched or latched.
LEMMA InitScreenInv == Init => ScreenInv
<1> SUFFICES ASSUME Init PROVE ScreenInv
      OBVIOUS
<1> USE DEF Init
<1>1. TypeOK
  <2>1. (~isMobile) \in BOOLEAN /\ (~isLocalMac) \in BOOLEAN
        OBVIOUS
  <2>2. BooleanTypes
        BY <2>1 DEF BooleanTypes
  <2>3. HandTypes
        BY DEF HandTypes
  <2>4. TouchTypes /\ ModTypes
        BY DEF TouchTypes, ModTypes
  <2> QED
        BY <2>2, <2>3, <2>4, TypeOKParts
<1>2. KeysInv
      BY DEF KeysInv, KeysFollowTheHand, OnlyAButtonUnheard
<1>3. TouchInv
      BY DEF TouchInv, TouchDoesWhatItShows, LongPressNeedsAStillFinger, GestureIsOneThing,
             LatchedModsAreVisible, TimersHaveAFinger, FingersAreCounted, GestureSoFar
<1> QED
      BY <1>1, <1>2, <1>3 DEF ScreenInv

------------------------------------------------------------------------------
(* Types.                                                                   *)

\* A slip that is recorded is one of those that have a name.
LEMMA LoseTypes ==
    ASSUME NEW keys, NEW slip \in {"focus", "swap", "sas", "button", "end"},
           Lose(keys, slip), slips \subseteq {"focus", "swap", "sas", "button", "end"}
    PROVE  slips' \subseteq {"focus", "swap", "sas", "button", "end"}
BY DEF Lose

\* Every step keeps the types of what is held and what is down.
LEMMA HandTypesStep ==
    ASSUME TypeOK, [Next]_vars
    PROVE  HandTypes'
<1> USE DEF TypeOK, HandTypes
<1> USE KeysAssumption
<1>0. ASSUME UNCHANGED <<held, down, slips>>
      PROVE  HandTypes'
      BY <1>0
<1>1. CASE UNCHANGED vars
      BY <1>0, <1>1 DEF vars
<1>2. CASE PointerEnters \/ PointerMoves \/ WindowFocuses
      BY <1>0, <1>2 DEF PointerEnters, PointerMoves, WindowFocuses, handVars
<1>3. CASE PointerLeaves
      BY <1>3, LoseTypes DEF PointerLeaves
<1>4. CASE WindowBlurs
      BY <1>4, LoseTypes DEF WindowBlurs
<1>5. ASSUME NEW k \in Keys \cup Mods, HandleKeyDown(k)
      PROVE  HandTypes'
  <2>1. held' \subseteq Keys \cup Mods \cup {Button}
        BY <1>5 DEF HandleKeyDown
  <2>2. GetMods(held') \subseteq Mods
        BY SwappedMods DEF GetMods
  <2>3. CASE focus
    <3>1. down' = KeyDown(down, k, GetMods(held')) /\ Lose(GetMods(held') \ held', "swap")
          BY <1>5, <2>3 DEF HandleKeyDown
    <3>2. down' \subseteq down \cup Mods \cup ({k} \ Unknown)
          BY <2>2, <3>1, KeyDownBounded
    <3> QED
          BY <2>1, <3>1, <3>2, LoseTypes DEF Mods
  <2>4. CASE ~focus
        BY <1>5, <2>1, <2>4 DEF HandleKeyDown
  <2> QED
        BY <2>3, <2>4
<1>6. ASSUME NEW k \in Keys \cup Mods, HandleKeyUp(k)
      PROVE  HandTypes'
  <2>1. held' \subseteq held
        BY <1>6 DEF HandleKeyUp
  <2>2. down' \subseteq down
        BY <1>6, KeyUpShrinks DEF HandleKeyUp
  <2>3. slips' \subseteq {"focus", "swap", "sas", "button", "end"}
        BY <1>6, LoseTypes DEF HandleKeyUp
  <2> QED
        BY <2>1, <2>2, <2>3
<1>7. CASE OnMouseDown
      BY <1>7 DEF OnMouseDown
<1>8. CASE OnMouseUp
      BY <1>8, LoseTypes DEF OnMouseUp
<1>9. CASE OnDoubleClick
      BY <1>9 DEF OnDoubleClick
<1>10. CASE HideTimerFires \/ HideToolbar \/ ShowToolbar \/ SwapTool \/ OpenDialog \/ CloseDialog
      BY <1>0, <1>10 DEF HideTimerFires, HideToolbar, ShowToolbar, SwapTool, OpenDialog,
                         CloseDialog, handVars
<1>11. CASE FirstFinger \/ SecondFinger \/ TwoFingersMove \/ TouchEnd \/ TouchCancel
      BY <1>0, <1>11 DEF FirstFinger, SecondFinger, TwoFingersMove, TouchEnd, TouchCancel, handVars
<1>12. CASE \/ \E own \in BOOLEAN : LongPressFires(own)
            \/ \E d \in 0 .. 2 : FingerMoves(d)
      BY <1>0, <1>12 DEF LongPressFires, FingerMoves, handVars
<1>13. CASE InputBlurs \/ ToggleKeyboard \/ \E m \in Mods : ToggleModifier(m)
      BY <1>0, <1>13 DEF InputBlurs, ToggleKeyboard, ToggleModifier, handVars
<1>14. ASSUME NEW k \in Keys, SendSpecialKey(k) \/ TypeKey(k)
      PROVE  HandTypes'
  <2>1. down' \subseteq down /\ UNCHANGED <<held, slips>>
        BY <1>14, TapLeavesNothing DEF SendSpecialKey, TypeKey, TapKey
  <2> QED
        BY <2>1
<1>15. CASE Leave
      BY <1>15, LoseTypes DEF Leave
<1>16. CASE NextSession
      BY <1>0, <1>16 DEF NextSession, handVars
<1> QED
      BY <1>1, <1>2, <1>3, <1>4, <1>5, <1>6, <1>7, <1>8, <1>9, <1>10, <1>11, <1>12, <1>13,
         <1>14, <1>15, <1>16 DEF Next

\* Every step keeps the flags Boolean.
LEMMA BooleanTypesStep ==
    ASSUME TypeOK, [Next]_vars
    PROVE  BooleanTypes'
<1> USE DEF TypeOK, BooleanTypes, screenVars, toolbarVars, handVars, touchVars, kbVars
<1>1. CASE UNCHANGED vars
      BY <1>1 DEF vars
<1>2. CASE PointerEnters \/ PointerMoves \/ WindowFocuses \/ PointerLeaves \/ WindowBlurs
      BY <1>2 DEF PointerEnters, PointerMoves, WindowFocuses, PointerLeaves, WindowBlurs
<1>3. ASSUME NEW k \in Keys \cup Mods, HandleKeyDown(k) \/ HandleKeyUp(k)
      PROVE  BooleanTypes'
      BY <1>3 DEF HandleKeyDown, HandleKeyUp
<1>4. CASE OnMouseDown \/ OnMouseUp \/ OnDoubleClick
      BY <1>4 DEF OnMouseDown, OnMouseUp, OnDoubleClick
<1>5. CASE HideTimerFires \/ HideToolbar \/ OpenDialog \/ CloseDialog
      BY <1>5 DEF HideTimerFires, HideToolbar, OpenDialog, CloseDialog
<1>6. CASE ShowToolbar
  <2>1. (~isMobile) \in BOOLEAN
        OBVIOUS
  <2> QED
        BY <1>6, <2>1 DEF ShowToolbar
<1>7. CASE SwapTool
  <2>1. (~swapCtrlCmd) \in BOOLEAN
        OBVIOUS
  <2> QED
        BY <1>7, <2>1 DEF SwapTool
<1>8. CASE FirstFinger
  <2>1. (strayTimer \/ longPressTimer) \in BOOLEAN
        OBVIOUS
  <2> QED
        BY <1>8, <2>1 DEF FirstFinger
<1>9. CASE SecondFinger \/ TwoFingersMove \/ TouchCancel
      BY <1>9 DEF SecondFinger, TwoFingersMove, TouchCancel
<1>10. CASE TouchEnd
  <2>1. (cancelled /\ strayTimer) \in BOOLEAN
        OBVIOUS
  <2> QED
        BY <1>10, <2>1 DEF TouchEnd
<1>11. ASSUME NEW own \in BOOLEAN, LongPressFires(own)
       PROVE  BooleanTypes'
  <2>1. (own /\ strayTimer) \in BOOLEAN
        OBVIOUS
  <2> QED
        BY <1>11, <2>1 DEF LongPressFires
<1>12. ASSUME NEW d \in 0 .. 2, FingerMoves(d)
       PROVE  BooleanTypes'
      BY <1>12 DEF FingerMoves
<1>13. CASE InputBlurs \/ ToggleKeyboard \/ \E m \in Mods : ToggleModifier(m)
  <2>1. (~showKb) \in BOOLEAN
        OBVIOUS
  <2> QED
        BY <1>13, <2>1 DEF InputBlurs, ToggleKeyboard, ToggleModifier
<1>14. ASSUME NEW k \in Keys, SendSpecialKey(k) \/ TypeKey(k)
       PROVE  BooleanTypes'
      BY <1>14 DEF SendSpecialKey, TypeKey, TapKey
<1>15. CASE Leave
      BY <1>15 DEF Leave
<1>16. CASE NextSession
  <2>1. (~isMobile) \in BOOLEAN /\ (~isLocalMac) \in BOOLEAN
        OBVIOUS
  <2> QED
        BY <1>16, <2>1 DEF NextSession
<1> QED
      BY <1>1, <1>2, <1>3, <1>4, <1>5, <1>6, <1>7, <1>8, <1>9, <1>10, <1>11, <1>12, <1>13,
         <1>14, <1>15, <1>16 DEF Next

\* Every step keeps the types of the touch.
LEMMA TouchTypesStep ==
    ASSUME TypeOK, [Next]_vars
    PROVE  TouchTypes' /\ ModTypes'
<1> fingers \in 0 .. 2 /\ far \in 0 .. 2 /\ prevCentroid \in 0 .. 2
      BY DEF TypeOK
<1> gesture \subseteq {"right", "scroll", "jump", "tap"} /\ activeMods \subseteq Mods
      BY DEF TypeOK
<1> USE DEF TouchTypes, ModTypes, touchVars, kbVars
<1>1. CASE UNCHANGED vars
      BY <1>1 DEF vars
<1>2. CASE PointerEnters \/ PointerMoves \/ WindowFocuses \/ PointerLeaves \/ WindowBlurs
      BY <1>2 DEF PointerEnters, PointerMoves, WindowFocuses, PointerLeaves, WindowBlurs
<1>3. ASSUME NEW k \in Keys \cup Mods, HandleKeyDown(k) \/ HandleKeyUp(k)
      PROVE  TouchTypes' /\ ModTypes'
      BY <1>3 DEF HandleKeyDown, HandleKeyUp
<1>4. CASE OnMouseDown \/ OnMouseUp \/ OnDoubleClick
      BY <1>4 DEF OnMouseDown, OnMouseUp, OnDoubleClick
<1>5. CASE HideTimerFires \/ HideToolbar \/ ShowToolbar \/ SwapTool \/ OpenDialog \/ CloseDialog
      BY <1>5 DEF HideTimerFires, HideToolbar, ShowToolbar, SwapTool, OpenDialog, CloseDialog
<1>6. CASE FirstFinger
      BY <1>6 DEF FirstFinger
<1>7. CASE SecondFinger
      BY <1>7 DEF SecondFinger
<1>8. CASE TwoFingersMove
      BY <1>8 DEF TwoFingersMove
<1>16. CASE TouchCancel
      BY <1>16 DEF TouchCancel
<1>9. CASE TouchEnd
  <2>1. fingers' \in 0 .. 2 /\ ModTypes'
        BY <1>9 DEF TouchEnd
  <2>2. far' \in 0 .. 2 /\ prevCentroid' \in 0 .. 2
        BY <1>9 DEF TouchEnd
  <2>3. gesture' \subseteq {"right", "scroll", "jump", "tap"}
        BY <1>9 DEF TouchEnd
  <2> QED
        BY <2>1, <2>2, <2>3
<1>10. ASSUME NEW own \in BOOLEAN, LongPressFires(own)
       PROVE  TouchTypes' /\ ModTypes'
      BY <1>10 DEF LongPressFires
<1>11. ASSUME NEW d \in 0 .. 2, FingerMoves(d)
       PROVE  TouchTypes' /\ ModTypes'
      BY <1>11 DEF FingerMoves
<1>12. CASE InputBlurs \/ ToggleKeyboard \/ \E m \in Mods : ToggleModifier(m)
      BY <1>12 DEF InputBlurs, ToggleKeyboard, ToggleModifier
<1>13. ASSUME NEW k \in Keys, SendSpecialKey(k) \/ TypeKey(k)
       PROVE  TouchTypes' /\ ModTypes'
      BY <1>13 DEF SendSpecialKey, TypeKey, TapKey
<1>14. CASE Leave
      BY <1>14 DEF Leave
<1>15. CASE NextSession
      BY <1>15 DEF NextSession
<1> QED
      BY <1>1, <1>2, <1>3, <1>4, <1>5, <1>6, <1>7, <1>8, <1>9, <1>10, <1>11, <1>12, <1>13,
         <1>14, <1>15, <1>16 DEF Next

\* Every step keeps the type invariant.
LEMMA TypesStep ==
    ASSUME TypeOK, [Next]_vars
    PROVE  TypeOK'
BY HandTypesStep, BooleanTypesStep, TouchTypesStep DEF TypeOK, HandTypes, BooleanTypes, TouchTypes, ModTypes

------------------------------------------------------------------------------
(* The keys.                                                                *)

\* Without a slip nothing that was down is forgotten.
LEMMA LoseSome ==
    ASSUME NEW keys, NEW slip, Lose(keys, slip), slips' = {}
    PROVE  keys = {} /\ slips = {}
BY DEF Lose

\* Every step keeps what is down under the hand.
LEMMA KeysStep ==
    ASSUME TypeOK, KeysInv, [Next]_vars
    PROVE  KeysInv'
<1> USE DEF KeysInv, KeysFollowTheHand, OnlyAButtonUnheard
<1>0. ASSUME UNCHANGED handVars
      PROVE  KeysInv'
      BY <1>0 DEF handVars
<1>1. CASE UNCHANGED vars
      BY <1>0, <1>1 DEF vars, handVars
<1>2. CASE PointerEnters \/ WindowFocuses
      BY <1>2 DEF PointerEnters, WindowFocuses
<1>3. CASE PointerLeaves
      BY <1>3, LoseSome DEF PointerLeaves
<1>4. CASE WindowBlurs
      BY <1>4, LoseSome DEF WindowBlurs
<1>5. ASSUME NEW k \in Keys \cup Mods, HandleKeyDown(k)
      PROVE  KeysInv'
  <2>1. held' = held \cup {k} /\ focus' = focus
        BY <1>5 DEF HandleKeyDown
  <2>2. CASE focus
    <3>1. down' = KeyDown(down, k, GetMods(held')) /\ Lose(GetMods(held') \ held', "swap")
          BY <1>5, <2>2 DEF HandleKeyDown
    <3>2. slips' = {} => GetMods(held') \subseteq held' /\ slips = {}
          BY <3>1, LoseSome
    <3>3. slips' = {} => down' \subseteq down \cup held' \cup {k}
          BY <3>1, <3>2, KeyDownBounded
    <3> QED
          BY <2>1, <2>2, <3>2, <3>3
  <2>3. CASE ~focus
        BY <1>5, <2>1, <2>3 DEF HandleKeyDown
  <2> QED
        BY <2>2, <2>3
<1>6. ASSUME NEW k \in Keys \cup Mods, HandleKeyUp(k)
      PROVE  KeysInv'
  <2>1. held' = held \ {k} /\ focus' = focus
        BY <1>6 DEF HandleKeyUp
  <2>2. down' \subseteq down
        BY <1>6, KeyUpShrinks DEF HandleKeyUp
  <2>3. CASE focus
    <3>1. slips' = {} => down' \cap {k} = {} /\ slips = {}
          BY <1>6, <2>3, LoseSome DEF HandleKeyUp
    <3> QED
          BY <2>1, <2>2, <2>3, <3>1
  <2>4. CASE ~focus
    <3>1. k # Button
          BY KeysAssumption DEF Mods, Button
    <3>2. UNCHANGED <<down, slips>>
          BY <1>6, <2>4 DEF HandleKeyUp
    <3> QED
          BY <2>1, <2>4, <3>1, <3>2
  <2> QED
        BY <2>3, <2>4
<1>7. CASE OnMouseDown
      BY <1>7 DEF OnMouseDown
<1>8. CASE OnMouseUp
      BY <1>8, LoseSome DEF OnMouseUp
<1>9. CASE OnDoubleClick
      BY <1>9 DEF OnDoubleClick
<1>10. CASE \/ PointerMoves \/ HideTimerFires \/ HideToolbar \/ ShowToolbar \/ SwapTool
            \/ OpenDialog \/ CloseDialog
      BY <1>0, <1>10 DEF PointerMoves, HideTimerFires, HideToolbar, ShowToolbar, SwapTool,
                         OpenDialog, CloseDialog
<1>11. CASE FirstFinger \/ SecondFinger \/ TwoFingersMove \/ TouchEnd \/ TouchCancel
      BY <1>0, <1>11 DEF FirstFinger, SecondFinger, TwoFingersMove, TouchEnd, TouchCancel
<1>12. CASE \/ \E own \in BOOLEAN : LongPressFires(own)
            \/ \E d \in 0 .. 2 : FingerMoves(d)
      BY <1>0, <1>12 DEF LongPressFires, FingerMoves
<1>13. CASE InputBlurs \/ ToggleKeyboard \/ \E m \in Mods : ToggleModifier(m)
      BY <1>0, <1>13 DEF InputBlurs, ToggleKeyboard, ToggleModifier
<1>14. ASSUME NEW k \in Keys, SendSpecialKey(k) \/ TypeKey(k)
      PROVE  KeysInv'
  <2>1. down' \subseteq down /\ UNCHANGED <<focus, held, slips>>
        BY <1>14, TapLeavesNothing DEF SendSpecialKey, TypeKey, TapKey
  <2> QED
        BY <2>1
<1>15. CASE Leave
      BY <1>15, LoseSome DEF Leave
<1>16. CASE NextSession
      BY <1>0, <1>16 DEF NextSession
<1> QED
      BY <1>1, <1>2, <1>3, <1>4, <1>5, <1>6, <1>7, <1>8, <1>9, <1>10, <1>11, <1>12, <1>13,
         <1>14, <1>15, <1>16 DEF Next

------------------------------------------------------------------------------
(* The touches.                                                             *)

\* A modifier is latched only while the keyboard that shows it is open.
LEMMA LatchKept ==
    ASSUME LatchedModsAreVisible, [Next]_vars
    PROVE  LatchedModsAreVisible'
<1> USE DEF LatchedModsAreVisible, kbVars
<1>1. CASE UNCHANGED vars
      BY <1>1 DEF vars
<1>2. CASE PointerEnters \/ PointerMoves \/ WindowFocuses \/ PointerLeaves \/ WindowBlurs
      BY <1>2 DEF PointerEnters, PointerMoves, WindowFocuses, PointerLeaves, WindowBlurs
<1>3. ASSUME NEW k \in Keys \cup Mods, HandleKeyDown(k) \/ HandleKeyUp(k)
      PROVE  LatchedModsAreVisible'
      BY <1>3 DEF HandleKeyDown, HandleKeyUp
<1>4. CASE OnMouseDown \/ OnMouseUp \/ OnDoubleClick
      BY <1>4 DEF OnMouseDown, OnMouseUp, OnDoubleClick
<1>5. CASE HideTimerFires \/ HideToolbar \/ ShowToolbar \/ SwapTool \/ OpenDialog \/ CloseDialog
      BY <1>5 DEF HideTimerFires, HideToolbar, ShowToolbar, SwapTool, OpenDialog, CloseDialog
<1>6. CASE FirstFinger \/ SecondFinger \/ TwoFingersMove \/ TouchEnd \/ TouchCancel
      BY <1>6 DEF FirstFinger, SecondFinger, TwoFingersMove, TouchEnd, TouchCancel
<1>7. CASE \/ \E own \in BOOLEAN : LongPressFires(own)
           \/ \E d \in 0 .. 2 : FingerMoves(d)
      BY <1>7 DEF LongPressFires, FingerMoves
<1>8. CASE InputBlurs
      BY <1>8 DEF InputBlurs
<1>9. CASE ToggleKeyboard
      BY <1>9 DEF ToggleKeyboard
<1>10. ASSUME NEW m \in Mods, ToggleModifier(m)
       PROVE  LatchedModsAreVisible'
      BY <1>10 DEF ToggleModifier, ModKey
<1>11. ASSUME NEW k \in Keys, SendSpecialKey(k) \/ TypeKey(k)
       PROVE  LatchedModsAreVisible'
      BY <1>11 DEF SendSpecialKey, TypeKey, TapKey
<1>12. CASE Leave \/ NextSession
      BY <1>12 DEF Leave, NextSession
<1> QED
      BY <1>1, <1>2, <1>3, <1>4, <1>5, <1>6, <1>7, <1>8, <1>9, <1>10, <1>11, <1>12 DEF Next

\* All that onTouchStart, onTouchMove, onTouchEnd and the timer keep of a touch.
FingersInv == /\ LongPressNeedsAStillFinger /\ GestureIsOneThing
              /\ TimersHaveAFinger /\ FingersAreCounted /\ GestureSoFar

\* Every step keeps the touch one gesture, its fingers counted and its timer owned.
LEMMA FingersStep ==
    ASSUME TypeOK, FingersInv, [Next]_vars
    PROVE  FingersInv'
<1> USE DEF FingersInv, LongPressNeedsAStillFinger, GestureIsOneThing, TimersHaveAFinger,
            FingersAreCounted, GestureSoFar
<1> fingers \in 0 .. 2 /\ prevCentroid \in 0 .. 2
      BY DEF TypeOK
<1>0. ASSUME UNCHANGED touchVars
      PROVE  FingersInv'
      BY <1>0 DEF touchVars
<1>1. CASE UNCHANGED vars
      BY <1>0, <1>1 DEF vars, touchVars
<1>2. CASE PointerEnters \/ PointerMoves \/ WindowFocuses \/ PointerLeaves \/ WindowBlurs
      BY <1>0, <1>2 DEF PointerEnters, PointerMoves, WindowFocuses, PointerLeaves, WindowBlurs
<1>3. ASSUME NEW k \in Keys \cup Mods, HandleKeyDown(k) \/ HandleKeyUp(k)
      PROVE  FingersInv'
      BY <1>0, <1>3 DEF HandleKeyDown, HandleKeyUp
<1>4. CASE OnMouseDown \/ OnMouseUp \/ OnDoubleClick
      BY <1>0, <1>4 DEF OnMouseDown, OnMouseUp, OnDoubleClick
<1>5. CASE HideTimerFires \/ HideToolbar \/ ShowToolbar \/ SwapTool \/ OpenDialog \/ CloseDialog
      BY <1>0, <1>5 DEF HideTimerFires, HideToolbar, ShowToolbar, SwapTool, OpenDialog, CloseDialog
<1>6. CASE FirstFinger
  <2>1. /\ fingers = 0 /\ fingers' = 1 /\ touchStart' /\ ~touchDragging' /\ gesture' = {}
        /\ UNCHANGED <<prevCentroid, twoFingerUsed, cancelled>>
        BY <1>6 DEF FirstFinger
  <2>2. strayTimer' => strayTimer \/ longPressTimer
        BY <1>6 DEF FirstFinger
  <2>3. strayTimer' => cancelled'
        BY <2>1, <2>2
  <2> QED
        BY <2>1, <2>3
<1>7. CASE SecondFinger
      BY <1>7 DEF SecondFinger
<1>8. ASSUME NEW own \in BOOLEAN, LongPressFires(own)
      PROVE  FingersInv'
      BY <1>8 DEF LongPressFires
<1>9. ASSUME NEW d \in 0 .. 2, FingerMoves(d)
      PROVE  FingersInv'
      BY <1>9 DEF FingerMoves
<1>10. CASE TwoFingersMove
      BY <1>10 DEF TwoFingersMove
<1>11. CASE TouchEnd
  <2>1. fingers > 0 /\ fingers' = fingers - 1 /\ ~longPressTimer' /\ strayTimer' = strayTimer
        BY <1>11 DEF TouchEnd
  <2>2. CASE fingers = 1
    <3>1. /\ fingers' = 0 /\ ~touchStart' /\ prevCentroid' = 0 /\ ~twoFingerUsed'
          /\ cancelled' = (cancelled /\ strayTimer)
          BY <1>11, <2>1, <2>2 DEF TouchEnd
    <3>2. strayTimer' => cancelled'
          BY <2>1, <3>1
    <3>3. \/ gesture' = gesture
          \/ ~twoFingerUsed /\ touchStart /\ gesture' = gesture \cup {"tap"}
          BY <1>11 DEF TouchEnd, Tap
    <3>4. ~ {"tap", "right"} \subseteq gesture' /\ ~ {"tap", "jump"} \subseteq gesture'
          BY <2>2, <3>3
    <3> QED
          BY <2>1, <3>1, <3>2, <3>4
  <2>3. CASE fingers = 2
    <3>1. fingers' = 1 /\ gesture' = gesture
          BY <1>11, <2>1, <2>3 DEF TouchEnd, Tap
    <3>2. UNCHANGED <<touchStart, prevCentroid, touchDragging, twoFingerUsed, cancelled>>
          BY <1>11, <2>1, <2>3 DEF TouchEnd
    <3> QED
          BY <2>1, <2>3, <3>1, <3>2
  <2> QED
        BY <2>1, <2>2, <2>3
<1>12. CASE TouchCancel
      BY <1>12 DEF TouchCancel
<1>13. CASE InputBlurs \/ ToggleKeyboard \/ \E m \in Mods : ToggleModifier(m)
      BY <1>0, <1>13 DEF InputBlurs, ToggleKeyboard, ToggleModifier
<1>14. ASSUME NEW k \in Keys, SendSpecialKey(k) \/ TypeKey(k)
       PROVE  FingersInv'
      BY <1>0, <1>14 DEF SendSpecialKey, TypeKey, TapKey
<1>15. CASE Leave
      BY <1>15 DEF Leave
<1>16. CASE NextSession
      BY <1>0, <1>16 DEF NextSession
<1> QED
      BY <1>1, <1>2, <1>3, <1>4, <1>5, <1>6, <1>7, <1>8, <1>9, <1>10, <1>11, <1>12, <1>13,
         <1>14, <1>15, <1>16 DEF Next

------------------------------------------------------------------------------
\* The invariant is inductive.
LEMMA ScreenInvStep == ScreenInv /\ [Next]_vars => ScreenInv'
<1> SUFFICES ASSUME ScreenInv, [Next]_vars PROVE ScreenInv'
      OBVIOUS
<1>1. TypeOK'
      BY TypesStep DEF ScreenInv
<1>2. KeysInv'
      BY KeysStep DEF ScreenInv
<1>3. TouchInv'
      BY LatchKept, FingersStep DEF ScreenInv, TouchInv, TouchDoesWhatItShows, FingersInv
<1> QED
      BY <1>1, <1>2, <1>3 DEF ScreenInv

\* ScreenInv is an invariant: types, keys and touches together.
THEOREM ScreenInvHolds == Spec => []ScreenInv
BY InitScreenInv, ScreenInvStep, PTL DEF Spec

\* Types of the screen's state and of the machine's keys, for any keys.
THEOREM ScreenTypesCorrect == Spec => []TypeOK
<1>1. ScreenInv => TypeOK
      BY DEF ScreenInv
<1> QED
      BY <1>1, ScreenInvHolds, PTL

\* handleKeyDown, handleKeyUp, the mouse and the virtual keyboard against inject on
\* Windows: whatever keys overlap, and however many, no key is left down but in the
\* ways that slips names.
THEOREM NoKeyIsLeftDown == Spec => []KeysFollowTheHand
<1>1. ScreenInv => KeysFollowTheHand
      BY DEF ScreenInv, KeysInv
<1> QED
      BY <1>1, ScreenInvHolds, PTL

\* onTouchStart, onTouchMove, onTouchEnd and the long-press timer: as long as no touch
\* was cancelled since the last whole gesture, a touch is one gesture and its timer is
\* its own; what a timer left by a cancelled touch does is outside.  A latched
\* modifier is one the user sees, whatever was cancelled.
THEOREM TouchesAreOneThing == Spec => []TouchDoesWhatItShows
<1>1. ScreenInv => TouchDoesWhatItShows
      BY DEF ScreenInv, TouchInv
<1> QED
      BY <1>1, ScreenInvHolds, PTL
==============================================================================
