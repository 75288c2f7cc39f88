----------------------------- MODULE DeviceHistory -----------------------------
(***************************************************************************)
(* The web client outside a session: ControlPage (pages/ControlPage.tsx),  *)
(* which shows one of two screens and keeps the list of saved devices, and *)
(* ConnectPanel (components/ConnectPanel.tsx) with that list, the form and *)
(* the dialog that confirms a removal.                                     *)
(*                                                                         *)
(* Several tabs share one localStorage.  A tab reads the list when it      *)
(* loads and from then on writes what it has in memory.  A device is a     *)
(* pair of deviceID and serverURL; the session is BrowserSession, of which *)
(* only the state is seen here.                                            *)
(***************************************************************************)
EXTENDS Naturals, Sequences, FiniteSets

CONSTANTS
    Tabs,
    Devices,
    Passwords,
    MaxHistory,  \* MAX_HISTORY (20 in the code)
    MaxWrites,   \* bound: writes of the list
    None

ASSUME TabsAssumption == Tabs # {}
ASSUME NoneAssumption == None \notin Devices
ASSUME BoundsAssumption == MaxHistory \in Nat \ {0} /\ MaxWrites \in Nat

Entry == [device: Devices, password: Passwords]

VARIABLES
    store,        \* localStorage rc_history, newest first
    history,      \* the list each tab shows
    session,      \* state of useRemoteSession
    lastAttempt,  \* the ref of ControlPage
    panel,        \* ConnectPanel: the form or the welcome text
    pendingRemove,\* the device of the dialog
    writes,       \* number of writes of the list
    log           \* history: what each tab has done to its list since it was empty

pageVars == <<session, lastAttempt, panel, pendingRemove>>
listVars == <<store, history, writes, log>>
vars == <<store, history, session, lastAttempt, panel, pendingRemove, writes, log>>

Saved(e)   == [op |-> "save", device |-> e.device, password |-> e.password]
Removed(d) == [op |-> "remove", device |-> d]

\* The saves that make a list out of nothing, oldest first.
Rebuild(l) == [i \in 1 .. Len(l) |-> Saved(l[Len(l) + 1 - i])]

\* filter: the entries of the other devices, in their order.
Without(l, d) ==
    LET kept   == {i \in DOMAIN l : l[i].device # d}
        nth(n) == CHOOSE i \in kept : Cardinality({j \in kept : j <= i}) = n
    IN  [n \in 1 .. Cardinality(kept) |-> l[nth(n)]]

\* loadHistory, when a page loads.
Init ==
    /\ store = <<>>
    /\ history = [t \in Tabs |-> <<>>]
    /\ session = [t \in Tabs |-> "idle"]
    /\ lastAttempt = [t \in Tabs |-> None]
    /\ panel = [t \in Tabs |-> "welcome"]
    /\ pendingRemove = [t \in Tabs |-> None]
    /\ writes = 0
    /\ log = [t \in Tabs |-> <<>>]

------------------------------------------------------------------------------
(* Plausible slips in the code, for trying the properties against.          *)

\* The old entry of the device is kept.
DoublingSaveHistory(l, e) ==
    SubSeq(<<e>> \o l, 1, IF Len(l) + 1 > MaxHistory THEN MaxHistory ELSE Len(l) + 1)

\* The list is never cut.
UncutSaveHistory(l, e) == <<e>> \o Without(l, e.device)

------------------------------------------------------------------------------
\* saveHistory: to the front, one entry per device, at most MAX_HISTORY.
SaveHistory(l, e) ==
    LET updated == <<e>> \o Without(l, e.device)
    IN  SubSeq(updated, 1, IF Len(updated) > MaxHistory THEN MaxHistory ELSE Len(updated))

\* Both ways of writing: the tab's own list goes to localStorage.
Write(t, l, event) ==
    /\ writes < MaxWrites
    /\ writes' = writes + 1
    /\ history' = [history EXCEPT ![t] = l]
    /\ store' = l
    /\ log' = [log EXCEPT ![t] = Append(@, event)]

------------------------------------------------------------------------------
(* ConnectPanel, shown while the session is not connected.                  *)

PanelShown(t)  == session[t] # "connected"
DialogShown(t) == PanelShown(t) /\ pendingRemove[t] # None
\* The dialog's overlay lies over the list and the form.
Reachable(t)   == PanelShown(t) /\ pendingRemove[t] = None

\* A click on an entry or on a button to add one.
OpenForm(t) ==
    /\ Reachable(t) /\ panel[t] = "welcome"
    /\ panel' = [panel EXCEPT ![t] = "form"]
    /\ UNCHANGED <<session, lastAttempt, pendingRemove, listVars>>

CancelForm(t) ==
    /\ Reachable(t) /\ panel[t] = "form"
    /\ panel' = [panel EXCEPT ![t] = "welcome"]
    /\ UNCHANGED <<session, lastAttempt, pendingRemove, listVars>>

\* The form is submitted with what it holds, from an entry or typed.
Submit(t, d, p) ==
    /\ Reachable(t) /\ panel[t] = "form" /\ session[t] # "connecting"
    /\ lastAttempt' = [lastAttempt EXCEPT ![t] = [device |-> d, password |-> p]]
    /\ session' = [session EXCEPT ![t] = "connecting"]
    /\ UNCHANGED <<panel, pendingRemove, listVars>>

\* The cross of an entry, and the three ways out of the dialog.
AskRemove(t, d) ==
    /\ Reachable(t) /\ \E i \in 1 .. Len(history[t]) : history[t][i].device = d
    /\ pendingRemove' = [pendingRemove EXCEPT ![t] = d]
    /\ UNCHANGED <<session, lastAttempt, panel, listVars>>

KeepDevice(t) ==
    /\ DialogShown(t)
    /\ pendingRemove' = [pendingRemove EXCEPT ![t] = None]
    /\ UNCHANGED <<session, lastAttempt, panel, listVars>>

RemoveDevice(t) ==
    /\ DialogShown(t)
    /\ pendingRemove' = [pendingRemove EXCEPT ![t] = None]
    /\ Write(t, Without(history[t], pendingRemove[t]), Removed(pendingRemove[t]))
    /\ UNCHANGED <<session, lastAttempt, panel>>

------------------------------------------------------------------------------
(* The session, and what ControlPage does about it.                         *)

\* connected, also late, after an error, or out of a socket that the refs have
\* forgotten: the entry is saved, and the panel with all its state is gone.
Connected(t) ==
    /\ session[t] # "connected" /\ lastAttempt[t] # None
    /\ session' = [session EXCEPT ![t] = "connected"]
    /\ Write(t, SaveHistory(history[t], lastAttempt[t]), Saved(lastAttempt[t]))
    /\ panel' = [panel EXCEPT ![t] = "welcome"]
    /\ pendingRemove' = [pendingRemove EXCEPT ![t] = None]
    /\ UNCHANGED lastAttempt

\* error, also from a handler that ends after the session.
SessionFails(t) ==
    /\ session[t] # "error" /\ lastAttempt[t] # None
    /\ session' = [session EXCEPT ![t] = "error"]
    /\ UNCHANGED <<lastAttempt, panel, pendingRemove, listVars>>

Disconnect(t) ==
    /\ session[t] = "connected"
    /\ session' = [session EXCEPT ![t] = "idle"]
    /\ UNCHANGED <<lastAttempt, panel, pendingRemove, listVars>>

\* The page is loaded again, or left and opened.
Reload(t) ==
    /\ history' = [history EXCEPT ![t] = store]
    /\ log' = [log EXCEPT ![t] = Rebuild(store)]
    /\ session' = [session EXCEPT ![t] = "idle"]
    /\ lastAttempt' = [lastAttempt EXCEPT ![t] = None]
    /\ panel' = [panel EXCEPT ![t] = "welcome"]
    /\ pendingRemove' = [pendingRemove EXCEPT ![t] = None]
    /\ UNCHANGED <<store, writes>>

Next == \E t \in Tabs :
    \/ OpenForm(t) \/ CancelForm(t) \/ KeepDevice(t) \/ RemoveDevice(t)
    \/ Connected(t) \/ SessionFails(t) \/ Disconnect(t) \/ Reload(t)
    \/ \E d \in Devices : AskRemove(t, d) \/ \E p \in Passwords : Submit(t, d, p)

Spec == Init /\ [][Next]_vars

------------------------------------------------------------------------------
(* What the list ought to be, from what the tab did and not from a list.    *)

Alive(l, i, j) ==   \* save i still counts after step j
    /\ i <= j /\ l[i].op = "save"
    /\ \A k \in i + 1 .. j : l[k].device # l[i].device

\* A save is pushed out once MaxHistory others that came later count together.
PushedOut(l, i, j) ==
    \E k \in i .. j : Cardinality({m \in i + 1 .. k : Alive(l, m, k)}) >= MaxHistory

Remembered(l) ==
    {i \in 1 .. Len(l) : Alive(l, i, Len(l)) /\ ~PushedOut(l, i, Len(l))}

------------------------------------------------------------------------------
Lists == UNION {[1 .. n -> Entry] : n \in 0 .. MaxHistory}

TypeOK ==
    /\ store \in Lists
    /\ history \in [Tabs -> Lists]
    /\ session \in [Tabs -> {"idle", "connecting", "connected", "error"}]
    /\ lastAttempt \in [Tabs -> Entry \cup {None}]
    /\ panel \in [Tabs -> {"welcome", "form"}]
    /\ pendingRemove \in [Tabs -> Devices \cup {None}]
    /\ writes \in 0 .. MaxWrites

\* A tab lists exactly the devices it connected to and did not remove since, or
\* found when it loaded, up to MaxHistory, the latest first and each with the
\* password of its last connection.
ListIsWhatTheTabDid ==
    \A t \in Tabs :
        LET l == history[t]
            r == Remembered(log[t])
        IN  /\ Len(l) = Cardinality(r)
            /\ \A i \in r : LET n == Cardinality({j \in r : j >= i})
                            IN  Saved(l[n]) = log[t][i]

\* localStorage holds the whole list of the tab that wrote last, never a mixture:
\* it is the list of some tab, or of one that was loaded again from it.
StoreIsOneList == \E t \in Tabs : store = history[t]

\* What is on the screen is not forgotten by the tab that shows it.
ShownDeviceIsListed ==
    \A t \in Tabs : session[t] = "connected" =>
        /\ history[t] # <<>> /\ history[t][1] = lastAttempt[t]

\* The saved devices survive what tabs, connections and removals do to the list:
\* each tab keeps its own right (saveHistory and handleRemoveDevice of ControlPage),
\* what localStorage holds is one of them, and the device on the screen is in it.
HistoryIsKept == ListIsWhatTheTabDid /\ StoreIsOneList /\ ShownDeviceIsListed
==============================================================================
