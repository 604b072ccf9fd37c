----------------------------- MODULE VanityPanel -----------------------------
(***************************************************************************)
(* The vanity search of the mainnet page (mainnet/ui.js and entry.js): runs   *)
(* in this browser's workers or on the server, the one found key, and the     *)
(* ways to stop, leave, save and discard.  One variable, vRun, names the run   *)
(* the buttons act on; each run's handler clears it when its promise settles. *)
(***************************************************************************)
EXTENDS Naturals

CONSTANTS
    NoRun,
    MaxSearches   \* bound: searches started

ASSUME PanelAssumption == NoRun \notin Nat

VARIABLES
    panel,         \* the pane: "vanity", "save", or "other"
    vRun,          \* the run the buttons act on
    searches,      \* runs whose promise has not settled: [id, kind, at, stopped]
    found,         \* vanityResult: the run that found it, or NoRun
    saving,        \* pending is that key, in the save step
    startOn,       \* which Start buttons are on the page: a set of kinds
    formOff,       \* the pattern cannot be edited
    discardArmed,  \* discard was pressed once
    orphans,       \* server jobs this page will not ask about again
    started        \* counter (bound)
panelVars == <<panel, vRun, searches, found, saving, startOn, formOff, discardArmed, orphans, started>>
panelScreenVars == <<panel, saving, discardArmed, orphans, started>>

SearchKinds == {"browser", "server"}

(* vanityForget wipes the key and gives the form back.                       *)
ForgetFound == found' = NoRun /\ discardArmed' = FALSE /\ formOff' = FALSE

(***************************************************************************)
(* stop(): the workers are terminated and their promise never settles; the    *)
(* server's loop learns of it after its next answer, and its job is cancelled *)
(* if its id has come.                                                       *)
(***************************************************************************)
Stopped(r) ==
    IF r.kind = "browser" THEN [r EXCEPT !.stopped = TRUE, !.at = "terminated"]
    ELSE [r EXCEPT !.stopped = TRUE]
StopRun ==
    IF vRun = NoRun THEN UNCHANGED <<vRun, searches>>
    ELSE /\ vRun' = NoRun
         /\ searches' = {IF r.id = vRun THEN Stopped(r) ELSE r : r \in searches}
Stop ==
    /\ panel = "vanity" /\ vRun # NoRun
    /\ StopRun
    /\ UNCHANGED <<panelScreenVars, found, startOn, formOff>>

Enter ==                                               \* vanityOpen
    /\ panel = "other"
    /\ panel' = "vanity"
    /\ ForgetFound
    /\ UNCHANGED <<vRun, searches, saving, startOn, orphans, started>>
LeavePanel ==                                          \* any pane but this and the save step
    /\ panel # "other"
    /\ panel' = "other" /\ saving' = FALSE
    /\ StopRun
    /\ ForgetFound
    /\ UNCHANGED <<startOn, orphans, started>>

(***************************************************************************)
(* v_start and v_srv_start.                                                  *)
(***************************************************************************)
StartSearch(kind) ==
    /\ panel = "vanity" /\ kind \in startOn
    /\ vRun = NoRun /\ found = NoRun
    /\ started < MaxSearches                           \* bound
    /\ started' = started + 1
    /\ vRun' = started + 1
    /\ searches' = searches \cup
           {[id |-> started + 1, kind |-> kind, stopped |-> FALSE,
             at |-> IF kind = "server" THEN "submit" ELSE "search"]}
    /\ startOn' = startOn \ {kind}
    /\ discardArmed' = FALSE /\ formOff' = TRUE
    /\ UNCHANGED <<panel, found, saving, orphans>>

(* The handler's finally, whichever run the buttons act on by now.           *)
SettleRun(r) ==
    /\ searches' = searches \ {r}
    /\ vRun' = NoRun
    /\ startOn' = startOn \cup {r.kind}
ShowFound(r) == found' = r.id /\ formOff' = TRUE

\* Mutant: whichever run ends gives the form back.
FormGivenBack == FALSE
(* The finally keeps the form locked while a found key is unsaved.           *)
FormAfterRun == found # NoRun

(* A run that was stopped, or has already answered, is not believed.         *)
Believed(r) == ~r.stopped

WorkerFinds(r) ==                                      \* its message may be queued when it is stopped
    /\ r.kind = "browser"
    /\ Believed(r)
    /\ SettleRun(r) /\ ShowFound(r)
    /\ UNCHANGED <<panelScreenVars>>
WorkerFails(r) ==
    /\ r.kind = "browser" /\ ~r.stopped
    /\ SettleRun(r)
    /\ formOff' = FormAfterRun
    /\ UNCHANGED <<panelScreenVars, found>>

(***************************************************************************)
(* The server's run: submit, then a view every few seconds.  Only after an    *)
(* answer does the loop look at stopped; a job submitted meanwhile is not     *)
(* cancelled.                                                                *)
(***************************************************************************)
Submitted(r) ==
    /\ r.at = "submit" /\ ~r.stopped
    /\ searches' = (searches \ {r}) \cup {[r EXCEPT !.at = "poll"]}
    /\ UNCHANGED <<panelScreenVars, vRun, found, startOn, formOff>>
ServerFinds(r) ==
    /\ r.at = "poll" /\ Believed(r)
    /\ SettleRun(r) /\ ShowFound(r)
    /\ UNCHANGED panelScreenVars
ServerFails(r) ==                                      \* refused, failed, or stopped
    /\ r.kind = "server"
    /\ SettleRun(r)
    /\ orphans' = IF r.at = "submit" /\ r.stopped THEN orphans \cup {r.id} ELSE orphans
    /\ formOff' = FormAfterRun
    /\ UNCHANGED <<panel, saving, discardArmed, started, found>>

(***************************************************************************)
(* The key found: saved as a wallet file, printed, or discarded in two clicks. *)
(***************************************************************************)
SaveFound ==
    /\ panel = "vanity" /\ found # NoRun
    /\ panel' = "save" /\ saving' = TRUE
    /\ UNCHANGED <<vRun, searches, found, startOn, formOff, discardArmed, orphans, started>>
SaveBack ==
    /\ panel = "save"
    /\ saving' = FALSE
    /\ panel' = "vanity"
    /\ UNCHANGED <<vRun, searches, found, startOn, formOff, discardArmed, orphans, started>>
Saved ==                                               \* the file is written
    /\ panel = "save" /\ saving
    /\ saving' = FALSE
    /\ ForgetFound
    /\ UNCHANGED <<panel, vRun, searches, startOn, orphans, started>>
Paper ==                                               \* to the paper wallet's pane
    /\ panel = "vanity" /\ found # NoRun
    /\ panel' = "other"
    /\ StopRun
    /\ ForgetFound
    /\ UNCHANGED <<saving, startOn, orphans, started>>
Discard ==
    /\ panel = "vanity" /\ found # NoRun
    /\ IF discardArmed THEN ForgetFound ELSE discardArmed' = TRUE /\ UNCHANGED <<found, formOff>>
    /\ UNCHANGED <<panel, vRun, searches, saving, startOn, orphans, started>>
Disarm ==                                              \* five seconds
    /\ discardArmed
    /\ discardArmed' = FALSE
    /\ UNCHANGED <<panel, vRun, searches, found, saving, startOn, formOff, orphans, started>>

PanelInit ==
    /\ panel = "other" /\ vRun = NoRun /\ searches = {} /\ found = NoRun /\ saving = FALSE
    /\ startOn = SearchKinds /\ formOff = FALSE /\ discardArmed = FALSE /\ orphans = {} /\ started = 0
PanelNext ==
    \/ Enter \/ LeavePanel \/ Stop \/ SaveFound \/ SaveBack \/ Saved \/ Paper \/ Discard \/ Disarm
    \/ \E kind \in SearchKinds : StartSearch(kind)
    \/ \E r \in searches : \/ WorkerFinds(r) \/ WorkerFails(r)
                           \/ Submitted(r) \/ ServerFinds(r) \/ ServerFails(r)
PanelSpec == PanelInit /\ [][PanelNext]_panelVars

(***************************************************************************)
(* Properties.                                                              *)
(***************************************************************************)
\* While a found key is unsaved its pattern cannot be changed and no run is at the
\* buttons, although runs given up for lost still end after it was found and
\* clear up behind themselves (ui.js 932, 1057 and 1097).
UnsavedKeyHoldsForm == found # NoRun => formOff /\ vRun = NoRun
\* While a search runs the pattern cannot be changed either (ui.js 932), and the
\* buttons act on it (ui.js 1060 and 1100).  Both fail: an earlier run that was
\* stopped at the server ends later, and its finally frees the form and clears vRun
\* under the search that runs now (ui.js 1056-1057), which Stop no longer reaches.
SearchHoldsForm == (\E r \in searches : ~r.stopped) => formOff
StopReachesIt == \A r \in searches : ~r.stopped => r.id = vRun
\* A key found stays until it is saved or discarded (ui.js 1101-1103, "instead of
\* silently losing a search").  It fails by the same order: the search that Stop did
\* not reach finds its key, and vanityShowResult replaces the one unsaved (1062).
KeyStays == found # NoRun => found' \in {found, NoRun}
KeyIsNotReplaced == [][KeyStays]_panelVars
\* The key found is on this screen or in the save step, and nowhere else (ui.js
\* 896-897, "lives in vanityResult only until it is saved ... or the screen is left").
KeyLeavesWithScreen == found # NoRun => panel \in {"vanity", "save"}
\* A Start button is away only while a search of its kind has not been stopped
\* (ui.js 1075 and 1096).
StartComesBack ==
    \A kind \in SearchKinds \ startOn : \E r \in searches : r.kind = kind /\ r.at # "terminated"
=============================================================================
