------------------------------ MODULE Controls ------------------------------
(***************************************************************************)
(* The buttons of a handheld (src/src/input/buttonstate.h) and the screens *)
(* that read them (buttons.cpp, handleButtons): which keys a screen polls, *)
(* in which order, and where each press leads.  A frame of the loop sees   *)
(* the level of every pin once; a press is an edge between two polls of    *)
(* that key, so what a screen does not poll goes unseen.                   *)
(* Times are ages since an event, in parts of the debounce, and stop at    *)
(* the limit they are compared with.  One finger plays: at most one key is *)
(* down at a time, and another is reached only after the bounce of select. *)
(* Moments at which millis() is 0 are left out.                            *)
(***************************************************************************)
EXTENDS Naturals, FiniteSets

CONSTANTS
    Debounce,     \* ENCODER_SELECT_RELEASE_DEBOUNCE_MS
    Guard,        \* MENU_INPUT_GUARD_MS
    Long          \* LONG_PRESS_TIME

VARIABLES
    input,        \* ButtonInputState but for the rotary decoder
    view,         \* the screens that are open, below and above one another
    held,         \* the keys that are down
    heard,        \* what the last frame reported
    acts,         \* history: presses reported since the key was last released
    rest,         \* history: for how long select has been up
    down          \* history: for how long every frame has seen select down

controlVars == <<input, view, held, heard, acts, rest, down>>

Keys == {"select", "a", "b"}
Capped(n, limit) == IF n > limit THEN limit ELSE n

(***************************************************************************)
(* The decoders.  A frame in progress is [in, at, low, said]: the decoders, *)
(* the screens, the keys that are down and the keys reported so far.       *)
(***************************************************************************)
Up(s, k) == k \notin s.low

\* suppressMenuInputUntilRelease
Suppressed(s) ==
    [s EXCEPT !.in = [@ EXCEPT !.last = Keys \ s.low, !.off = Keys, !.ready = FALSE, !.sup = 0,
                               !.rel = IF Up(s, "select") THEN 0 ELSE @]]

\* reset: the long press in progress is kept.
Reset(s) ==
    [s EXCEPT !.in = [@ EXCEPT !.last = Keys \ s.low, !.off = {}, !.ready = Up(s, "select"),
                               !.rel = 0, !.sup = Guard]]

Lifted(s, k) == Up(s, k) /\ s.in.sup >= Guard

\* buttonAPressed, buttonBPressed
PollKey(s, k) ==
    LET open == k \notin s.in.off
        seen == [s EXCEPT !.in.last = IF Up(s, k) THEN @ \cup {k} ELSE @ \ {k}]
    IN  IF ~open THEN [seen EXCEPT !.in.off = IF Lifted(s, k) THEN @ \ {k} ELSE @]
        ELSE [seen EXCEPT !.said = IF ~Up(s, k) /\ k \in s.in.last THEN @ \cup {k} ELSE @]

\* Mutant of Spent: a click leaves the switch armed.
NeverSpent(ready, pressed) == ready

\* A click disarms the switch until it has been released for a while.
Spent(ready, pressed) == ready /\ ~pressed

\* encoderPressed
PollSelect(s) ==
    LET up == Up(s, "select")
        rel == IF up /\ "select" \notin s.in.last THEN 0 ELSE s.in.rel
        ready == s.in.ready \/ (up /\ rel >= Debounce)
        pressed == "select" \notin s.in.off /\ ~up /\ "select" \in s.in.last /\ ready
    IN  [s EXCEPT !.in = [@ EXCEPT !.last = IF up THEN @ \cup {"select"} ELSE @ \ {"select"},
                                   !.rel = rel,
                                   !.ready = Spent(ready, pressed),
                                   !.off = IF ready /\ Lifted(s, "select") THEN @ \ {"select"} ELSE @],
                  !.said = IF pressed THEN @ \cup {"select"} ELSE @]

Poll(s, k) == IF k = "select" THEN PollSelect(s) ELSE PollKey(s, k)

\* encoderButtonLongPressed
PollHold(s) ==
    LET counts == "select" \notin s.in.off /\ ~Up(s, "select")
        since == IF s.in.pressing THEN s.in.since ELSE 0
        done == s.in.pressing /\ s.in.done
        fires == counts /\ ~done /\ since >= Long
    IN  IF ~counts
        THEN [s EXCEPT !.in = [@ EXCEPT !.pressing = FALSE, !.since = 0, !.done = FALSE]]
        ELSE [s EXCEPT !.in = [@ EXCEPT !.pressing = TRUE, !.since = since, !.done = done \/ fires],
                       !.said = IF fires THEN @ \cup {"long"} ELSE @]

(***************************************************************************)
(* The screens.  What a press leads to is a set of frames in progress, as  *)
(* it may depend on the game; each of these is what the code called does   *)
(* to the screens and to the decoders.                                     *)
(***************************************************************************)
With(s, o) == [s EXCEPT !.at.over = @ \cup {o}]
Without(s, o) == [s EXCEPT !.at.over = @ \ {o}]
Aim(s, a) == [s EXCEPT !.at.aim = a]
Page(s, p) == [s EXCEPT !.at.page = p]

OpenMenu(s) == Suppressed(With(s, "menu"))             \* openMenu
CloseMenu(s) == Suppressed(Without(s, "menu"))         \* closeMenu
OpenSheet(s) == Suppressed(With(s, "sheet"))           \* openCharacterView
CloseSheet(s) == Suppressed(Without(s, "sheet"))       \* closeCharacterSheet
OpenBag(s) == Suppressed(With(s, "bag"))               \* openPlayerInventoryMenu, openCorpseLootMenu
CloseBag(s) == Suppressed(Without(s, "bag"))           \* closeInventoryMenu

GoTo(s, game) == [s EXCEPT !.at.game = game]

\* finishLoad
Load(s) == GoTo(Reset(CloseMenu(CloseSheet(s))), "town")

\* beginPlayerAbility after the menu is closed: an ability for which a kind of
\* energy must be chosen opens the menu for it with the ability selected.
CastFrom(s) == {s, Aim(s, "spell"), Aim(s, "ground"), Aim(s, "resolving"), OpenMenu(Aim(s, "spell"))}

\* menuActivate
Activate(s) ==
    LET closed == CloseMenu(s)
    IN  {s, Suppressed(s), closed}
        \cup (CASE s.at.game = "start" -> {Load(s)}
                [] s.at.game = "town" -> {GoTo(closed, "map")}
                [] s.at.game = "map" ->
                     {OpenSheet(closed), OpenBag(closed), Aim(closed, "inspect"),
                      Aim(closed, "attack"), GoTo(closed, "town")} \cup CastFrom(closed))

\* menuCancel: one level up, or closed with the choice of energy taken back.
Cancel(s) == {Suppressed(s), CloseMenu(s), CloseMenu(Aim(s, "none"))}

-----------------------------------------------------------------------------
(* One poll after the other: found if the key is reported, and otherwise on *)
(* to what follows.                                                        *)
Ask(s, k, Found(_), Else(_)) ==
    LET p == Poll(s, k) IN IF k \in p.said THEN Found(p) ELSE Else(p)

Then(S, F(_)) == UNION {F(s) : s \in S}
Done(s) == {s}

SelectOrA(s, Found(_), Else(_)) ==
    Ask(s, "select", Found, LAMBDA t : Ask(t, "a", Found, Else))

MenuButtons(s) ==
    LET Back(t) == Ask(t, "b", Cancel, Done)
    IN  SelectOrA(s, LAMBDA t : Then(Activate(t), Back), Back)

\* handleStartButtons
StartButtons(s) ==
    IF "menu" \in s.at.over THEN MenuButtons(s)
    ELSE Ask(s, "a", LAMBDA t : {Page(GoTo(Reset(t), "creation"), "class")},
             LAMBDA t : Ask(t, "b", LAMBDA u : {OpenMenu(u)}, Done))

\* createPreviewCharacter, menuSelect, acceptCharacter and the pages between.
Created(s, k) ==
    LET on == s.at.page
    IN  CASE on = "class" /\ k # "b" -> {Page(s, "style"), Page(s, "stats")}
          [] on = "style" -> {Page(s, IF k = "b" THEN "class" ELSE "stats")}
          [] on = "stats" /\ k = "a" -> {Suppressed(Page(s, "menu"))}
          [] on = "stats" /\ k = "b" -> {Reset(Page(s, "class"))}
          [] on = "menu" /\ k = "a" -> {Suppressed(Page(s, "name")), Page(s, "stats"), Page(s, "class")}
          [] on = "menu" /\ k = "b" -> {Page(s, "stats")}
          [] on = "name" /\ k = "select" -> {GoTo(Reset(s), "town")}
          [] on = "name" /\ k = "b" -> {s, Page(s, "menu")}
          [] OTHER -> {s}

\* handleCharacterCreationButtons: every key, whatever the one before did.
CreationButtons(s) ==
    LET Step(t, k) == Ask(t, k, LAMBDA u : Created(u, k), Done)
    IN  Then(Then(Step(s, "select"), LAMBDA t : Step(t, "a")), LAMBDA t : Step(t, "b"))

\* handleCharacterSheetButtons
SheetButtons(s) ==
    LET Hold(t) == LET p == PollHold(t) IN {IF "long" \in p.said THEN CloseSheet(p) ELSE p}
        Exit(t) == Ask(t, "b", LAMBDA u : {u, CloseSheet(u)}, Hold)
    IN  SelectOrA(s, LAMBDA t : {t} \cup Exit(t), Exit)

\* The options of the town, where a journey of several only sends the invitation, and
\* of home, which stays open under a rest.
TownChoice(s) == {s, GoTo(s, "map"), OpenMenu(s), Suppressed(With(s, "home"))}
HomeChoice(s) == {With(s, "resting"), OpenMenu(s), OpenSheet(s), Suppressed(Without(s, "home"))}

\* handleTownButtons
TownButtons(s) ==
    IF "sheet" \in s.at.over THEN SheetButtons(s)
    ELSE IF "menu" \in s.at.over THEN MenuButtons(s)
    ELSE IF "resting" \in s.at.over THEN {s}
    ELSE IF "home" \in s.at.over
    THEN LET Leave(t) == Ask(t, "b", LAMBDA u : {Suppressed(Without(u, "home"))}, Done)
         IN  Ask(s, "a", LAMBDA t : Then(HomeChoice(t), Leave), Leave)
    ELSE Ask(s, "a", TownChoice, Done)

\* confirm...: refused, begun, or over at once.
Confirm(s) ==
    {s, Aim(s, IF s.at.aim = "attack" THEN "blow" ELSE "resolving"), Aim(s, "none")}

\* cancel...: back to the main menu, but from a spell aimed at the ground.
Withdraw(s) == {IF s.at.aim = "ground" THEN Aim(s, "none") ELSE OpenMenu(Aim(s, "none"))}

AimButtons(s) ==
    LET Back(t) == IF t.at.aim \in {"none", "blow", "resolving"} THEN Ask(t, "b", Done, Done)
                   ELSE Ask(t, "b", Withdraw, Done)
        Confirmed(t) == IF t.at.aim = "inspect" THEN {t} ELSE Confirm(t)
    IN  Ask(s, "a", LAMBDA t : Then(Confirmed(t), Back), Back)

\* tryMovePlayer: through a door everything is closed.
Moved(s) == {s, Suppressed([s EXCEPT !.at.over = @ \ {"menu", "bag"}])}

\* tryInteractWithFacingEntity or the main menu
Interacted(s) == {s, OpenMenu(s), OpenBag(s)}

\* handleMapButtons: what is aimed comes first, then the menu, then the sheet.
MapButtons(s) ==
    CASE s.at.aim = "ground" -> Ask(s, "select", Done, AimButtons)
      [] s.at.aim \in {"inspect", "spell", "attack"} -> AimButtons(s)
      [] s.at.aim \in {"blow", "resolving"} -> {s}
      [] OTHER ->
           IF "menu" \in s.at.over THEN MenuButtons(s)
           ELSE IF "sheet" \in s.at.over THEN SheetButtons(s)
           ELSE Ask(s, "select", Moved,
                    LAMBDA t : Ask(t, "a", Interacted, LAMBDA u : Ask(u, "b", Done, Done)))

\* handleInventoryMenuButtons: the loot of an empty corpse closes by itself.
BagButtons(s) ==
    {CloseBag(s)} \cup Ask(s, "a", LAMBDA t : {t, CloseBag(t)} \cup CastFrom(CloseBag(t)),
                           LAMBDA t : Ask(t, "b", LAMBDA u : {u, CloseBag(u)}, Done))

\* The long press of handleButtons: the sheet for whatever was there.
Toggled(s) ==
    LET shut == IF "menu" \in s.at.over THEN CloseMenu(s) ELSE s
    IN  IF "sheet" \in s.at.over THEN CloseSheet(shut) ELSE OpenSheet(shut)

\* handleButtons
HandleButtons(s) ==
    LET h == PollHold(s)
    IN  IF "bag" \in s.at.over THEN BagButtons(s)
        ELSE CASE s.at.game = "start" -> StartButtons(s)
               [] s.at.game = "creation" -> CreationButtons(s)
               [] s.at.game = "town" -> IF "long" \in h.said THEN {Toggled(h)} ELSE TownButtons(h)
               [] s.at.game = "map" -> IF "long" \in h.said THEN {Toggled(h)} ELSE MapButtons(h)

-----------------------------------------------------------------------------
ControlInit ==
    /\ input = [last |-> Keys, off |-> {}, ready |-> TRUE, rel |-> 0, sup |-> Guard,
                pressing |-> FALSE, since |-> 0, done |-> FALSE]
    /\ view = [game |-> "start", page |-> "class", over |-> {}, aim |-> "none"]
    /\ held = {} /\ heard = {}
    /\ acts = [k \in Keys |-> 0]
    /\ rest = Debounce /\ down = 0

Aged(d) ==
    [input EXCEPT !.rel = Capped(@ + d, Debounce), !.sup = Capped(@ + d, Guard),
                  !.since = IF input.pressing THEN Capped(@ + d, Long) ELSE 0]

\* A key counts as released at once, select only after the debounce.
Released(k, low, up) == k \notin low /\ (k = "select" => up >= Debounce)

\* loop: the pins after d parts of time, and handleButtons.
Frame(d, low) ==
    LET up == IF "select" \in low THEN 0
              ELSE IF "select" \in held THEN 0 ELSE Capped(rest + d, Debounce)
    IN  /\ low \subseteq {"select"} \/ up >= Debounce
        /\ \E s \in HandleButtons([in |-> Aged(d), at |-> view, low |-> low, said |-> {}]) :
              /\ input' = s.in /\ view' = s.at
              /\ heard' = s.said
              /\ acts' = [k \in Keys |-> (IF Released(k, low, up) THEN 0 ELSE acts[k])
                                         + IF k \in s.said THEN 1 ELSE 0]
        /\ held' = low /\ rest' = up
        /\ down' = IF "select" \notin low THEN 0
                   ELSE IF "select" \in held THEN Capped(down + d, Long) ELSE 0

\* What ends without a key: a blow or a spell that is resolved, with another
\* blow to aim or not, and a rest.
Resolved ==
    /\ view.aim \in {"blow", "resolving"}
    /\ \E a \in {"none"} \cup (IF view.aim = "blow" THEN {"attack"} ELSE {}) :
          view' = [view EXCEPT !.aim = a]
    /\ UNCHANGED <<input, held, heard, acts, rest, down>>

Rested ==
    /\ "resting" \in view.over
    /\ view' = [view EXCEPT !.over = @ \ {"resting"}]
    /\ UNCHANGED <<input, held, heard, acts, rest, down>>

\* processTravelInvite: another player's invitation opens a menu in the town.
Invited ==
    /\ view.game = "town"
    /\ LET s == OpenMenu([in |-> input, at |-> view, low |-> held, said |-> {}])
       IN  input' = s.in /\ view' = s.at
    /\ UNCHANGED <<held, heard, acts, rest, down>>

ControlNext ==
    \/ \E d \in {0, 1}, low \in {{}} \cup {{k} : k \in Keys} : Frame(d, low)
    \/ Resolved
    \/ Rested
    \/ Invited

-----------------------------------------------------------------------------
\* Each time a key is pressed it does one thing, on whichever screen: neither
\* a screen that opens under the finger nor the bounce of the switch makes a
\* second press of it (selectLast, encoderSelectReady and the suppressions).
OneActPerPress == \A k \in Keys : acts[k] <= 1

\* A long press is reported only while select has been down in every frame
\* for the whole time, whatever screens have come and gone meanwhile
\* (encoderPressStart is kept by screens that do not ask for it).
LongPressIsHeld == "long" \in heard => down >= Long

\* refreshDisplay: what is drawn on top.
Shown ==
    CASE "bag" \in view.over -> "bag"
      [] "sheet" \in view.over /\ "bag" \notin view.over -> "sheet"
      [] "menu" \in view.over /\ view.over \cap {"bag", "sheet"} = {} -> "menu"
      [] OTHER -> "screen"

\* handleButtons: what the keys act on.
Served ==
    IF "bag" \in view.over THEN "bag"
    ELSE IF view.game = "map" /\ view.aim # "none" THEN "screen"
    ELSE LET first == IF view.game = "map" THEN "menu" ELSE "sheet"
             second == IF view.game = "map" THEN "sheet" ELSE "menu"
         IN  IF first \in view.over THEN first ELSE IF second \in view.over THEN second ELSE "screen"

\* The keys act on what is shown; the exception is a spell that is being aimed
\* while a menu or the sheet covers the map.
KeysActOnTheScreen == Shown # Served => view.aim \in {"spell", "ground", "resolving"}

ControlsObeyed == OneActPerPress /\ LongPressIsHeld /\ KeysActOnTheScreen

\* "Choose fire energy.": the menu in which the energy of a spell is chosen
\* answers the keys while it is shown (openResistEnergyMenu, handleMapButtons).
MenusAnswer == Shown = "menu" => Served = "menu"
=============================================================================
