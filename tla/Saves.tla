------------------------------- MODULE Saves --------------------------------
(***************************************************************************)
(* The three save slots (src/src/data/savegame.cpp), the menus that use    *)
(* them (src/src/input/savemenu.cpp) and the files under them              *)
(* (src/apps/runtime/host/Preferences.h).  A process may end between any   *)
(* two effects on a file.  A character is who it is, how far it has come   *)
(* and which of its data are its own and not defaults of a conversion.     *)
(***************************************************************************)
EXTENDS Naturals, FiniteSets

CONSTANTS
    Heroes, Slots, Nil,
    First,       \* slot 0
    Legacy,      \* the key of the single save before there were slots
    Progress     \* bound: how far a character comes

Files == Slots \cup {Legacy}

VARIABLES
    disk,    \* what each file holds: Nil, or [ver, sound, hero]
    tmp,     \* the file beside it that is being written: Nil, "torn" or "whole"
    screen,  \* gameState as far as the menus go: "title" or "town"
    menu,    \* "closed", "load", "save" or the slot whose overwriting is asked
    hero,    \* the global player, Nil before there is one
    job,     \* the call under way, Nil or [op, slot, at, hero]
    owed     \* history: the character each slot owes the player

saveVars == <<disk, tmp, screen, menu, hero, job, owed>>

(***************************************************************************)
(* Formats                                                                 *)
(***************************************************************************)
Version == 10

\* The first version whose layout holds each of the data beyond class, level,
\* experience, abilities, health and items.
Since == [properties |-> 3, mp |-> 5, known |-> 6, learning |-> 7,
          group |-> 8, name |-> 10]
Layout(ver) == {f \in DOMAIN Since : Since[f] <= ver}

\* Magic, size, version and every field are checked.
Valid(rec) == rec # Nil /\ rec.sound

\* What a conversion keeps; the rest is made up.
Converted(rec) == [rec.hero EXCEPT !.own = @ \cap Layout(rec.ver)]

\* loadGameWithKey
Restored(rec) == IF Valid(rec) THEN Converted(rec) ELSE Nil

\* saveGameWithKey
Record(h) == [ver |-> Version, sound |-> TRUE, hero |-> h]

\* getSaveSlotSummary and loadGameFromSlot look under the old key when the
\* first slot is empty.
SourceFile(d, s) == IF s = First /\ d[s] = Nil THEN Legacy ELSE s
SlotHolds(d, s) == Restored(d[SourceFile(d, s)])

SlotState(s) ==
    IF disk[SourceFile(disk, s)] = Nil THEN "empty"
    ELSE IF SlotHolds(disk, s) = Nil THEN "corrupt" ELSE "occupied"

(***************************************************************************)
(* Menus                                                                   *)
(***************************************************************************)
Settled == job = Nil
MenuAt(m) == Settled /\ menu = m

OpenLoadGameMenu ==
    /\ MenuAt("closed") /\ screen = "title" /\ menu' = "load"
    /\ UNCHANGED <<disk, tmp, screen, hero, job, owed>>

OpenSaveGameMenu ==
    /\ MenuAt("closed") /\ screen = "town" /\ menu' = "save"
    /\ UNCHANGED <<disk, tmp, screen, hero, job, owed>>

CancelMenu ==
    /\ Settled /\ menu # "closed"
    /\ menu' = IF menu \in Slots THEN "save" ELSE "closed"
    /\ UNCHANGED <<disk, tmp, screen, hero, job, owed>>

CreateHero(h) ==
    /\ MenuAt("closed") /\ screen = "title"
    /\ hero' = [who |-> h, far |-> 0, own |-> Layout(Version)] /\ screen' = "town"
    /\ UNCHANGED <<disk, tmp, menu, job, owed>>

Advance ==
    /\ MenuAt("closed") /\ hero # Nil /\ hero.far < Progress
    /\ hero' = [hero EXCEPT !.far = @ + 1]
    /\ UNCHANGED <<disk, tmp, screen, menu, job, owed>>

Begin(op, s, h) == job' = [op |-> op, slot |-> s, at |-> "write", hero |-> h]

\* activateSaveMenuAction: a slot that holds anything is asked about first.
ChooseSaveSlot(s) ==
    /\ MenuAt("save")
    /\ IF SlotState(s) = "empty" THEN Begin("save", s, hero) /\ UNCHANGED menu
       ELSE menu' = s /\ UNCHANGED job
    /\ UNCHANGED <<disk, tmp, screen, hero, owed>>

ConfirmOverwrite ==
    /\ Settled /\ menu \in Slots /\ Begin("save", menu, hero)
    /\ UNCHANGED <<disk, tmp, screen, menu, hero, owed>>

PlayAs(h) == hero' = h /\ screen' = "town" /\ menu' = "closed"

\* finishLoad.  A character under the old key is first written to its slot.
ChooseLoadSlot(s) ==
    /\ MenuAt("load")
    /\ LET h == SlotHolds(disk, s)
       IN  IF h = Nil THEN UNCHANGED <<hero, screen, menu, job>>
           ELSE IF SourceFile(disk, s) = Legacy
           THEN Begin("migrate", s, h) /\ UNCHANGED <<hero, screen, menu>>
           ELSE PlayAs(h) /\ UNCHANGED job
    /\ UNCHANGED <<disk, tmp, owed>>

(***************************************************************************)
(* Preferences::putBytes and remove, an effect on a file at a time         *)
(***************************************************************************)
At(stage) == job # Nil /\ job.at = stage

WriteTemporary ==
    /\ At("write")
    /\ \/ /\ tmp' = [tmp EXCEPT ![job.slot] = "torn"]
          /\ job' = [job EXCEPT !.at = "flush"]
       \/ job' = Nil /\ UNCHANGED tmp         \* no such directory
    /\ UNCHANGED <<disk, screen, menu, hero, owed>>

\* Another way to replace the file: to write over it.
FlushInPlace ==
    /\ At("flush")
    /\ disk' = [disk EXCEPT ![job.slot] = [Record(job.hero) EXCEPT !.sound = FALSE]]
    /\ tmp' = [tmp EXCEPT ![job.slot] = "whole"]
    /\ job' = [job EXCEPT !.at = "replace"]
    /\ UNCHANGED <<screen, menu, hero, owed>>

Flush ==
    /\ At("flush")
    /\ \/ /\ tmp' = [tmp EXCEPT ![job.slot] = "whole"]
          /\ job' = [job EXCEPT !.at = "replace"]
       \/ job' = Nil /\ UNCHANGED tmp         \* no space: the torn file stays
    /\ UNCHANGED <<disk, screen, menu, hero, owed>>

\* The save is made by the renaming; its caller learns of it afterwards.
ReplaceFile ==
    /\ At("replace")
    /\ tmp' = [tmp EXCEPT ![job.slot] = Nil]
    /\ \/ /\ disk' = [disk EXCEPT ![job.slot] = Record(job.hero)]
          /\ owed' = [owed EXCEPT ![job.slot] = job.hero]
          /\ job' = [job EXCEPT !.at = IF job.op = "save" THEN "told" ELSE "drop"]
       \/ UNCHANGED <<disk, owed>> /\ job' = Nil
    /\ UNCHANGED <<screen, menu, hero>>

FinishSave ==
    /\ At("told") /\ job' = Nil /\ menu' = "closed"
    /\ UNCHANGED <<disk, tmp, screen, hero, owed>>

\* The old record goes once the new one is there, and the load goes on if it
\* cannot be removed.
DropLegacy ==
    /\ At("drop")
    /\ disk' \in {disk, [disk EXCEPT ![Legacy] = Nil]}
    /\ PlayAs(job.hero) /\ job' = Nil
    /\ UNCHANGED <<tmp, owed>>

\* The process ends; files stay as they are.
Restart ==
    /\ screen' = "title" /\ menu' = "closed" /\ hero' = Nil /\ job' = Nil
    /\ UNCHANGED <<disk, tmp, owed>>

OldHeroes ==
    {[ver |-> v, sound |-> b, hero |-> [who |-> h, far |-> 0, own |-> Layout(v)]] :
        v \in {4, Version}, b \in BOOLEAN, h \in Heroes}

SaveInit ==
    /\ disk \in [Files -> {Nil} \cup OldHeroes]
    /\ disk[Legacy] # Nil => disk[Legacy].ver < Version
    /\ tmp = [s \in Slots |-> Nil]
    /\ screen = "title" /\ menu = "closed" /\ hero = Nil /\ job = Nil
    /\ owed = [s \in Slots |-> SlotHolds(disk, s)]

SaveNext ==
    \/ OpenLoadGameMenu \/ OpenSaveGameMenu \/ CancelMenu \/ Advance
    \/ \E h \in Heroes : CreateHero(h)
    \/ \E s \in Slots : ChooseSaveSlot(s) \/ ChooseLoadSlot(s)
    \/ ConfirmOverwrite \/ WriteTemporary \/ Flush \/ ReplaceFile
    \/ FinishSave \/ DropLegacy \/ Restart

SaveSpec == SaveInit /\ [][SaveNext]_saveVars

\* What a character and the record of one look like.
Characters == [who : Heroes, far : 0..Progress, own : SUBSET DOMAIN Since]
Records == [ver : 1..Version, sound : BOOLEAN, hero : Characters]

\* Slots have names of their own, and nothing is not something.
SaveConstants ==
    /\ First \in Slots /\ Legacy \notin Slots /\ Progress \in Nat
    /\ Slots \cap {"closed", "load", "save"} = {}
    /\ Nil \notin Characters \cup Records
    /\ Nil \notin [op : {"save", "migrate"}, slot : Slots,
                    at : {"write", "flush", "replace", "told", "drop"}, hero : Characters]

ASSUME SaveAssumption == SaveConstants

(***************************************************************************)
(* Wherever the process ends, in a save, in a conversion or between them,  *)
(* each slot gives back the last character that was put into it, with all  *)
(* the data that its layout held.                                          *)
(***************************************************************************)
NothingLost == \A s \in Slots : SlotHolds(disk, s) = owed[s]
=============================================================================
