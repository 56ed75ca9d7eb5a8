----------------------------- MODULE PartsProofs -----------------------------
(***************************************************************************)
(* Proofs about small parts of the game that do not act on one another:    *)
(* saves, the riddle, traps, shared rooms, the event history for every     *)
(* capacity and every largest sequence number, the book of offers for any  *)
(* number of players, items and ids, and the packets of the handhelds for  *)
(* whatever they can tell and any versions of the protocol.                *)
(*                                                                         *)
(* The inductive invariant of the history adds to the properties that a    *)
(* history that has not wrapped starts at cell 0 and that the poller's     *)
(* cursor is never ahead of the history.  What a transfer does to the      *)
(* inventories is a fold over the lines and stays with the model checker;  *)
(* the book does not depend on it.                                         *)
(***************************************************************************)
EXTENDS EventHistory, ItemTrade, Saves, Riddle, Traps, ResidentRooms, Packets,
        FiniteSetTheorems, WellFoundedInduction, TLAPS

-----------------------------------------------------------------------------
(* Saves *)

Jobs == [op : {"save", "migrate"}, slot : Slots,
         at : {"write", "flush", "replace", "told", "drop"}, hero : Characters]

\* A menu to save is open only where there is somebody to save; the old record
\* is removed only when the first slot has its successor.
SavesKept ==
  /\ disk \in [Files -> {Nil} \cup Records]
  /\ tmp \in [Slots -> {Nil, "torn", "whole"}]
  /\ menu \in {"closed", "load", "save"} \cup Slots
  /\ hero \in {Nil} \cup Characters
  /\ job \in {Nil} \cup Jobs
  /\ owed \in [Slots -> {Nil} \cup Characters]
  /\ screen = "town" => hero # Nil
  /\ menu \in {"save"} \cup Slots => screen = "town"
  /\ job # Nil /\ job.op = "migrate" => job.slot = First
  /\ job # Nil /\ job.at = "drop" => job.op = "migrate" /\ disk[First] # Nil
  /\ NothingLost

LEMMA LayoutNow == Layout(Version) = DOMAIN Since
  BY DEF Layout, Version, Since

LEMMA ConvertedType ==
  ASSUME NEW rec \in Records
  PROVE  /\ Converted(rec) \in Characters
         /\ Converted(rec).who = rec.hero.who /\ Converted(rec).far = rec.hero.far
         /\ Converted(rec).own = rec.hero.own \cap Layout(rec.ver)
  BY DEF Converted, Records, Characters

\* What is saved is what will be loaded.
LEMMA RecordGivesBack ==
  ASSUME SaveConstants, NEW h \in Characters
  PROVE  Record(h) \in Records /\ Record(h) # Nil /\ Restored(Record(h)) = h
<1>1. Record(h) \in Records
  BY DEF Record, Records, Version
<1>2. Record(h) # Nil
  BY <1>1 DEF SaveConstants
<1>3. Restored(Record(h)) = Converted(Record(h))
  BY <1>2 DEF Restored, Valid, Record
<1>4. Converted(Record(h)) = [h EXCEPT !.own = h.own \cap DOMAIN Since]
  BY LayoutNow DEF Converted, Record
<1>5. h.own \cap DOMAIN Since = h.own
  BY DEF Characters
<1>6. [h EXCEPT !.own = h.own] = h
  BY DEF Characters
<1> QED
  BY <1>1, <1>2, <1>3, <1>4, <1>5, <1>6

LEMMA SlotType ==
  ASSUME SaveConstants, NEW d \in [Files -> {Nil} \cup Records], NEW s \in Slots
  PROVE  /\ SourceFile(d, s) \in Files
         /\ SlotHolds(d, s) \in {Nil} \cup Characters
         /\ SourceFile(d, s) = Legacy => s = First /\ d[First] = Nil
<1>1. SourceFile(d, s) \in Files
  BY DEF SourceFile, Files
<1>2. d[SourceFile(d, s)] \in {Nil} \cup Records
  BY <1>1
<1>3. SlotHolds(d, s) \in {Nil} \cup Characters
  BY <1>2, ConvertedType DEF SlotHolds, Restored, Valid
<1> QED
  BY <1>1, <1>3 DEF SourceFile, SaveConstants

LEMMA SavesBegin == SaveConstants /\ SaveInit => SavesKept
<1> SUFFICES ASSUME SaveConstants, SaveInit PROVE SavesKept
  OBVIOUS
<1>1. \A v \in {4, Version} : v \in 1..Version /\ Layout(v) \in SUBSET DOMAIN Since
  BY DEF Layout, Version
<1>2. OldHeroes \subseteq Records
  BY <1>1 DEF OldHeroes, Records, Characters, SaveConstants
<1>3. disk \in [Files -> {Nil} \cup Records]
  BY <1>2 DEF SaveInit
<1>4. owed \in [Slots -> {Nil} \cup Characters] /\ NothingLost
  BY <1>3, SlotType DEF SaveInit, NothingLost
<1> QED
  BY <1>3, <1>4 DEF SaveInit, SavesKept, SaveConstants

\* A call begins: for a save of the hero, or of what the old key holds.
LEMMA JobBegins ==
  ASSUME SaveConstants, NEW op \in {"save", "migrate"}, NEW s \in Slots, NEW h \in Characters,
         Begin(op, s, h)
  PROVE  /\ job' \in Jobs /\ job' # Nil /\ job'.op = op /\ job'.slot = s /\ job'.at = "write"
<1>1. job' = [op |-> op, slot |-> s, at |-> "write", hero |-> h]
  BY DEF Begin
<1>2. job' \in Jobs
  BY <1>1 DEF Jobs
<1>3. job' # Nil
  BY <1>2 DEF Jobs, SaveConstants
<1> QED
  BY <1>1, <1>2, <1>3

\* The file of a slot is replaced: that slot gives back what was saved, and the
\* others what they did before.
LEMMA OthersAsBefore ==
  ASSUME SaveConstants, SavesKept, NEW s \in Slots, NEW h \in Characters,
         disk' = [disk EXCEPT ![s] = Record(h)], owed' = [owed EXCEPT ![s] = h]
  PROVE  NothingLost'
<1>1. /\ disk \in [Files -> {Nil} \cup Records] /\ owed \in [Slots -> {Nil} \cup Characters]
      /\ NothingLost /\ s \in Files
  BY DEF SavesKept, Files
<1>2. disk'[s] = Record(h) /\ Record(h) # Nil /\ Restored(Record(h)) = h
  BY <1>1, RecordGivesBack
<1>3. SlotHolds(disk', s) = h
  BY <1>2 DEF SlotHolds, SourceFile
<1>4. ASSUME NEW t \in Slots, t # s PROVE SlotHolds(disk', t) = SlotHolds(disk, t)
  <2>1. t \in Files /\ Legacy \in Files /\ Legacy # s
    BY DEF Files, SaveConstants
  <2>2. disk'[t] = disk[t] /\ disk'[Legacy] = disk[Legacy]
    BY <1>1, <1>4, <2>1
  <2> QED
    BY <2>2 DEF SlotHolds, SourceFile
<1> QED
  BY <1>1, <1>3, <1>4 DEF NothingLost

\* Nothing of the files or of the calls changes.
LEMMA MenusOnly ==
  ASSUME SaveConstants, SavesKept, UNCHANGED <<disk, tmp, job, owed>>,
         menu' \in {"closed", "load", "save"} \cup Slots,
         hero' \in {Nil} \cup Characters,
         screen' = "town" => hero' # Nil,
         menu' \in {"save"} \cup Slots => screen' = "town"
  PROVE  SavesKept'
<1>1. NothingLost'
  BY DEF SavesKept, NothingLost
<1> QED
  BY <1>1 DEF SavesKept

\* A call ends, or goes a step further with no file replaced.
LEMMA FilesStay ==
  ASSUME SaveConstants, SavesKept, UNCHANGED <<disk, screen, hero, owed>>,
         tmp' \in [Slots -> {Nil, "torn", "whole"}],
         menu' \in {menu, "closed"},
         \/ job' = Nil
         \/ job # Nil /\ job'.at \in {"flush", "replace"} /\ job' = [job EXCEPT !.at = job'.at]
  PROVE  SavesKept'
<1>1. NothingLost'
  BY DEF SavesKept, NothingLost
<1>2. CASE job' = Nil
  BY <1>1, <1>2 DEF SavesKept, SaveConstants
<1>3. CASE job # Nil /\ job'.at \in {"flush", "replace"} /\ job' = [job EXCEPT !.at = job'.at]
  <2>1. job \in Jobs
    BY <1>3 DEF SavesKept
  <2>2. PICK a \in {"flush", "replace"} : a = job'.at
    BY <1>3
  <2>3. job' = [job EXCEPT !.at = a]
    BY <1>3, <2>2
  <2>4. job' \in Jobs /\ job'.op = job.op /\ job'.slot = job.slot
    BY <2>1, <2>3 DEF Jobs
  <2> QED
    BY <1>1, <1>3, <2>4 DEF SavesKept, SaveConstants
<1> QED
  BY <1>2, <1>3

LEMMA SavesStep == SaveConstants /\ SavesKept /\ [SaveNext]_saveVars => SavesKept'
<1> SUFFICES ASSUME SaveConstants, SavesKept, [SaveNext]_saveVars PROVE SavesKept'
  OBVIOUS
<1> USE DEF MenuAt, Settled
<1>1. CASE OpenLoadGameMenu
  BY <1>1, MenusOnly DEF OpenLoadGameMenu, SavesKept, SaveConstants
<1>2. CASE OpenSaveGameMenu
  BY <1>2, MenusOnly DEF OpenSaveGameMenu, SavesKept, SaveConstants
<1>3. CASE CancelMenu
  BY <1>3, MenusOnly DEF CancelMenu, SavesKept, SaveConstants
<1>4. CASE Advance
  <2>1. hero \in Characters /\ hero.far + 1 \in 0..Progress /\ hero' = [hero EXCEPT !.far = hero.far + 1]
    BY <1>4 DEF Advance, SavesKept, Characters, SaveConstants
  <2>2. hero' \in Characters
    BY <2>1 DEF Characters
  <2>3. hero' # Nil
    BY <2>2 DEF SaveConstants
  <2> QED
    BY <1>4, <2>2, <2>3, MenusOnly DEF Advance, SavesKept, SaveConstants
<1>5. ASSUME NEW h \in Heroes, CreateHero(h) PROVE SavesKept'
  <2>1. hero' = [who |-> h, far |-> 0, own |-> Layout(Version)]
    BY <1>5 DEF CreateHero
  <2>2. hero' \in Characters
    BY <2>1, LayoutNow DEF Characters, SaveConstants
  <2>3. hero' # Nil
    BY <2>2 DEF SaveConstants
  <2> QED
    BY <1>5, <2>2, <2>3, MenusOnly DEF CreateHero, SavesKept, SaveConstants
<1>6. ASSUME NEW s \in Slots, ChooseSaveSlot(s) PROVE SavesKept'
  <2>1. CASE SlotState(s) = "empty"
    <3>1. hero \in Characters /\ Begin("save", s, hero) /\ UNCHANGED <<disk, tmp, screen, menu, hero, owed>>
      BY <1>6, <2>1 DEF ChooseSaveSlot, SavesKept
    <3>2. job' \in Jobs /\ job' # Nil /\ job'.op = "save" /\ job'.slot = s /\ job'.at = "write"
      BY <3>1, JobBegins
    <3>3. NothingLost'
      BY <3>1 DEF SavesKept, NothingLost
    <3> QED
      BY <3>1, <3>2, <3>3 DEF SavesKept
  <2>2. CASE SlotState(s) # "empty"
    BY <1>6, <2>2, MenusOnly DEF ChooseSaveSlot, SavesKept, SaveConstants
  <2> QED
    BY <2>1, <2>2
<1>7. ASSUME NEW s \in Slots, ChooseLoadSlot(s) PROVE SavesKept'
  <2>1. PICK h : h = SlotHolds(disk, s)
    OBVIOUS
  <2>2. h \in {Nil} \cup Characters /\ (SourceFile(disk, s) = Legacy => s = First)
    BY <2>1, SlotType DEF SavesKept
  <2>3. CASE h = Nil
    BY <1>7, <2>1, <2>3, MenusOnly DEF ChooseLoadSlot, SavesKept
  <2>4. CASE h # Nil /\ SourceFile(disk, s) = Legacy
    <3>1. Begin("migrate", s, h) /\ UNCHANGED <<disk, tmp, screen, menu, hero, owed>>
      BY <1>7, <2>1, <2>4 DEF ChooseLoadSlot
    <3>2. job' \in Jobs /\ job' # Nil /\ job'.op = "migrate" /\ job'.slot = s /\ job'.at = "write"
      BY <2>2, <2>4, <3>1, JobBegins
    <3>3. NothingLost'
      BY <3>1 DEF SavesKept, NothingLost
    <3> QED
      BY <2>2, <2>4, <3>1, <3>2, <3>3 DEF SavesKept
  <2>5. CASE h # Nil /\ SourceFile(disk, s) # Legacy
    BY <1>7, <2>1, <2>2, <2>5, MenusOnly DEF ChooseLoadSlot, PlayAs, SavesKept, SaveConstants
  <2> QED
    BY <2>3, <2>4, <2>5
<1>8. CASE ConfirmOverwrite
  <2>1. /\ hero \in Characters /\ menu \in Slots /\ Begin("save", menu, hero)
        /\ UNCHANGED <<disk, tmp, screen, menu, hero, owed>>
    BY <1>8 DEF ConfirmOverwrite, SavesKept
  <2>2. job' \in Jobs /\ job' # Nil /\ job'.op = "save" /\ job'.slot = menu /\ job'.at = "write"
    BY <2>1, JobBegins
  <2>3. NothingLost'
    BY <2>1 DEF SavesKept, NothingLost
  <2> QED
    BY <2>1, <2>2, <2>3 DEF SavesKept
<1>9. CASE WriteTemporary
  <2>1. job # Nil /\ job \in Jobs /\ tmp \in [Slots -> {Nil, "torn", "whole"}]
    BY <1>9 DEF WriteTemporary, At, SavesKept
  <2>2. tmp' \in [Slots -> {Nil, "torn", "whole"}]
    BY <1>9, <2>1 DEF WriteTemporary
  <2>3. job' = Nil \/ job' = [job EXCEPT !.at = "flush"]
    BY <1>9 DEF WriteTemporary
  <2>4. job' = Nil \/ job'.at = "flush"
    BY <2>1, <2>3 DEF Jobs
  <2> QED
    BY <1>9, <2>1, <2>2, <2>3, <2>4, FilesStay DEF WriteTemporary
<1>10. CASE Flush
  <2>1. job # Nil /\ job \in Jobs /\ tmp \in [Slots -> {Nil, "torn", "whole"}]
    BY <1>10 DEF Flush, At, SavesKept
  <2>2. tmp' \in [Slots -> {Nil, "torn", "whole"}]
    BY <1>10, <2>1 DEF Flush
  <2>3. job' = Nil \/ job' = [job EXCEPT !.at = "replace"]
    BY <1>10 DEF Flush
  <2>4. job' = Nil \/ job'.at = "replace"
    BY <2>1, <2>3 DEF Jobs
  <2> QED
    BY <1>10, <2>1, <2>2, <2>3, <2>4, FilesStay DEF Flush
<1>11. CASE ReplaceFile
  <2>1. job # Nil /\ job \in Jobs /\ job.slot \in Slots /\ job.hero \in Characters
    BY <1>11 DEF ReplaceFile, At, SavesKept, Jobs
  <2>2. tmp' \in [Slots -> {Nil, "torn", "whole"}]
    BY <1>11, <2>1 DEF ReplaceFile, SavesKept
  <2>3. CASE UNCHANGED <<disk, owed>> /\ job' = Nil
    BY <1>11, <2>2, <2>3, FilesStay DEF ReplaceFile
  <2>4. CASE /\ disk' = [disk EXCEPT ![job.slot] = Record(job.hero)]
             /\ owed' = [owed EXCEPT ![job.slot] = job.hero]
             /\ job' = [job EXCEPT !.at = IF job.op = "save" THEN "told" ELSE "drop"]
    <3>1. PICK s, h : s = job.slot /\ h = job.hero
      OBVIOUS
    <3>2. s \in Slots /\ h \in Characters
      BY <2>1, <3>1
    <3>3. disk' = [disk EXCEPT ![s] = Record(h)] /\ owed' = [owed EXCEPT ![s] = h]
      BY <2>4, <3>1
    <3>4. NothingLost'
      BY <3>2, <3>3, OthersAsBefore
    <3>5. Record(h) \in Records /\ Record(h) # Nil
      BY <3>2, RecordGivesBack
    <3>6. /\ disk \in [Files -> {Nil} \cup Records] /\ owed \in [Slots -> {Nil} \cup Characters]
          /\ s \in Files
      BY <3>2 DEF SavesKept, Files
    <3>7. /\ disk' \in [Files -> {Nil} \cup Records] /\ owed' \in [Slots -> {Nil} \cup Characters]
          /\ disk'[s] # Nil
      BY <3>2, <3>3, <3>5, <3>6
    <3>8. /\ job' \in Jobs /\ job'.op = job.op /\ job'.slot = s
          /\ job'.at = IF job.op = "save" THEN "told" ELSE "drop"
      BY <2>1, <2>4, <3>1 DEF Jobs
    <3>9. job.op \in {"save", "migrate"} /\ (job.op = "migrate" => s = First)
      BY <2>1, <3>1 DEF Jobs, SavesKept
    <3>10. UNCHANGED <<screen, menu, hero>>
      BY <1>11 DEF ReplaceFile
    <3> QED
      BY <2>2, <3>4, <3>7, <3>8, <3>9, <3>10 DEF SavesKept
  <2> QED
    BY <1>11, <2>3, <2>4 DEF ReplaceFile
<1>12. CASE FinishSave
  BY <1>12, FilesStay DEF FinishSave, SavesKept
<1>13. CASE DropLegacy
  <2>1. job # Nil /\ job \in Jobs /\ job.hero \in Characters /\ disk[First] # Nil
    BY <1>13 DEF DropLegacy, At, SavesKept, Jobs
  <2>2. disk \in [Files -> {Nil} \cup Records] /\ NothingLost /\ Legacy \in Files
    BY DEF SavesKept, Files
  <2>3. disk' = disk \/ disk' = [disk EXCEPT ![Legacy] = Nil]
    BY <1>13 DEF DropLegacy
  <2>4. disk' \in [Files -> {Nil} \cup Records]
    BY <2>2, <2>3
  <2>5. \A s \in Slots : SlotHolds(disk', s) = SlotHolds(disk, s)
    <3> SUFFICES ASSUME NEW s \in Slots PROVE SlotHolds(disk', s) = SlotHolds(disk, s)
      OBVIOUS
    <3>1. s \in Files /\ First \in Files /\ s # Legacy /\ First # Legacy
      BY DEF Files, SaveConstants
    <3>2. disk'[s] = disk[s] /\ disk'[First] = disk[First]
      BY <2>2, <2>3, <3>1
    <3> QED
      BY <2>1, <3>2 DEF SlotHolds, SourceFile
  <2>6. NothingLost'
    BY <1>13, <2>2, <2>5 DEF NothingLost, DropLegacy
  <2>7. hero' = job.hero /\ hero' # Nil
    BY <1>13, <2>1 DEF DropLegacy, PlayAs, SaveConstants
  <2> QED
    BY <1>13, <2>1, <2>4, <2>6, <2>7 DEF DropLegacy, PlayAs, SavesKept, SaveConstants
<1>14. CASE Restart
  <2>1. NothingLost'
    BY <1>14 DEF Restart, SavesKept, NothingLost
  <2> QED
    BY <1>14, <2>1 DEF Restart, SavesKept, SaveConstants
<1>15. CASE UNCHANGED saveVars
  <2>1. NothingLost'
    BY <1>15 DEF saveVars, SavesKept, NothingLost
  <2> QED
    BY <1>15, <2>1 DEF saveVars, SavesKept
<1> QED
  BY <1>1, <1>2, <1>3, <1>4, <1>5, <1>6, <1>7, <1>8, <1>9, <1>10, <1>11, <1>12, <1>13, <1>14, <1>15
     DEF SaveNext

\* Whatever is saved, overwritten, loaded or converted, and wherever the process
\* ends in between, each slot gives back the last character that was put into it
\* (Preferences::putBytes, loadGameFromSlot).
THEOREM SavesAreKept == SaveSpec => []NothingLost
<1>1. SaveInit => SavesKept
  BY SaveAssumption, SavesBegin
<1>2. SavesKept /\ [SaveNext]_saveVars => SavesKept'
  BY SaveAssumption, SavesStep
<1>3. SavesKept => NothingLost
  BY DEF SavesKept
<1> QED
  BY <1>1, <1>2, <1>3, PTL DEF SaveSpec

-----------------------------------------------------------------------------
(* Riddle *)

RoomStates == {"unsolved", "presented", "collected", "complete"}

RiddleRooms ==
  [state : RoomStates, result : {"unanswered", "right", "wrong"},
   attempts : 0..MaxAttempts, flags : SUBSET {"retry", "chase", "caught"},
   key : BOOLEAN, cat : BOOLEAN, tries : Nat, threshold : Nat]

\* Who may answer has paid for it or earned it, or asks for the first time; the
\* key is down only where the riddle is no longer unsolved.
GuessesCounted ==
  /\ room \in RiddleRooms /\ granted \in 0..room.attempts /\ keys \in Nat
  /\ Awaited /\ room.result = "unanswered" => room.attempts <= granted
  /\ room.state = "unsolved" => keys = 0
  /\ NoFreeGuess

LEMMA AttemptsAre == \A r \in RiddleRooms : r.attempts \in 0..MaxAttempts /\ MaxAttempts = 4
  BY DEF RiddleRooms, MaxAttempts

LEMMA RoomAnswered ==
  ASSUME NEW r \in RiddleRooms, NEW n \in 0..MaxAttempts,
         NEW f \in SUBSET {"retry", "chase", "caught"}
  PROVE  /\ [r EXCEPT !.attempts = n, !.flags = f] \in RiddleRooms
         /\ [r EXCEPT !.attempts = n, !.result = "right"] \in RiddleRooms
         /\ [r EXCEPT !.attempts = n, !.result = "right", !.state = "presented", !.key = TRUE]
              \in RiddleRooms
  BY DEF RiddleRooms, RoomStates

LEMMA RiddleBegins == RiddleInit => GuessesCounted
  BY DEF RiddleInit, GuessesCounted, RiddleRooms, RoomStates, MaxAttempts, Awaited, Spent, NoFreeGuess

\* No guess is counted, none granted or only the one whose terms are gone, and
\* nobody may answer who could not before unless it was granted.
LEMMA NotGuessed ==
  ASSUME GuessesCounted, room' \in RiddleRooms, UNCHANGED keys,
         room'.attempts = room.attempts, room'.result = room.result \/ room'.result # "unanswered",
         room'.state = "unsolved" => room.state = "unsolved",
         "retry" \in room'.flags => "retry" \in room.flags,
         \/ /\ granted' = granted
            /\ room'.state = "unsolved" /\ "retry" \in room.flags => "retry" \in room'.flags
         \/ granted' = granted + 1 /\ "retry" \in room.flags /\ "retry" \notin room'.flags
  PROVE  GuessesCounted'
<1>1. PICK r, g : r = room' /\ g = granted'
  OBVIOUS
<1>2. room.attempts \in Nat /\ granted \in Nat /\ g \in Nat
  BY <1>1, AttemptsAre DEF GuessesCounted
<1> QED
  BY <1>1, <1>2 DEF GuessesCounted, Awaited, Spent, NoFreeGuess

\* An answer is heard.
LEMMA GuessHeard ==
  ASSUME GuessesCounted, NEW p \in Talkers, NEW right \in BOOLEAN, AnswerRiddle(p, right)
  PROVE  GuessesCounted'
<1>0. /\ room \in RiddleRooms /\ room.attempts \in 0..MaxAttempts /\ MaxAttempts = 4
      /\ granted \in Nat /\ granted <= room.attempts /\ keys \in Nat
  BY AttemptsAre DEF GuessesCounted
<1>1. CASE room.result # "unanswered"
  <2>1. UNCHANGED <<room, granted, keys>>
    BY <1>1 DEF AnswerRiddle
  <2> QED
    BY <1>0, <2>1, NotGuessed
<1>2. CASE room.result = "unanswered"
  <2>1. PICK fits \in BOOLEAN :
          /\ room' = Answered(right, fits)
          /\ keys' = keys + IF room'.key /\ ~room.key THEN 1 ELSE 0
          /\ granted' = granted
    BY <1>2 DEF AnswerRiddle
  <2>4. PICK n : n = room.attempts + 1
    OBVIOUS
  <2>2. CASE ~Awaited
    <3>1. PICK res \in {"right", "wrong"} : room' = [room EXCEPT !.result = res]
      BY <2>1, <2>2 DEF Answered
    <3>2. /\ room' \in RiddleRooms /\ room'.result = res
          /\ room'.attempts = room.attempts /\ room'.state = room.state
          /\ room'.flags = room.flags /\ room'.key = room.key
      BY <1>0, <3>1 DEF RiddleRooms
    <3>3. keys' = keys
      BY <1>0, <2>1, <3>2
    <3> QED
      BY <2>1, <3>2, <3>3, NotGuessed
  <2>3. CASE Awaited
    <3>1. /\ room.state = "unsolved" /\ "retry" \notin room.flags /\ n \in 1..MaxAttempts
          /\ n \in 0..MaxAttempts /\ n <= 1 + granted /\ keys = 0
      BY <1>0, <1>2, <2>3, <2>4 DEF GuessesCounted, Awaited, Spent, MaxAttempts, RiddleRooms
    <3>2. CASE ~right
      <4>1. PICK f : /\ room' = [room EXCEPT !.attempts = n, !.flags = f]
                     /\ f = room.flags \cup IF n < MaxAttempts THEN {"retry"} ELSE {}
        BY <2>1, <2>3, <2>4, <3>2 DEF Answered
      <4>2. f \in SUBSET {"retry", "chase", "caught"}
        BY <1>0, <4>1 DEF RiddleRooms
      <4>3. /\ room' \in RiddleRooms /\ room'.attempts = n /\ room'.flags = f
            /\ room'.state = "unsolved" /\ room'.key = room.key
        <5>1. room' \in RiddleRooms
          BY <1>0, <3>1, <4>1, <4>2, RoomAnswered
        <5> QED
          BY <1>0, <3>1, <4>1, <5>1 DEF RiddleRooms
      <4>4. keys' = keys
        BY <1>0, <2>1, <4>3
      <4>5. "retry" \in f <=> n < MaxAttempts
        BY <3>1, <4>1
      <4>6. granted < n
        BY <1>0, <2>4
      <4> QED
        BY <1>0, <2>1, <2>4, <3>1, <4>3, <4>4, <4>5, <4>6 DEF GuessesCounted, Awaited, Spent, NoFreeGuess, MaxAttempts
    <3>3. CASE right /\ ~fits
      <4>1. room' = [room EXCEPT !.attempts = n, !.result = "right"]
        BY <2>1, <2>3, <2>4, <3>3 DEF Answered
      <4>2. /\ room' \in RiddleRooms /\ room'.attempts = n /\ room'.flags = room.flags
            /\ room'.state = "unsolved" /\ room'.key = room.key /\ room'.result = "right"
        <5>1. room' \in RiddleRooms
          BY <1>0, <3>1, <4>1, RoomAnswered
        <5> QED
          BY <1>0, <3>1, <4>1, <5>1, Zenon DEF RiddleRooms
      <4>3. keys' = keys
        BY <1>0, <2>1, <4>2
      <4> QED
        BY <1>0, <2>1, <2>4, <3>1, <4>2, <4>3 DEF GuessesCounted, Awaited, Spent, NoFreeGuess
    <3>4. CASE right /\ fits
      <4>1. room' = [room EXCEPT !.attempts = n, !.result = "right",
                                 !.state = "presented", !.key = TRUE]
        BY <2>1, <2>3, <2>4, <3>4 DEF Answered
      <4>2. /\ room' \in RiddleRooms /\ room'.attempts = n /\ room'.flags = room.flags
            /\ room'.state = "presented" /\ room'.result = "right"
        <5>1. room' \in RiddleRooms
          BY <1>0, <3>1, <4>1, RoomAnswered
        <5> QED
          BY <1>0, <3>1, <4>1, <5>1, Zenon DEF RiddleRooms
      <4>3. keys' \in {0, 1}
        BY <2>1, <3>1
      <4> QED
        BY <1>0, <2>1, <2>4, <3>1, <4>2, <4>3 DEF GuessesCounted, Awaited, Spent, NoFreeGuess
    <3> QED
      BY <3>2, <3>3, <3>4
  <2> QED
    BY <2>2, <2>3
<1> QED
  BY <1>1, <1>2

LEMMA RiddleStep ==
  ASSUME Thresholds \subseteq Nat, GuessesCounted, [RiddleNext]_riddleVars
  PROVE  GuessesCounted'
<1>0. room \in RiddleRooms /\ room.attempts \in 0..MaxAttempts /\ granted \in Nat
  BY AttemptsAre DEF GuessesCounted
<1>s. ASSUME UNCHANGED <<room, granted, keys>> PROVE GuessesCounted'
  BY <1>0, <1>s, NotGuessed
<1>1. ASSUME NEW p \in Talkers, Ask(p) PROVE GuessesCounted'
  <2>1. CASE room' = [room EXCEPT !.flags = @ \ {"caught"}]
    <3>1. /\ room' \in RiddleRooms /\ room'.attempts = room.attempts /\ room'.result = room.result
          /\ room'.state = room.state /\ room'.flags = room.flags \ {"caught"}
      BY <1>0, <2>1 DEF RiddleRooms
    <3> QED
      BY <1>1, <3>1, NotGuessed DEF Ask
  <2> QED
    BY <1>1, <2>1, <1>s DEF Ask
<1>2. ASSUME NEW p \in Talkers, Back(p) PROVE GuessesCounted'
  BY <1>2, <1>s DEF Back
<1>3. ASSUME NEW p \in Talkers, Pay(p) PROVE GuessesCounted'
  <2>1. CASE UNCHANGED <<purse, room, granted>>
    BY <1>3, <2>1, <1>s DEF Pay
  <2>2. CASE "retry" \in room.flags /\ room' = [room EXCEPT !.flags = @ \ {"retry", "caught"}]
             /\ granted' = granted + 1
    <3>1. /\ room' \in RiddleRooms /\ room'.attempts = room.attempts /\ room'.result = room.result
          /\ room'.state = room.state /\ room'.flags = room.flags \ {"retry", "caught"}
      BY <1>0, <2>2 DEF RiddleRooms
    <3> QED
      BY <1>3, <2>2, <3>1, NotGuessed DEF Pay
  <2> QED
    BY <1>3, <2>1, <2>2 DEF Pay
<1>4. ASSUME NEW p \in Talkers, ChaseCat(p) PROVE GuessesCounted'
  <2>1. CASE UNCHANGED room
    BY <1>4, <2>1, <1>s DEF ChaseCat
  <2>2. ASSUME NEW h \in Thresholds,
               room' = [room EXCEPT !.cat = TRUE, !.tries = 0, !.threshold = h,
                                    !.flags = (@ \cup {"chase"}) \ {"caught"}]
        PROVE  GuessesCounted'
    <3>1. /\ room' \in RiddleRooms /\ room'.attempts = room.attempts /\ room'.result = room.result
          /\ room'.state = room.state /\ room'.flags = (room.flags \cup {"chase"}) \ {"caught"}
      BY <1>0, <2>2 DEF RiddleRooms
    <3> QED
      BY <1>4, <3>1, NotGuessed DEF ChaseCat
  <2> QED
    BY <1>4, <2>1, <2>2 DEF ChaseCat
<1>5. ASSUME NEW p \in Talkers, CatchCat(p) PROVE GuessesCounted'
  <2>1. CASE CatFlees
    <3>1. /\ room' \in RiddleRooms /\ room'.attempts = room.attempts /\ room'.result = room.result
          /\ room'.state = room.state /\ room'.flags = room.flags
      BY <1>0, <2>1 DEF CatFlees, RiddleRooms
    <3> QED
      BY <1>5, <2>1, <3>1, NotGuessed DEF CatchCat, CatFlees
  <2>2. CASE CatIsCaught
    <3>1. /\ room' = [room EXCEPT !.tries = @ + 1, !.cat = FALSE,
                                 !.flags = (@ \ {"chase", "retry"}) \cup {"caught"}]
          /\ granted' = granted + IF "retry" \in room.flags THEN 1 ELSE 0
          /\ keys' = keys
      BY <1>5, <2>2 DEF CatIsCaught, CatchCat
    <3>2. /\ room' \in RiddleRooms /\ room'.attempts = room.attempts /\ room'.result = room.result
          /\ room'.state = room.state
          /\ room'.flags = (room.flags \ {"chase", "retry"}) \cup {"caught"}
      <4>1. room.tries + 1 \in Nat
        BY <1>0 DEF RiddleRooms
      <4>2. (room.flags \ {"chase", "retry"}) \cup {"caught"} \in SUBSET {"retry", "chase", "caught"}
        BY <1>0 DEF RiddleRooms
      <4>3. PICK f, t : f = (room.flags \ {"chase", "retry"}) \cup {"caught"} /\ t = room.tries + 1
        OBVIOUS
      <4>4. room' = [room EXCEPT !.tries = t, !.cat = FALSE, !.flags = f]
        BY <3>1, <4>3
      <4> QED
        BY <1>0, <4>1, <4>2, <4>3, <4>4 DEF RiddleRooms
    <3> QED
      BY <1>0, <3>1, <3>2, NotGuessed
  <2> QED
    BY <1>5, <2>1, <2>2 DEF CatchCat
<1>6. ASSUME NEW p \in Talkers, TakeKey(p) PROVE GuessesCounted'
  <2>1. /\ room' \in RiddleRooms /\ room'.attempts = room.attempts /\ room'.result = room.result
        /\ room'.state = "collected" /\ room'.flags = room.flags
    BY <1>0, <1>6 DEF TakeKey, RiddleRooms, RoomStates
  <2> QED
    BY <1>6, <2>1, NotGuessed DEF TakeKey
<1>7. ASSUME NEW p \in Talkers, UseKey(p) PROVE GuessesCounted'
  <2>1. /\ room' \in RiddleRooms /\ room'.attempts = room.attempts /\ room'.result = room.result
        /\ room'.state = "complete" /\ room'.flags = room.flags
    BY <1>0, <1>7 DEF UseKey, RiddleRooms, RoomStates
  <2> QED
    BY <1>7, <2>1, NotGuessed DEF UseKey
<1>8. ASSUME NEW p \in Talkers, FaceDoor(p) PROVE GuessesCounted'
  BY <1>8, <1>s DEF FaceDoor
<1>9. ASSUME NEW p \in Talkers, NEW b \in BOOLEAN, PickLock(p, b) PROVE GuessesCounted'
  <2>1. CASE room' = room
    BY <1>9, <2>1, <1>s DEF PickLock
  <2>2. CASE room' = Bypassed
    <3>1. /\ room' \in RiddleRooms /\ room'.attempts = room.attempts /\ room'.result = room.result
          /\ room'.state = "complete" /\ room'.flags = room.flags \ {"chase", "retry", "caught"}
      BY <1>0, <2>2 DEF Bypassed, RiddleRooms, RoomStates
    <3> QED
      BY <1>9, <3>1, NotGuessed DEF PickLock
  <2> QED
    BY <1>9, <2>1, <2>2 DEF PickLock
<1>10. CASE UNCHANGED riddleVars
  BY <1>10, <1>s DEF riddleVars
<1> QED
  BY <1>1, <1>2, <1>3, <1>4, <1>5, <1>6, <1>7, <1>8, <1>9, <1>10, GuessHeard DEF RiddleNext

\* However many players have the riddle or its terms open, every counted guess
\* after the first was paid for or earned and the key is put down once
\* (answerActiveBertramRiddle, payForCurrentRiddleRetry).
THEOREM NobodyGuessesFree == RiddleSpec => []NoFreeGuess
<1>1. GuessesCounted /\ [RiddleNext]_riddleVars => GuessesCounted'
  BY RiddleAssumption, RiddleStep
<1>2. GuessesCounted => NoFreeGuess
  BY DEF GuessesCounted
<1> QED
  BY <1>1, <1>2, RiddleBegins, PTL DEF RiddleSpec

-----------------------------------------------------------------------------
(* Traps *)

\* The smallest of some numbers is one of them.
LEMMA Smallest ==
  ASSUME NEW S \in SUBSET Nat, S # {}
  PROVE  (CHOOSE i \in S : \A j \in S : i <= j) \in S
<1>1. IsWellFoundedOn(OpToRel(<, Nat), Nat)
  BY NatLessThanWellFounded
<1>2. PICK i \in S : \A j \in S : <<j, i>> \notin OpToRel(<, Nat)
  BY <1>1, WFMin, Zenon
<1>3. ASSUME NEW j \in S PROVE i <= j
  <2>1. i \in Nat /\ j \in Nat /\ <<j, i>> \in Nat \X Nat
    OBVIOUS
  <2>2. ~(j < i)
    BY <1>2, <2>1 DEF OpToRel
  <2> QED
    BY <2>1, <2>2
<1> QED
  BY <1>3

TrapKinds == {"none", "spike", "projectile", "spell", "elemental"}

TrapRecords ==
  [kind : TrapKinds, discovered : BOOLEAN, tried : SUBSET {"search", "sense"},
   disabled : BOOLEAN, triggered : BOOLEAN, charging : BOOLEAN, round : Nat, left : Nat]

\* A trap that went off is marked, only an elemental one charges, and where
\* there is one there is no other: so whoever stands on a charging trap began its
\* warning, or one after it, with the last step, and in the round of that step.
TrapsInOrder ==
  /\ traps \in [Plates -> TrapRecords] /\ on \in [Walkers -> SUBSET Plates]
  /\ round \in Nat /\ since \in [Walkers -> 0..Warning] /\ fired \in [Plates -> Nat]
  /\ \A i, j \in Plates : traps[i].kind = "elemental" /\ traps[j].kind # "none" => i = j
  /\ \A i \in Plates :
       /\ fired[i] = IF traps[i].triggered THEN 1 ELSE 0
       /\ traps[i].charging => traps[i].kind = "elemental" /\ ~traps[i].triggered
       /\ traps[i].charging /\ ~traps[i].disabled =>
            \A w \in Walkers : i \in on[w] =>
              /\ traps[i].left + since[w] >= Warning
              /\ w \in stepped => traps[i].round = round
  /\ disarmed \in SUBSET Plates
  /\ \A i \in disarmed : traps[i].disabled /\ ~traps[i].charging /\ ~traps[i].triggered
  /\ ~burnt

LEMMA TrapsBegin ==
  ASSUME Plates \subseteq Nat, Warning \in Nat, TrapInit
  PROVE  TrapsInOrder
<1>1. PICK level \in Levels : \E kinds \in Populated(level) : traps = [i \in Plates |-> Set(kinds[i])]
  BY DEF TrapInit
<1>2. PICK kinds \in Populated(level) : traps = [i \in Plates |-> Set(kinds[i])]
  BY <1>1
<1>3. /\ \A i \in Plates : kinds[i] \in TrapKinds
      /\ \A i, j \in Plates : kinds[i] = "elemental" /\ kinds[j] # "none" => i = j
  <2>1. CASE kinds \in Authored
    <3>1. PICK P \in SUBSET Plates : kinds = [i \in Plates |-> IF i \in P THEN "spike" ELSE "none"]
      BY <2>1 DEF Authored
    <3> QED
      BY <3>1 DEF TrapKinds
  <2>2. CASE kinds \notin Authored
    <3>1. PICK k \in Generated(level) : kinds = [i \in Plates |-> IF i = 1 THEN k ELSE "none"]
      BY <2>2 DEF Populated
    <3>2. k \in TrapKinds
      BY DEF Generated, TrapKinds
    <3> QED
      BY <3>1, <3>2 DEF TrapKinds
  <2> QED
    BY <2>1, <2>2
<1>4. traps \in [Plates -> TrapRecords]
  BY <1>2, <1>3 DEF Set, TrapRecords
<1>5. \A i \in Plates : traps[i].kind = kinds[i] /\ ~traps[i].charging /\ ~traps[i].triggered
  BY <1>2 DEF Set
<1> QED
  BY <1>3, <1>4, <1>5 DEF TrapInit, TrapsInOrder

LEMMA StepOnTraps ==
  ASSUME Plates \subseteq Nat, Warning \in Nat, TrapsInOrder,
         NEW w \in Walkers, NEW plates \in SUBSET Plates, Step(w, plates)
  PROVE  TrapsInOrder'
<1> DEFINE armed == {i \in plates : Active(traps[i])}
<1>0. /\ on' = [on EXCEPT ![w] = plates] /\ since' = [since EXCEPT ![w] = 0]
      /\ UNCHANGED <<round, disarmed, burnt>>
      /\ \A v \in Walkers : v # w /\ v \in stepped' => v \in stepped
  BY DEF Step
<1>1. /\ on' \in [Walkers -> SUBSET Plates] /\ since' \in [Walkers -> 0..Warning]
      /\ \A v \in Walkers : v # w => on'[v] = on[v] /\ since'[v] = since[v]
      /\ on'[w] = plates /\ since'[w] = 0
  BY <1>0 DEF TrapsInOrder
<1>2. ASSUME NEW i \in Plates, traps[i].charging, ~traps[i].disabled, i \in plates
      PROVE  armed = {i}
  <2>1. i \in armed /\ traps[i].kind = "elemental"
    BY <1>2 DEF TrapsInOrder, Active
  <2>2. \A j \in armed : traps[j].kind # "none"
    BY DEF Active
  <2> QED
    BY <2>1, <2>2 DEF TrapsInOrder
<1>3. CASE armed = {}
  <2>1. UNCHANGED <<traps, fired>>
    BY <1>3 DEF Step
  <2>2. ASSUME NEW i \in Plates, traps[i].charging, ~traps[i].disabled,
               NEW v \in Walkers, i \in on'[v]
        PROVE  traps[i].left + since'[v] >= Warning /\ (v \in stepped' => traps[i].round = round)
    <3>1. v # w
      BY <1>1, <1>2, <1>3, <2>2
    <3> QED
      BY <1>0, <1>1, <2>2, <3>1 DEF TrapsInOrder
  <2> QED
    BY <1>0, <1>1, <2>1, <2>2 DEF TrapsInOrder
<1>4. CASE armed # {}
  <2>1. PICK i : i = CHOOSE k \in armed : \A j \in armed : k <= j
    OBVIOUS
  <2>2. i \in armed
    <3>1. armed \in SUBSET Nat
      OBVIOUS
    <3> QED
      BY <1>4, <2>1, <3>1, Smallest
  <2>3. i \in Plates /\ ~traps[i].triggered /\ ~traps[i].disabled /\ traps[i].kind # "none"
    BY <2>2 DEF Active
  <2>4. IF traps[i].kind = "elemental"
        THEN traps' = [traps EXCEPT ![i] = Charged(@)] /\ fired' = fired
        ELSE traps' = [traps EXCEPT ![i] = Sprung(@)] /\ fired' = [fired EXCEPT ![i] = @ + 1]
    BY <1>4, <2>1 DEF Step
  <2>5. CASE traps[i].kind = "elemental"
    <3>1. PICK t : t = Charged(traps[i])
      OBVIOUS
    <3>2. /\ t \in TrapRecords /\ t.kind = "elemental" /\ t.charging /\ ~t.triggered
          /\ t.left = Warning /\ t.round = round
      <4>1. PICK r : r = traps[i]
        OBVIOUS
      <4>2. r \in TrapRecords /\ r.kind = "elemental" /\ ~r.triggered /\ round \in Nat
        BY <2>3, <2>5, <4>1 DEF TrapsInOrder
      <4>3. t = [r EXCEPT !.charging = TRUE, !.discovered = TRUE, !.round = round, !.left = Warning]
        BY <3>1, <4>1 DEF Charged
      <4> QED
        BY <4>2, <4>3 DEF TrapRecords
    <3>3. /\ traps' \in [Plates -> TrapRecords] /\ traps'[i] = t /\ fired' = fired
          /\ \A j \in Plates : j # i => traps'[j] = traps[j]
      BY <2>3, <2>4, <2>5, <3>1, <3>2 DEF TrapsInOrder
    <3>4. \A j \in Plates : j # i => traps'[j].kind = "none" /\ ~traps'[j].charging
      BY <2>3, <2>5, <3>3 DEF TrapsInOrder
    <3>5. /\ \A v \in Walkers : t.left + since'[v] >= Warning
          /\ t.round = round'
      BY <1>0, <1>1, <3>2
    <3>6. \A j \in Plates : fired'[j] = IF traps'[j].triggered THEN 1 ELSE 0
      BY <2>3, <3>2, <3>3 DEF TrapsInOrder
    <3>7. \A j \in disarmed' : traps'[j].disabled /\ ~traps'[j].charging /\ ~traps'[j].triggered
      BY <1>0, <2>3, <3>3 DEF TrapsInOrder
    <3> QED
      BY <1>0, <1>1, <3>2, <3>3, <3>4, <3>5, <3>6, <3>7 DEF TrapsInOrder
  <2>6. CASE traps[i].kind # "elemental"
    <3>1. PICK t : t = Sprung(traps[i])
      OBVIOUS
    <3>2. /\ t \in TrapRecords /\ t.kind = traps[i].kind /\ ~t.charging /\ t.triggered
      <4>1. PICK r : r = traps[i]
        OBVIOUS
      <4>2. r \in TrapRecords /\ ~r.charging
        BY <2>3, <2>6, <4>1 DEF TrapsInOrder
      <4>3. t = [r EXCEPT !.triggered = TRUE, !.discovered = TRUE]
        BY <3>1, <4>1 DEF Sprung
      <4>4. t \in TrapRecords /\ t.kind = r.kind /\ ~t.charging /\ t.triggered
        BY <4>2, <4>3 DEF TrapRecords
      <4> QED
        BY <4>1, <4>4
    <3>3. /\ traps' \in [Plates -> TrapRecords] /\ traps'[i] = t
          /\ fired' = [fired EXCEPT ![i] = fired[i] + 1] /\ fired[i] = 0
          /\ \A j \in Plates : j # i => traps'[j] = traps[j]
      BY <2>3, <2>4, <2>6, <3>1, <3>2 DEF TrapsInOrder
    <3>4. fired' \in [Plates -> Nat] /\ fired'[i] = 1 /\ \A j \in Plates : j # i => fired'[j] = fired[j]
      BY <2>3, <3>3 DEF TrapsInOrder
    <3>5. ASSUME NEW j \in Plates, traps'[j].charging, ~traps'[j].disabled,
                 NEW v \in Walkers, j \in on'[v]
          PROVE  traps'[j].left + since'[v] >= Warning /\ (v \in stepped' => traps'[j].round = round)
      <4>1. j # i /\ traps'[j] = traps[j]
        BY <3>2, <3>3, <3>5
      <4>2. v # w
        <5> SUFFICES ASSUME v = w PROVE FALSE
          OBVIOUS
        <5>1. j \in plates /\ traps[j].charging /\ ~traps[j].disabled
          BY <1>1, <3>5, <4>1
        <5>2. armed = {j}
          BY <1>2, <5>1
        <5> QED
          BY <2>2, <4>1, <5>2
      <4> QED
        BY <1>0, <1>1, <3>5, <4>1, <4>2 DEF TrapsInOrder
    <3>6. \A j \in Plates : traps'[j].kind = traps[j].kind
      BY <3>2, <3>3
    <3>7. \A j \in Plates : /\ fired'[j] = IF traps'[j].triggered THEN 1 ELSE 0
                            /\ traps'[j].charging => traps'[j].kind = "elemental" /\ ~traps'[j].triggered
      BY <3>2, <3>3, <3>4 DEF TrapsInOrder
    <3>8. \A j \in disarmed' : traps'[j].disabled /\ ~traps'[j].charging /\ ~traps'[j].triggered
      BY <1>0, <2>3, <3>3 DEF TrapsInOrder
    <3> QED
      BY <1>0, <1>1, <3>3, <3>4, <3>5, <3>6, <3>7, <3>8 DEF TrapsInOrder
  <2> QED
    BY <2>5, <2>6
<1> QED
  BY <1>3, <1>4

LEMMA TrapsDischarge ==
  ASSUME Plates \subseteq Nat, Warning \in Nat, TrapsInOrder, Discharge
  PROVE  TrapsInOrder'
<1> DEFINE due == {i \in Plates : Due(traps[i])}
<1>1. /\ traps' = [i \in Plates |-> IF i \in due THEN [Sprung(traps[i]) EXCEPT !.charging = FALSE]
                                    ELSE traps[i]]
      /\ fired' = [i \in Plates |-> IF i \in due THEN fired[i] + 1 ELSE fired[i]]
      /\ UNCHANGED <<on, round, since, stepped, disarmed>>
  BY DEF Discharge
<1>2. ASSUME NEW i \in due
      PROVE  /\ traps'[i] \in TrapRecords /\ traps'[i].kind = traps[i].kind
             /\ ~traps'[i].charging /\ traps'[i].triggered
             /\ fired[i] = 0 /\ fired'[i] = 1
  <2>1. traps[i].charging /\ ~traps[i].triggered /\ traps[i] \in TrapRecords /\ fired[i] = 0
    BY DEF Due, TrapsInOrder
  <2>2. traps'[i] = [Sprung(traps[i]) EXCEPT !.charging = FALSE] /\ fired'[i] = fired[i] + 1
    BY <1>1
  <2>3. PICK r : r = traps[i]
    OBVIOUS
  <2>4. PICK t : t = traps'[i]
    OBVIOUS
  <2>5. t = [[r EXCEPT !.triggered = TRUE, !.discovered = TRUE] EXCEPT !.charging = FALSE]
    BY <2>2, <2>3, <2>4 DEF Sprung
  <2>6. t \in TrapRecords /\ t.kind = r.kind /\ ~t.charging /\ t.triggered
    BY <2>1, <2>3, <2>5 DEF TrapRecords
  <2> QED
    BY <2>1, <2>2, <2>3, <2>4, <2>6
<1>3. \A i \in Plates : i \notin due => traps'[i] = traps[i] /\ fired'[i] = fired[i]
  BY <1>1
<1>4. traps' \in [Plates -> TrapRecords] /\ fired' \in [Plates -> Nat]
  <2>1. \A i \in Plates : traps'[i] \in TrapRecords /\ fired'[i] \in Nat
    BY <1>2, <1>3 DEF TrapsInOrder
  <2> QED
    BY <1>1, <2>1
<1>5. burnt' = FALSE
  <2>1. ASSUME NEW w \in Walkers,
               NEW i \in on[w] \cap {j \in due : ~traps[j].disabled}, Unwarned(w)
        PROVE  FALSE
    <3>1. /\ traps[i].charging /\ ~traps[i].disabled /\ i \in Plates
          /\ IF round > 0 THEN round > traps[i].round ELSE traps[i].left = 0
      BY DEF Due
    <3>2. /\ traps[i].left + since[w] >= Warning /\ since[w] \in 0..Warning
          /\ w \in stepped => traps[i].round = round
          /\ round \in Nat
      BY <3>1 DEF TrapsInOrder
    <3> QED
      BY <2>1, <3>1, <3>2 DEF Unwarned
  <2> QED
    BY <2>1 DEF Discharge, TrapsInOrder
<1>6. \A i \in Plates : traps'[i].kind = traps[i].kind
  BY <1>2, <1>3
<1>7. \A i \in Plates :
        /\ fired'[i] = IF traps'[i].triggered THEN 1 ELSE 0
        /\ traps'[i].charging => traps'[i] = traps[i]
  BY <1>2, <1>3 DEF TrapsInOrder
<1>8. /\ disarmed' \in SUBSET Plates
      /\ \A i \in disarmed' : traps'[i].disabled /\ ~traps'[i].charging /\ ~traps'[i].triggered
  <2>1. disarmed' = disarmed /\ \A i \in disarmed : i \notin due
    BY <1>1 DEF TrapsInOrder, Due
  <2> QED
    BY <1>3, <2>1 DEF TrapsInOrder
<1>9. ASSUME NEW i \in Plates, traps'[i].charging, ~traps'[i].disabled,
             NEW w \in Walkers, i \in on'[w]
      PROVE  traps'[i].left + since'[w] >= Warning /\ (w \in stepped' => traps'[i].round = round')
  <2>1. traps'[i] = traps[i]
    BY <1>7, <1>9
  <2> QED
    BY <1>1, <1>9, <2>1 DEF TrapsInOrder
<1>10. /\ \A i, j \in Plates : traps'[i].kind = "elemental" /\ traps'[j].kind # "none" => i = j
       /\ \A i \in Plates : traps'[i].charging => traps'[i].kind = "elemental" /\ ~traps'[i].triggered
  BY <1>6, <1>7 DEF TrapsInOrder
<1>11. /\ on' \in [Walkers -> SUBSET Plates] /\ round' \in Nat /\ since' \in [Walkers -> 0..Warning]
  BY <1>1 DEF TrapsInOrder
<1> HIDE DEF due
<1> QED
  BY <1>4, <1>5, <1>7, <1>8, <1>9, <1>10, <1>11 DEF TrapsInOrder

\* No trap is charged or sprung, and the warnings go on or stay.
LEMMA TrapsWait ==
  ASSUME Warning \in Nat, TrapsInOrder, UNCHANGED <<on, fired, burnt>>,
         traps' \in [Plates -> TrapRecords], round' \in Nat, since' \in [Walkers -> 0..Warning],
         stepped' = {} \/ (UNCHANGED <<round, stepped>> /\ \A i \in Plates : traps'[i].round = traps[i].round),
         disarmed' \in SUBSET Plates,
         \A i \in disarmed' : i \in disarmed \/ (traps'[i].disabled /\ ~traps[i].charging /\ ~traps[i].triggered),
         \A i \in Plates : /\ traps'[i].kind = traps[i].kind
                           /\ traps'[i].triggered = traps[i].triggered
                           /\ traps'[i].charging = traps[i].charging
                           /\ traps[i].disabled => traps'[i].disabled
                           /\ \A w \in Walkers : traps[i].left + since[w] >= Warning =>
                                                 traps'[i].left + since'[w] >= Warning
  PROVE  TrapsInOrder'
  BY DEF TrapsInOrder

LEMMA TrapsStep ==
  ASSUME Plates \subseteq Nat, Warning \in Nat, TrapsInOrder, [TrapNext]_trapVars
  PROVE  TrapsInOrder'
<1>0. /\ traps \in [Plates -> TrapRecords] /\ round \in Nat /\ since \in [Walkers -> 0..Warning]
      /\ disarmed \in SUBSET Plates
  BY DEF TrapsInOrder
<1>s. ASSUME UNCHANGED <<traps, on, since, fired, disarmed, burnt>>, round' \in Nat,
             stepped' = {} \/ UNCHANGED <<round, stepped>>
      PROVE  TrapsInOrder'
  BY <1>0, <1>s, TrapsWait
<1>1. ASSUME NEW w \in Walkers, FaceFountain(w) \/ Drink(w) PROVE TrapsInOrder'
  BY <1>0, <1>1, <1>s DEF FaceFountain, Drink
<1>2. ASSUME NEW i \in Plates, NEW way \in {"search", "sense"}, NEW found \in BOOLEAN, Discover(i, way, found)
      PROVE  TrapsInOrder'
  <2>1. traps' = [traps EXCEPT ![i].tried = @ \cup {way}, ![i].discovered = found]
    BY <1>2 DEF Discover
  <2>2. PICK t : t = [[traps[i] EXCEPT !.tried = @ \cup {way}] EXCEPT !.discovered = found]
    OBVIOUS
  <2>3. /\ t \in TrapRecords /\ t.kind = traps[i].kind /\ t.triggered = traps[i].triggered
        /\ t.charging = traps[i].charging /\ t.disabled = traps[i].disabled /\ t.left = traps[i].left
        /\ t.round = traps[i].round
    BY <1>0, <2>2 DEF TrapRecords
  <2>4. traps' = [traps EXCEPT ![i] = t]
    BY <1>0, <2>1, <2>2
  <2>5. traps' \in [Plates -> TrapRecords] /\ traps'[i] = t /\ \A j \in Plates : j # i => traps'[j] = traps[j]
    BY <1>0, <2>3, <2>4
  <2> QED
    BY <1>0, <1>2, <2>3, <2>5, TrapsWait DEF Discover
<1>3. ASSUME NEW i \in Plates, Disable(i) PROVE TrapsInOrder'
  <2>1. PICK t : t = [traps[i] EXCEPT !.disabled = TRUE]
    OBVIOUS
  <2>2. /\ t \in TrapRecords /\ t.kind = traps[i].kind /\ t.triggered = traps[i].triggered
        /\ t.charging = traps[i].charging /\ t.disabled /\ t.left = traps[i].left
        /\ t.round = traps[i].round
    BY <1>0, <2>1 DEF TrapRecords
  <2>3. traps' \in [Plates -> TrapRecords] /\ traps'[i] = t /\ \A j \in Plates : j # i => traps'[j] = traps[j]
    BY <1>0, <1>3, <2>1, <2>2 DEF Disable
  <2>4. disarmed' \in SUBSET Plates /\ \A j \in disarmed' : j \in disarmed \/ (j = i /\ ~traps[i].charging)
    BY <1>0, <1>3 DEF Disable
  <2>5. ~traps[i].triggered
    BY <1>3 DEF Disable, Active
  <2> QED
    BY <1>0, <1>3, <2>2, <2>3, <2>4, <2>5, TrapsWait DEF Disable
<1>4. CASE Pass
  <2>1. /\ traps' = [i \in Plates |-> [traps[i] EXCEPT !.left = IF @ > 0 THEN @ - 1 ELSE 0]]
        /\ since' = [w \in Walkers |-> IF since[w] < Warning THEN since[w] + 1 ELSE Warning]
    BY <1>4 DEF Pass
  <2>2. since' \in [Walkers -> 0..Warning]
    BY <1>0, <2>1
  <2>3. ASSUME NEW i \in Plates
        PROVE  /\ traps'[i] \in TrapRecords /\ traps'[i].kind = traps[i].kind
               /\ traps'[i].triggered = traps[i].triggered /\ traps'[i].charging = traps[i].charging
               /\ traps'[i].disabled = traps[i].disabled /\ traps'[i].round = traps[i].round
               /\ traps'[i].left = IF traps[i].left > 0 THEN traps[i].left - 1 ELSE 0
    <3>1. traps'[i] = [traps[i] EXCEPT !.left = IF traps[i].left > 0 THEN traps[i].left - 1 ELSE 0]
      BY <2>1
    <3>2. traps[i] \in TrapRecords /\ (IF traps[i].left > 0 THEN traps[i].left - 1 ELSE 0) \in Nat
      BY <1>0 DEF TrapRecords
    <3> QED
      BY <3>1, <3>2 DEF TrapRecords
  <2>4. ASSUME NEW i \in Plates, NEW w \in Walkers, traps[i].left + since[w] >= Warning
        PROVE  traps'[i].left + since'[w] >= Warning
    <3>1. traps[i].left \in Nat /\ since[w] \in 0..Warning
      BY <1>0 DEF TrapRecords
    <3> QED
      BY <2>1, <2>3, <2>4, <3>1
  <2>5. traps' \in [Plates -> TrapRecords]
    BY <2>1, <2>3
  <2> QED
    BY <1>0, <1>4, <2>2, <2>3, <2>4, <2>5, TrapsWait DEF Pass
<1>5. CASE Fight
  BY <1>0, <1>5, <1>s DEF Fight
<1>6. CASE ComeAndGo
  BY <1>0, <1>6, <1>s DEF ComeAndGo
<1>7. CASE UNCHANGED trapVars
  BY <1>0, <1>7, <1>s DEF trapVars
<1>8. CASE \E i \in Plates, found \in BOOLEAN : SearchNearby(i, found) \/ Sense(i, found)
  BY <1>2, <1>8 DEF SearchNearby, Sense
<1> QED
  BY <1>1, <1>3, <1>4, <1>5, <1>6, <1>7, <1>8, StepOnTraps, TrapsDischarge DEF TrapNext

\* No trap goes off twice and none that was disabled before it charged; outside a
\* fight nobody is burnt by an elemental trap before the warning that began with
\* their own last step has run out, and in a fight nobody in the round of that step:
\* however many plates and walkers there are.  A step taken before the fight, and a
\* trap disabled while it charges, are excepted as in OnceAndWarned, because the
\* code gives no such warning there (triggerTrapForEntityAt,
\* updateElementalTrapCharges).
THEOREM TrapsOnceAndWarned == TrapSpec => []OnceAndWarned
<1>1. TrapInit => TrapsInOrder
  BY TrapAssumption, TrapsBegin
<1>2. TrapsInOrder /\ [TrapNext]_trapVars => TrapsInOrder'
  BY TrapAssumption, TrapsStep
<1>3. TrapsInOrder => OnceAndWarned
  BY DEF TrapsInOrder, OnceAndWarned
<1> QED
  BY <1>1, <1>2, <1>3, PTL DEF TrapSpec

-----------------------------------------------------------------------------
(* The rooms that players share *)

Things == Visitors \cup {"hide"}

CellRecords == [kind : {"none", "monster", "loot", "player"}, active : BOOLEAN,
                owner : Visitors \cup {"none"}, holds : SUBSET Things]
RoomRecords == [cells : [Cells -> CellRecords], count : 0..MaxEntities, ready : BOOLEAN]
Actors == [Visitors -> [of : RoomIDs \cup {"none"}, cell : 0..MaxEntities]]

\* Where a thing can be: on a cell, or with a player who is in no room.
Spots == (RoomIDs \X Cells) \cup ({"none"} \X Visitors)

Bag(rs, as, cs, s) ==
    IF s[1] \in RoomIDs THEN rs[s[1]].cells[s[2]].holds
    ELSE IF as[s[2]] = Nowhere THEN cs[s[2]] ELSE {}

\* No thing is in two of them.
Apart(rs, as, cs) ==
    \A x \in Things, s, t \in Spots : x \in Bag(rs, as, cs, s) /\ x \in Bag(rs, as, cs, t) => s = t

\* Every player who is somewhere has the slot that stands for them there.
Stands(rs, as) ==
    \A p \in Visitors : as[p] # Nowhere =>
        /\ as[p].of \in RoomIDs /\ as[p].cell \in Cells /\ rs[as[p].of].ready
        /\ rs[as[p].of].cells[as[p].cell].active
        /\ rs[as[p].of].cells[as[p].cell].owner = p
        /\ rs[as[p].of].cells[as[p].cell].kind = "player"

\* No slot stands for a player who is elsewhere, and rooms nobody saw are empty.
Owned(rs, as) ==
    \A r \in RoomIDs, c \in Cells :
        /\ ~rs[r].cells[c].active => rs[r].cells[c] = Empty
        /\ rs[r].cells[c].owner # "none" => as[rs[r].cells[c].owner] = [of |-> r, cell |-> c]
        /\ ~rs[r].ready => rs[r].cells[c] = Empty

\* The monster's hide comes into the world with the monster.
Hidden(rs, as, cs) == ~rs[Lair].ready => \A s \in Spots : "hide" \notin Bag(rs, as, cs, s)

Kept(rs, as, cs) ==
    /\ rs \in [RoomIDs -> RoomRecords] /\ as \in Actors /\ cs \in [Visitors -> SUBSET Things]
    /\ Stands(rs, as) /\ Owned(rs, as) /\ Hidden(rs, as, cs) /\ Apart(rs, as, cs)

\* Nothing lies behind the end of a room.
Fits(rs) == \A r \in RoomIDs, c \in Cells : rs[r].cells[c].active => c <= rs[r].count

\* The view is of the room of the player it belongs to, and its length the true one.
RoomsKept ==
    /\ Kept(rooms, actors, carried) /\ Fits(Saved(rooms, view, observer))
    /\ view \in [of : RoomIDs \cup {"none"}, count : 0..MaxEntities] /\ chosen \in Visitors
    /\ view.of = actors[chosen].of
    /\ view.of # "none" => observer.of = view.of

\* The length goes back to the room that is in view.
LEMMA SavedRooms ==
  ASSUME ResidentConstants, NEW rs \in [RoomIDs -> RoomRecords],
         NEW v \in [of : RoomIDs \cup {"none"}, count : 0..MaxEntities], NEW o,
         v.of # "none" => o.of = v.of
  PROVE  /\ Saved(rs, v, o) \in [RoomIDs -> RoomRecords]
         /\ \A r \in RoomIDs : /\ Saved(rs, v, o)[r].cells = rs[r].cells
                              /\ Saved(rs, v, o)[r].ready = rs[r].ready
                              /\ Saved(rs, v, o)[r].count = IF r = v.of THEN v.count ELSE rs[r].count
<1>1. CASE v.of = "none"
  <2>1. Saved(rs, v, o) = rs
    BY <1>1 DEF Saved
  <2> QED
    BY <1>1, <2>1 DEF ResidentConstants
<1>2. CASE v.of # "none"
  <2>1. Saved(rs, v, o) = [rs EXCEPT ![v.of].count = v.count] /\ v.of \in RoomIDs
    BY <1>2 DEF Saved
  <2>2. rs[v.of] \in RoomRecords /\ v.count \in 0..MaxEntities
    BY <2>1
  <2>3. PICK chamber : chamber = [rs[v.of] EXCEPT !.count = v.count]
    OBVIOUS
  <2>4. /\ chamber \in RoomRecords /\ chamber.count = v.count /\ chamber.cells = rs[v.of].cells
        /\ chamber.ready = rs[v.of].ready
    BY <2>2, <2>3 DEF RoomRecords
  <2>5. Saved(rs, v, o) = [rs EXCEPT ![v.of] = chamber]
    BY <2>1, <2>3
  <2> QED
    BY <2>1, <2>4, <2>5
<1> QED
  BY <1>1, <1>2

\* How long a room is makes no difference to what is in it.
LEMMA SameCellsKept ==
  ASSUME ResidentConstants, NEW rs, NEW as, NEW cs, Kept(rs, as, cs),
         NEW rt \in [RoomIDs -> RoomRecords],
         \A r \in RoomIDs : rt[r].cells = rs[r].cells /\ rt[r].ready = rs[r].ready
  PROVE  Kept(rt, as, cs)
<1>1. \A s \in Spots : Bag(rt, as, cs, s) = Bag(rs, as, cs, s)
  BY DEF Bag
<1>2. Stands(rt, as)
  BY DEF Kept, Stands
<1>3. Owned(rt, as)
  <2>1. ASSUME NEW r \in RoomIDs, NEW c \in Cells
        PROVE  /\ ~rt[r].cells[c].active => rt[r].cells[c] = Empty
               /\ rt[r].cells[c].owner # "none" => as[rt[r].cells[c].owner] = [of |-> r, cell |-> c]
               /\ ~rt[r].ready => rt[r].cells[c] = Empty
    <3>1. rt[r].cells[c] = rs[r].cells[c] /\ rt[r].ready = rs[r].ready
      OBVIOUS
    <3> QED
      BY <3>1, Zenon DEF Kept, Owned
  <2> QED
    BY <2>1, Zenon DEF Owned
<1>4. Hidden(rt, as, cs) /\ Apart(rt, as, cs)
  BY <1>1 DEF Kept, Hidden, Apart, ResidentConstants
<1> QED
  BY <1>2, <1>3, <1>4 DEF Kept

\* A spot in a room is a room and a cell.
LEMMA CellSpots ==
  ASSUME NEW s \in RoomIDs \X Cells
  PROVE  \E q \in RoomIDs, d \in Cells : s = <<q, d>>
  OBVIOUS

\* What is in M goes from one bag into another.
Passes(M, old, new, oldNext, newNext) ==
    M \subseteq old /\ oldNext \subseteq old \ M /\ newNext \subseteq new \cup M

\* What is in M goes from one place to another, and no more is anywhere.
CarriedOver(rs, as, cs, rt, at, ct, from, to, M) ==
    /\ Apart(rs, as, cs) /\ Hidden(rs, as, cs) /\ rt[Lair].ready = rs[Lair].ready
    /\ from \in Spots /\ to \in Spots /\ from # to
    /\ Passes(M, Bag(rs, as, cs, from), Bag(rs, as, cs, to), Bag(rt, at, ct, from), Bag(rt, at, ct, to))
    /\ \A s \in Spots : s # from /\ s # to => Bag(rt, at, ct, s) \subseteq Bag(rs, as, cs, s)

\* A thing that goes from one place to another is in one place still.
LEMMA MoveKeeps ==
  ASSUME NEW rs, NEW as, NEW cs, NEW rt, NEW at, NEW ct, NEW M, NEW from, NEW to,
         CarriedOver(rs, as, cs, rt, at, ct, from, to, M)
  PROVE  Apart(rt, at, ct) /\ Hidden(rt, at, ct)
<1>1. ASSUME NEW x \in Things, NEW s \in Spots, NEW t \in Spots,
             x \in Bag(rt, at, ct, s), x \in Bag(rt, at, ct, t)
      PROVE  s = t
  <2>1. CASE x \in M
    BY <1>1, <2>1 DEF Apart, CarriedOver, Passes
  <2>2. CASE x \notin M
    BY <1>1, <2>2 DEF Apart, CarriedOver, Passes
  <2> QED
    BY <2>1, <2>2
<1>2. Apart(rt, at, ct)
  BY <1>1 DEF Apart
<1>3. ASSUME ~rt[Lair].ready, NEW s \in Spots PROVE "hide" \notin Bag(rt, at, ct, s)
  BY <1>3 DEF Hidden, CarriedOver, Passes
<1> QED
  BY <1>2, <1>3 DEF Hidden

\* One slot of one room is changed, into e.
OnlyCell(rs, rt, r, c, e) ==
    /\ \A q \in RoomIDs : rt[q].ready = rs[q].ready
    /\ rt[r].cells[c] = e
    /\ \A q \in RoomIDs, d \in Cells : q # r \/ d # c => rt[q].cells[d] = rs[q].cells[d]

\* What a player leaves behind is an empty slot, and what it had it takes along.
LEMMA LeavingKeeps ==
  ASSUME ResidentConstants, NEW rs, NEW as, NEW cs, Kept(rs, as, cs),
         NEW p \in Visitors, as[p] # Nowhere, NEW rt \in [RoomIDs -> RoomRecords],
         OnlyCell(rs, rt, as[p].of, as[p].cell, Empty)
  PROVE  Kept(rt, [as EXCEPT ![p] = Nowhere],
              [cs EXCEPT ![p] = rs[as[p].of].cells[as[p].cell].holds])
<1> USE DEF OnlyCell
<1>1. PICK r, c : r = as[p].of /\ c = as[p].cell
  OBVIOUS
<1>b. PICK bag : bag = rs[as[p].of].cells[as[p].cell].holds
  OBVIOUS
<1>a. PICK at : at = [as EXCEPT ![p] = Nowhere]
  OBVIOUS
<1>c. PICK ct : ct = [cs EXCEPT ![p] = bag]
  OBVIOUS
<1>2. /\ r \in RoomIDs /\ c \in Cells /\ rs[r].ready /\ rs[r].cells[c].owner = p
      /\ rs[r].cells[c].active /\ bag = rs[r].cells[c].holds
  BY <1>1, <1>b DEF Kept, Stands
<1>3. rs[r].cells[c] \in CellRecords /\ bag \in SUBSET Things
  BY <1>2 DEF Kept, RoomRecords, CellRecords
<1>4. at \in Actors /\ ct \in [Visitors -> SUBSET Things]
  <2>1. Nowhere \in [of : RoomIDs \cup {"none"}, cell : 0..MaxEntities]
    BY DEF Nowhere, ResidentConstants
  <2> QED
    BY <1>3, <1>a, <1>c, <2>1 DEF Kept, Actors
<1>5. /\ at[p] = Nowhere /\ ct[p] = bag
      /\ \A q \in Visitors : q # p => at[q] = as[q] /\ ct[q] = cs[q]
  BY <1>a, <1>c DEF Kept, Actors
<1>6. ASSUME NEW q \in Visitors, at[q] # Nowhere
      PROVE  /\ at[q] = as[q] /\ as[q].of \in RoomIDs /\ as[q].cell \in Cells /\ rs[as[q].of].ready
             /\ rs[as[q].of].cells[as[q].cell].active
             /\ rs[as[q].of].cells[as[q].cell].owner = q
             /\ rs[as[q].of].cells[as[q].cell].kind = "player"
             /\ rt[as[q].of].cells[as[q].cell] = rs[as[q].of].cells[as[q].cell]
             /\ rt[as[q].of].ready
  <2>1. q # p /\ at[q] = as[q]
    BY <1>5, <1>6
  <2>2. /\ as[q].of \in RoomIDs /\ as[q].cell \in Cells /\ rs[as[q].of].ready
        /\ rs[as[q].of].cells[as[q].cell].active
        /\ rs[as[q].of].cells[as[q].cell].owner = q
        /\ rs[as[q].of].cells[as[q].cell].kind = "player"
    BY <1>6, <2>1 DEF Kept, Stands
  <2>3. as[q].of # r \/ as[q].cell # c
    BY <1>2, <2>1, <2>2
  <2> QED
    BY <1>1, <2>1, <2>2, <2>3
<1>7. Stands(rt, at)
  <2>1. ASSUME NEW q \in Visitors, at[q] # Nowhere
        PROVE  /\ at[q].of \in RoomIDs /\ at[q].cell \in Cells /\ rt[at[q].of].ready
               /\ rt[at[q].of].cells[at[q].cell].active
               /\ rt[at[q].of].cells[at[q].cell].owner = q
               /\ rt[at[q].of].cells[at[q].cell].kind = "player"
    <3>1. at[q] = as[q] /\ rt[as[q].of].cells[as[q].cell] = rs[as[q].of].cells[as[q].cell]
      BY <1>6, <2>1, Zenon
    <3>2. PICK b : b = rs[as[q].of].cells[as[q].cell]
      OBVIOUS
    <3>3. b.active /\ b.owner = q /\ b.kind = "player"
      BY <1>6, <2>1, <3>2, Zenon
    <3>4. rt[at[q].of].cells[at[q].cell] = b
      BY <3>1, <3>2
    <3>5. rt[at[q].of].ready
      BY <1>6, <2>1, <3>1
    <3>6. at[q].of \in RoomIDs /\ at[q].cell \in Cells
      BY <1>6, <2>1, <3>1
    <3> QED
      BY <3>3, <3>4, <3>5, <3>6
  <2> QED
    BY <2>1, Zenon DEF Stands
<1>8. ASSUME NEW q \in RoomIDs, NEW d \in Cells
      PROVE  /\ ~rt[q].cells[d].active => rt[q].cells[d] = Empty
             /\ rt[q].cells[d].owner # "none" => at[rt[q].cells[d].owner] = [of |-> q, cell |-> d]
             /\ ~rt[q].ready => rt[q].cells[d] = Empty
  <2>1. CASE q = r /\ d = c
    <3>1. rt[q].cells[d] = Empty
      BY <1>1, <2>1
    <3>2. Empty.owner = "none"
      BY DEF Empty
    <3> QED
      BY <3>1, <3>2
  <2>2. CASE q # r \/ d # c
    <3>1. rt[q].cells[d] = rs[q].cells[d]
      BY <1>1, <2>2
    <3>2. PICK b : b = rs[q].cells[d]
      OBVIOUS
    <3>3. /\ ~b.active => b = Empty
          /\ b.owner # "none" => as[b.owner] = [of |-> q, cell |-> d]
          /\ ~rs[q].ready => b = Empty
      BY <3>2 DEF Kept, Owned
    <3>4. b \in CellRecords
      BY <3>2 DEF Kept, RoomRecords
    <3>5. ASSUME b.owner # "none" PROVE at[b.owner] = [of |-> q, cell |-> d]
      <4>1. as[b.owner] = [of |-> q, cell |-> d] /\ b.owner \in Visitors
        BY <3>3, <3>4, <3>5 DEF CellRecords
      <4>2. b.owner # p
        <5> SUFFICES ASSUME b.owner = p PROVE FALSE
          OBVIOUS
        <5>1. as[p].of = q /\ as[p].cell = d
          BY <4>1
        <5> QED
          BY <1>1, <2>2, <5>1
      <4> QED
        BY <1>5, <4>1, <4>2
    <3> QED
      BY <3>1, <3>2, <3>3, <3>5
  <2> QED
    BY <2>1, <2>2
<1>9. Owned(rt, at)
  BY <1>8, Zenon DEF Owned
<1>10. Apart(rt, at, ct) /\ Hidden(rt, at, ct)
  <2>1. PICK from : from = <<r, c>>
    OBVIOUS
  <2>2. PICK to : to = <<"none", p>>
    OBVIOUS
  <2>3. from \in Spots /\ to \in Spots /\ from # to
    BY <1>2, <2>1, <2>2 DEF Spots, ResidentConstants
  <2>4. Bag(rs, as, cs, from) = bag /\ Bag(rt, at, ct, from) = {}
    <3>1. from[1] = r /\ from[2] = c /\ rt[r].cells[c] = Empty /\ Empty.holds = {}
      BY <1>1, <2>1 DEF Empty
    <3> QED
      BY <1>2, <3>1 DEF Bag
  <2>5. Bag(rt, at, ct, to) = bag
    BY <1>5, <2>2 DEF Bag, ResidentConstants
  <2>6. ASSUME NEW s \in Spots, s # from, s # to PROVE Bag(rt, at, ct, s) = Bag(rs, as, cs, s)
    <3>1. CASE s \in RoomIDs \X Cells
      <4>1. s[1] \in RoomIDs /\ s[2] \in Cells /\ (s[1] # r \/ s[2] # c)
        BY <2>1, <2>6, <3>1
      <4> QED
        BY <1>1, <4>1 DEF Bag
    <3>2. CASE s \in {"none"} \X Visitors
      <4>1. s[1] \notin RoomIDs /\ s[2] \in Visitors /\ s[2] # p
        BY <2>2, <2>6, <3>2 DEF ResidentConstants
      <4> QED
        BY <1>5, <4>1 DEF Bag
    <3> QED
      BY <2>6, <3>1, <3>2 DEF Spots
  <2> QED
    <3>1. /\ Passes(bag, Bag(rs, as, cs, from), Bag(rs, as, cs, to), Bag(rt, at, ct, from), Bag(rt, at, ct, to))
          /\ \A s \in Spots : s # from /\ s # to => Bag(rt, at, ct, s) \subseteq Bag(rs, as, cs, s)
      BY <2>4, <2>5, <2>6 DEF Passes
    <3>2. rt[Lair].ready = rs[Lair].ready /\ Apart(rs, as, cs) /\ Hidden(rs, as, cs)
      BY DEF ResidentConstants, Kept
    <3>3. CarriedOver(rs, as, cs, rt, at, ct, from, to, bag)
      BY <2>3, <3>1, <3>2 DEF CarriedOver
    <3> QED
      BY <3>3, MoveKeeps
<1> QED
  BY <1>4, <1>7, <1>9, <1>10, <1>a, <1>b, <1>c DEF Kept

\* Who comes in takes an empty slot, with what it carries.
LEMMA EnteringKeeps ==
  ASSUME ResidentConstants, NEW rs, NEW as, NEW cs, Kept(rs, as, cs),
         NEW p \in Visitors, as[p] = Nowhere, NEW r \in RoomIDs, rs[r].ready,
         NEW c \in Cells, ~rs[r].cells[c].active, NEW rt \in [RoomIDs -> RoomRecords],
         OnlyCell(rs, rt, r, c, Stander(p, cs[p]))
  PROVE  Kept(rt, [as EXCEPT ![p] = [of |-> r, cell |-> c]], cs)
<1> USE DEF OnlyCell
<1>1. PICK at : at = [as EXCEPT ![p] = [of |-> r, cell |-> c]]
  OBVIOUS
<1>2. PICK body : body = Stander(p, cs[p])
  OBVIOUS
<1>3. body.active /\ body.owner = p /\ body.kind = "player" /\ body.holds = cs[p]
  BY <1>2 DEF Stander
<1>4. rs[r].cells[c] = Empty /\ Empty.holds = {} /\ Empty.owner = "none" /\ ~Empty.active
  BY DEF Kept, Owned, Empty
<1>5. at \in Actors
  <2>1. [of |-> r, cell |-> c] \in [of : RoomIDs \cup {"none"}, cell : 0..MaxEntities]
    BY DEF Cells, ResidentConstants
  <2> QED
    BY <1>1, <2>1 DEF Kept, Actors
<1>6. at[p] = [of |-> r, cell |-> c] /\ \A q \in Visitors : q # p => at[q] = as[q]
  BY <1>1 DEF Kept, Actors
<1>7. [of |-> r, cell |-> c] # Nowhere /\ "none" \notin Visitors
  <2>1. [of |-> r, cell |-> c].of = r /\ Nowhere.of = "none"
    BY DEF Nowhere
  <2> QED
    BY <2>1 DEF ResidentConstants
<1>8. ASSUME NEW q \in Visitors, at[q] # Nowhere
      PROVE  /\ at[q].of \in RoomIDs /\ at[q].cell \in Cells /\ rt[at[q].of].ready
             /\ rt[at[q].of].cells[at[q].cell].active
             /\ rt[at[q].of].cells[at[q].cell].owner = q
             /\ rt[at[q].of].cells[at[q].cell].kind = "player"
  <2>1. CASE q = p
    <3>1. at[q].of = r /\ at[q].cell = c
      BY <1>6, <2>1
    <3>2. rt[at[q].of].cells[at[q].cell] = body /\ rt[at[q].of].ready
      BY <1>2, <3>1
    <3> QED
      BY <1>3, <2>1, <3>1, <3>2
  <2>2. CASE q # p
    <3>1. at[q] = as[q]
      BY <1>6, <2>2
    <3>2. PICK b : b = rs[as[q].of].cells[as[q].cell]
      OBVIOUS
    <3>3. /\ as[q].of \in RoomIDs /\ as[q].cell \in Cells /\ rs[as[q].of].ready
          /\ b.active /\ b.owner = q /\ b.kind = "player"
      BY <1>8, <3>1, <3>2 DEF Kept, Stands
    <3>4. as[q].of # r \/ as[q].cell # c
      BY <1>4, <1>7, <3>2, <3>3
    <3>5. rt[at[q].of].cells[at[q].cell] = b /\ rt[at[q].of].ready
      <4>1. PICK f, x : f = as[q].of /\ x = as[q].cell
        BY Zenon
      <4>2. f \in RoomIDs /\ x \in Cells /\ (f # r \/ x # c) /\ rs[f].ready /\ rs[f].cells[x] = b
        BY <3>2, <3>3, <3>4, <4>1, Zenon
      <4>3. rt[f].cells[x] = b /\ rt[f].ready
        BY <4>2
      <4> QED
        BY <3>1, <4>1, <4>3, Zenon
    <3> QED
      BY <3>1, <3>3, <3>5
  <2> QED
    BY <2>1, <2>2
<1>9. Stands(rt, at)
  BY <1>8, Zenon DEF Stands
<1>10. ASSUME NEW q \in RoomIDs, NEW d \in Cells
       PROVE  /\ ~rt[q].cells[d].active => rt[q].cells[d] = Empty
              /\ rt[q].cells[d].owner # "none" => at[rt[q].cells[d].owner] = [of |-> q, cell |-> d]
              /\ ~rt[q].ready => rt[q].cells[d] = Empty
  <2>1. CASE q = r /\ d = c
    <3>1. rt[q].cells[d] = body /\ rt[q].ready
      BY <1>2, <2>1
    <3> QED
      BY <1>3, <1>6, <2>1, <3>1
  <2>2. CASE q # r \/ d # c
    <3>1. rt[q].cells[d] = rs[q].cells[d] /\ rt[q].ready = rs[q].ready
      BY <2>2
    <3>2. PICK b : b = rs[q].cells[d]
      OBVIOUS
    <3>3. /\ ~b.active => b = Empty
          /\ b.owner # "none" => as[b.owner] = [of |-> q, cell |-> d]
          /\ ~rs[q].ready => b = Empty
      BY <3>2 DEF Kept, Owned
    <3>4. b \in CellRecords
      BY <3>2 DEF Kept, RoomRecords
    <3>5. ASSUME b.owner # "none" PROVE at[b.owner] = [of |-> q, cell |-> d]
      <4>1. as[b.owner] = [of |-> q, cell |-> d] /\ b.owner \in Visitors
        BY <3>3, <3>4, <3>5 DEF CellRecords
      <4>2. b.owner # p
        <5> SUFFICES ASSUME b.owner = p PROVE FALSE
          OBVIOUS
        <5>1. as[p].of = q
          BY <4>1
        <5> QED
          BY <5>1 DEF Nowhere, ResidentConstants
      <4> QED
        BY <1>6, <4>1, <4>2
    <3> QED
      BY <3>1, <3>2, <3>3, <3>5
  <2> QED
    BY <2>1, <2>2
<1>11. Owned(rt, at)
  BY <1>10, Zenon DEF Owned
<1>12. Apart(rt, at, cs) /\ Hidden(rt, at, cs)
  <2>1. PICK to : to = <<r, c>>
    OBVIOUS
  <2>2. PICK from : from = <<"none", p>>
    OBVIOUS
  <2>3. from \in Spots /\ to \in Spots /\ from # to
    BY <2>1, <2>2 DEF Spots, ResidentConstants
  <2>4. Bag(rs, as, cs, from) = cs[p] /\ Bag(rt, at, cs, from) = {}
    BY <1>6, <1>7, <2>2 DEF Bag, ResidentConstants
  <2>5. Bag(rt, at, cs, to) = cs[p]
    <3>1. to[1] = r /\ to[2] = c /\ rt[r].cells[c].holds = cs[p]
      BY <1>2, <1>3, <2>1
    <3> QED
      BY <3>1 DEF Bag
  <2>6. ASSUME NEW s \in Spots, s # from, s # to PROVE Bag(rt, at, cs, s) = Bag(rs, as, cs, s)
    <3>1. CASE s \in RoomIDs \X Cells
      <4>1. s[1] \in RoomIDs /\ s[2] \in Cells /\ (s[1] # r \/ s[2] # c)
        BY <2>1, <2>6, <3>1
      <4> QED
        BY <4>1 DEF Bag
    <3>2. CASE s \in {"none"} \X Visitors
      <4>1. s[1] \notin RoomIDs /\ s[2] \in Visitors /\ s[2] # p
        BY <2>2, <2>6, <3>2 DEF ResidentConstants
      <4> QED
        BY <1>6, <4>1 DEF Bag
    <3> QED
      BY <2>6, <3>1, <3>2 DEF Spots
  <2>7. CarriedOver(rs, as, cs, rt, at, cs, from, to, cs[p])
    <3>1. Passes(cs[p], Bag(rs, as, cs, from), Bag(rs, as, cs, to), Bag(rt, at, cs, from), Bag(rt, at, cs, to))
      BY <2>4, <2>5 DEF Passes
    <3> QED
      BY <2>3, <2>6, <3>1 DEF CarriedOver, ResidentConstants, Kept
  <2> QED
    BY <2>7, MoveKeeps
<1> QED
  BY <1>1, <1>5, <1>9, <1>11, <1>12 DEF Kept

\* Two slots of one room are changed, into e and into the body.
OnlyTwo(rs, rt, r, c, b, e, body) ==
    /\ \A q \in RoomIDs : rt[q].ready = rs[q].ready
    /\ rt[r].cells[c] = e /\ rt[r].cells[b] = body
    /\ \A q \in RoomIDs, d \in Cells :
          q # r \/ (d # c /\ d # b) => rt[q].cells[d] = rs[q].cells[d]

\* Something goes between the body of a player and another slot of its room.
LEMMA HandingKeeps ==
  ASSUME ResidentConstants, NEW rs, NEW as, NEW cs, Kept(rs, as, cs),
         NEW p \in Visitors, as[p] # Nowhere, NEW r, NEW b, r = as[p].of, b = as[p].cell,
         NEW c \in Cells, c # b, rs[r].cells[c].owner = "none",
         NEW e \in CellRecords, e.owner = "none", ~e.active => e = Empty,
         NEW body \in CellRecords, body.active, body.owner = p, body.kind = "player",
         NEW rt \in [RoomIDs -> RoomRecords],
         OnlyTwo(rs, rt, r, c, b, e, body), NEW M,
         \/ Passes(M, rs[r].cells[c].holds, rs[r].cells[b].holds, e.holds, body.holds)
         \/ Passes(M, rs[r].cells[b].holds, rs[r].cells[c].holds, body.holds, e.holds)
  PROVE  Kept(rt, as, cs)
<1> USE DEF OnlyTwo
<1>1. r \in RoomIDs /\ b \in Cells /\ rs[r].ready /\ rt[r].ready /\ "none" \notin Visitors
  BY DEF Kept, Stands, ResidentConstants
<1>2. ASSUME NEW q \in Visitors, as[q] # Nowhere
      PROVE  /\ as[q].of \in RoomIDs /\ as[q].cell \in Cells /\ rt[as[q].of].ready
             /\ rt[as[q].of].cells[as[q].cell].active
             /\ rt[as[q].of].cells[as[q].cell].owner = q
             /\ rt[as[q].of].cells[as[q].cell].kind = "player"
  <2>1. PICK o : o = rs[as[q].of].cells[as[q].cell]
    OBVIOUS
  <2>2. /\ as[q].of \in RoomIDs /\ as[q].cell \in Cells /\ rs[as[q].of].ready
        /\ o.active /\ o.owner = q /\ o.kind = "player"
    BY <1>2, <2>1 DEF Kept, Stands
  <2>3. rt[as[q].of].ready
    BY <2>2
  <2>4. CASE as[q].of = r /\ as[q].cell = b
    <3>1. as[p] = as[q]
      <4>1. as[q] \in [of : RoomIDs \cup {"none"}, cell : 0..MaxEntities]
            /\ as[p] \in [of : RoomIDs \cup {"none"}, cell : 0..MaxEntities]
        BY DEF Kept, Actors
      <4>2. /\ as[q] = [of |-> as[q].of, cell |-> as[q].cell]
            /\ as[p] = [of |-> as[p].of, cell |-> as[p].cell]
        BY <4>1
      <4>3. as[p].of = as[q].of /\ as[p].cell = as[q].cell
        BY <2>4
      <4> QED
        BY <4>2, <4>3
    <3>2. rs[r].cells[b].owner = p /\ rs[r].cells[b].owner = q
      <4>1. rs[r].cells[b].owner = q
        BY <2>1, <2>2, <2>4, Zenon
      <4>2. Stands(rs, as)
        BY Zenon DEF Kept
      <4>3. rs[as[p].of].cells[as[p].cell].owner = p
        BY <4>2 DEF Stands
      <4> QED
        BY <4>1, <4>3, Zenon
    <3>3. rt[as[q].of].cells[as[q].cell] = body
      BY <2>4
    <3> QED
      BY <2>2, <2>3, <3>2, <3>3
  <2>5. CASE ~(as[q].of = r /\ as[q].cell = b)
    <3>1. as[q].of # r \/ as[q].cell # c
      <4> SUFFICES ASSUME as[q].of = r, as[q].cell = c PROVE FALSE
        OBVIOUS
      <4>1. o = rs[r].cells[c]
        BY <2>1
      <4>2. q = "none"
        BY <2>2, <4>1, Zenon
      <4> QED
        BY <1>1, <4>2, Zenon
    <3>2. rt[as[q].of].cells[as[q].cell] = o
      <4>1. PICK f, x : f = as[q].of /\ x = as[q].cell
        BY Zenon
      <4>2. f \in RoomIDs /\ x \in Cells /\ (f # r \/ (x # c /\ x # b))
        BY <2>2, <2>5, <3>1, <4>1, Zenon
      <4>3. rt[f].cells[x] = rs[f].cells[x]
        BY <4>2
      <4> QED
        BY <2>1, <4>1, <4>3, Zenon
    <3> QED
      BY <2>2, <2>3, <3>2
  <2> QED
    BY <2>4, <2>5
<1>3. Stands(rt, as)
  BY <1>2, Zenon DEF Stands
<1>4. ASSUME NEW q \in RoomIDs, NEW d \in Cells
      PROVE  /\ ~rt[q].cells[d].active => rt[q].cells[d] = Empty
             /\ rt[q].cells[d].owner # "none" => as[rt[q].cells[d].owner] = [of |-> q, cell |-> d]
             /\ ~rt[q].ready => rt[q].cells[d] = Empty
  <2>1. CASE q = r /\ d = c
    <3>1. rt[q].cells[d] = e /\ rt[q].ready
      BY <1>1, <2>1
    <3> QED
      BY <3>1
  <2>2. CASE q = r /\ d = b
    <3>1. rt[q].cells[d] = body /\ rt[q].ready
      BY <1>1, <2>2
    <3>2. as[p] = [of |-> q, cell |-> d]
      <4>1. as[p] \in [of : RoomIDs \cup {"none"}, cell : 0..MaxEntities]
        BY DEF Kept, Actors
      <4> QED
        BY <2>2, <4>1
    <3> QED
      BY <3>1, <3>2
  <2>3. CASE q # r \/ (d # c /\ d # b)
    <3>1. rt[q].cells[d] = rs[q].cells[d] /\ rt[q].ready = rs[q].ready
      BY <2>3
    <3>2. PICK o : o = rs[q].cells[d]
      OBVIOUS
    <3>3. /\ ~o.active => o = Empty
          /\ o.owner # "none" => as[o.owner] = [of |-> q, cell |-> d]
          /\ ~rs[q].ready => o = Empty
      BY <3>2 DEF Kept, Owned
    <3> QED
      BY <3>1, <3>2, <3>3
  <2> QED
    BY <2>1, <2>2, <2>3
<1>5. Owned(rt, as)
  BY <1>4, Zenon DEF Owned
<1>6. Apart(rt, as, cs) /\ Hidden(rt, as, cs)
  <2>1. PICK there : there = <<r, c>>
    OBVIOUS
  <2>2. PICK here : here = <<r, b>>
    OBVIOUS
  <2>3. here \in Spots /\ there \in Spots /\ here # there
    BY <1>1, <2>1, <2>2 DEF Spots
  <2>4. /\ Bag(rs, as, cs, here) = rs[r].cells[b].holds /\ Bag(rt, as, cs, here) = body.holds
        /\ Bag(rs, as, cs, there) = rs[r].cells[c].holds /\ Bag(rt, as, cs, there) = e.holds
    BY <1>1, <2>1, <2>2 DEF Bag
  <2>5. ASSUME NEW s \in Spots, s # here, s # there PROVE Bag(rt, as, cs, s) = Bag(rs, as, cs, s)
    <3>1. CASE s \in RoomIDs \X Cells
      <4>1. PICK q \in RoomIDs, d \in Cells : s = <<q, d>>
        BY <3>1, CellSpots
      <4>2. (q # r \/ d # c) /\ (q # r \/ d # b)
        BY <2>1, <2>2, <2>5, <4>1
      <4>3. rt[q].cells[d] = rs[q].cells[d]
        BY <4>2
      <4>4. s[1] = q /\ s[2] = d
        BY <4>1
      <4> QED
        BY <4>3, <4>4 DEF Bag
    <3>2. CASE s \in {"none"} \X Visitors
      <4>1. s[1] \notin RoomIDs
        BY <3>2 DEF ResidentConstants
      <4> QED
        BY <4>1 DEF Bag
    <3> QED
      BY <2>5, <3>1, <3>2 DEF Spots
  <2>6. \/ CarriedOver(rs, as, cs, rt, as, cs, there, here, M)
        \/ CarriedOver(rs, as, cs, rt, as, cs, here, there, M)
    <3>1. Apart(rs, as, cs) /\ Hidden(rs, as, cs) /\ rt[Lair].ready = rs[Lair].ready
      BY DEF Kept, ResidentConstants
    <3>2. \A s \in Spots : s # here /\ s # there => Bag(rt, as, cs, s) \subseteq Bag(rs, as, cs, s)
      BY <2>5
    <3>3. \/ Passes(M, Bag(rs, as, cs, there), Bag(rs, as, cs, here), Bag(rt, as, cs, there), Bag(rt, as, cs, here))
          \/ Passes(M, Bag(rs, as, cs, here), Bag(rs, as, cs, there), Bag(rt, as, cs, here), Bag(rt, as, cs, there))
      BY <2>4
    <3> QED
      BY <2>3, <3>1, <3>2, <3>3 DEF CarriedOver
  <2> QED
    BY <2>6, MoveKeeps
<1> QED
  BY <1>3, <1>5, <1>6 DEF Kept

\* A room that nobody saw before is peopled; the others are as they were.
LEMMA PreparedRooms ==
  ASSUME ResidentConstants, NEW rs, NEW as, NEW cs, Kept(rs, as, cs), Fits(rs), NEW r \in RoomIDs
  PROVE  /\ Kept(Prepared(rs, r), as, cs) /\ Fits(Prepared(rs, r)) /\ Prepared(rs, r)[r].ready
         /\ \A q \in RoomIDs : rs[q].ready => Prepared(rs, r)[q] = rs[q]
<1>1. CASE rs[r].ready
  BY <1>1 DEF Prepared
<1>2. CASE ~rs[r].ready
  <2>1. PICK rt : rt = Prepared(rs, r)
    OBVIOUS
  <2>2. PICK people : people = Peopled(r)
    OBVIOUS
  <2>3. PICK chamber : chamber = [cells |-> people, count |-> IF r = Lair THEN 1 ELSE 0, ready |-> TRUE]
    OBVIOUS
  <2>4. rt = [rs EXCEPT ![r] = chamber]
    BY <1>2, <2>1, <2>2, <2>3 DEF Prepared
  <2>5. /\ Empty \in CellRecords /\ Monster \in CellRecords /\ Monster.active /\ ~Empty.active
        /\ Empty.owner = "none" /\ Monster.owner = "none"
        /\ Empty.holds = {} /\ Monster.holds = {"hide"}
    BY DEF Empty, Monster, CellRecords, Things
  <2>6. people \in [Cells -> CellRecords]
    BY <2>2, <2>5 DEF Peopled
  <2>7. \A c \in Cells : people[c] = IF r = Lair /\ c = 1 THEN Monster ELSE Empty
    BY <2>2 DEF Peopled
  <2>8. chamber \in RoomRecords /\ chamber.cells = people /\ chamber.ready /\ chamber.count = IF r = Lair THEN 1 ELSE 0
    BY <2>3, <2>6 DEF RoomRecords, ResidentConstants
  <2>9. rt \in [RoomIDs -> RoomRecords] /\ rt[r] = chamber /\ \A q \in RoomIDs : q # r => rt[q] = rs[q]
    BY <2>4, <2>8 DEF Kept
  <2>10. Fits(rt)
    <3>1. ASSUME NEW q \in RoomIDs, NEW c \in Cells, rt[q].cells[c].active PROVE c <= rt[q].count
      <4>1. CASE q = r
        <5>1. people[c].active
          BY <2>8, <2>9, <3>1, <4>1
        <5>2. r = Lair /\ c = 1
          BY <2>5, <2>7, <5>1
        <5> QED
          BY <2>8, <2>9, <4>1, <5>2
      <4>2. CASE q # r
        BY <2>9, <3>1, <4>2 DEF Fits
      <4> QED
        BY <4>1, <4>2
    <3> QED
      BY <3>1 DEF Fits
  <2>11. ASSUME NEW p \in Visitors, as[p] # Nowhere
         PROVE  /\ as[p].of \in RoomIDs /\ as[p].cell \in Cells /\ rt[as[p].of].ready
                /\ rt[as[p].of].cells[as[p].cell].active
                /\ rt[as[p].of].cells[as[p].cell].owner = p
                /\ rt[as[p].of].cells[as[p].cell].kind = "player"
    <3>1. /\ as[p].of \in RoomIDs /\ as[p].cell \in Cells /\ rs[as[p].of].ready
          /\ rs[as[p].of].cells[as[p].cell].active
          /\ rs[as[p].of].cells[as[p].cell].owner = p
          /\ rs[as[p].of].cells[as[p].cell].kind = "player"
      BY <2>11, Zenon DEF Kept, Stands
    <3>2. as[p].of # r
      BY <1>2, <3>1
    <3>3. rt[as[p].of] = rs[as[p].of]
      BY <2>9, <3>1, <3>2
    <3> QED
      BY <3>1, <3>3, Zenon
  <2>12. Stands(rt, as)
    BY <2>11, Zenon DEF Stands
  <2>13. ASSUME NEW q \in RoomIDs, NEW c \in Cells
         PROVE  /\ ~rt[q].cells[c].active => rt[q].cells[c] = Empty
                /\ rt[q].cells[c].owner # "none" => as[rt[q].cells[c].owner] = [of |-> q, cell |-> c]
                /\ ~rt[q].ready => rt[q].cells[c] = Empty
    <3>1. CASE q = r
      <4>1. rt[q].cells[c] = people[c] /\ rt[q].ready
        BY <2>8, <2>9, <3>1
      <4> QED
        BY <2>5, <2>7, <4>1
    <3>2. CASE q # r
      <4>1. rt[q] = rs[q]
        BY <2>9, <3>2
      <4>2. PICK o : o = rs[q].cells[c]
        OBVIOUS
      <4>3. /\ ~o.active => o = Empty
            /\ o.owner # "none" => as[o.owner] = [of |-> q, cell |-> c]
            /\ ~rs[q].ready => o = Empty
        BY <4>2 DEF Kept, Owned
      <4> QED
        BY <4>1, <4>2, <4>3
    <3> QED
      BY <3>1, <3>2
  <2>14. Owned(rt, as)
    BY <2>13, Zenon DEF Owned
  <2>15. ASSUME NEW s \in Spots
         PROVE  IF r = Lair /\ s = <<Lair, 1>> THEN Bag(rt, as, cs, s) = {"hide"}
                ELSE Bag(rt, as, cs, s) = Bag(rs, as, cs, s)
    <3>1. CASE s \in RoomIDs \X Cells
      <4>1. PICK q \in RoomIDs, d \in Cells : s = <<q, d>>
        BY <3>1, CellSpots
      <4>2. s[1] = q /\ s[2] = d
        BY <4>1
      <4>3. CASE q # r
        <5>1. rt[q] = rs[q]
          BY <2>9, <4>3
        <5>2. Bag(rt, as, cs, s) = Bag(rs, as, cs, s)
          BY <4>2, <5>1 DEF Bag
        <5> QED
          BY <4>1, <4>3, <5>2
      <4>4. CASE q = r
        <5>1. Bag(rt, as, cs, s) = people[d].holds
          BY <2>8, <2>9, <4>2, <4>4 DEF Bag
        <5>2. Bag(rs, as, cs, s) = {}
          <6>1. rs[q].cells[d] = Empty
            BY <1>2, <4>4 DEF Kept, Owned
          <6> QED
            BY <2>5, <4>2, <6>1 DEF Bag
        <5>3. CASE r = Lair /\ d = 1
          BY <2>5, <2>7, <4>1, <4>4, <5>1, <5>3
        <5>4. CASE ~(r = Lair /\ d = 1)
          <6>1. people[d] = Empty /\ ~(r = Lair /\ s = <<Lair, 1>>)
            BY <2>7, <4>2, <5>4
          <6> QED
            BY <2>5, <5>1, <5>2, <6>1
        <5> QED
          BY <5>3, <5>4
      <4> QED
        BY <4>3, <4>4
    <3>2. CASE s \in {"none"} \X Visitors
      <4>1. s[1] \notin RoomIDs /\ s # <<Lair, 1>>
        BY <3>2 DEF ResidentConstants
      <4> QED
        BY <4>1 DEF Bag
    <3> QED
      BY <3>1, <3>2 DEF Spots
  <2>16. CASE r = Lair
    <3>1. \A s \in Spots : "hide" \notin Bag(rs, as, cs, s)
      BY <1>2, <2>16 DEF Kept, Hidden
    <3>2. ASSUME NEW x \in Things, NEW s \in Spots, NEW t \in Spots,
                 x \in Bag(rt, as, cs, s), x \in Bag(rt, as, cs, t)
          PROVE  s = t
      <4>1. CASE x = "hide"
        <5>1. s = <<Lair, 1>>
          BY <2>15, <2>16, <3>1, <3>2, <4>1
        <5>2. t = <<Lair, 1>>
          BY <2>15, <2>16, <3>1, <3>2, <4>1
        <5> QED
          BY <5>1, <5>2
      <4>2. CASE x # "hide"
        <5>1. x \in Bag(rs, as, cs, s)
          BY <2>15, <2>16, <3>2, <4>2
        <5>2. x \in Bag(rs, as, cs, t)
          BY <2>15, <2>16, <3>2, <4>2
        <5> QED
          BY <5>1, <5>2 DEF Kept, Apart
      <4> QED
        BY <4>1, <4>2
    <3>3. Hidden(rt, as, cs)
      BY <2>8, <2>9, <2>16 DEF Hidden
    <3> QED
      BY <2>1, <2>9, <2>10, <2>12, <2>14, <2>8, <1>2, <3>2, <3>3 DEF Kept, Apart
  <2>17. CASE r # Lair
    <3>1. \A s \in Spots : Bag(rt, as, cs, s) = Bag(rs, as, cs, s)
      BY <2>15, <2>17
    <3>2. rt[Lair] = rs[Lair]
      BY <2>9, <2>17 DEF ResidentConstants
    <3>3. Hidden(rt, as, cs) /\ Apart(rt, as, cs)
      BY <3>1, <3>2 DEF Kept, Hidden, Apart
    <3> QED
      BY <2>1, <2>9, <2>10, <2>12, <2>14, <2>8, <1>2, <3>3 DEF Kept
  <2> QED
    BY <2>16, <2>17
<1> QED
  BY <1>1, <1>2

\* The slot a thing is put into holds nothing that is in use.
LEMMA FreeCell ==
  ASSUME ResidentConstants, NEW chamber \in RoomRecords,
         \A c \in Cells : chamber.cells[c].active => c <= chamber.count
  PROVE  /\ CellFor(chamber) \in Nat
         /\ CellFor(chamber) <= MaxEntities => CellFor(chamber) \in Cells /\ ~chamber.cells[CellFor(chamber)].active
<1>1. chamber.count \in 0..MaxEntities /\ MaxEntities \in Nat
  BY DEF RoomRecords, ResidentConstants
<1>2. CASE FreeCells(chamber) # {}
  <2>1. FreeCells(chamber) \in SUBSET Nat
    BY <1>1 DEF FreeCells
  <2>2. CellFor(chamber) \in FreeCells(chamber)
    BY <1>2, <2>1, Smallest DEF CellFor
  <2> QED
    BY <1>1, <2>2 DEF FreeCells, Cells
<1>3. CASE FreeCells(chamber) = {}
  <2>1. CellFor(chamber) = chamber.count + 1
    BY <1>3 DEF CellFor
  <2> QED
    BY <1>1, <2>1 DEF Cells
<1> QED
  BY <1>2, <1>3

\* The view of a room that is bound anew begins with the room's own length.
LEMMA Binding ==
  ASSUME ResidentConstants, NEW rs, NEW as, NEW cs, Kept(rs, as, cs), Fits(rs),
         NEW p \in Visitors, NEW v, NEW o,
         IF as[p] = Nowhere THEN v = NoRoom
         ELSE v = BoundTo(rs, as[p].of) /\ o.of = as[p].of
  PROVE  /\ Fits(Saved(rs, v, o)) /\ v \in [of : RoomIDs \cup {"none"}, count : 0..MaxEntities]
         /\ v.of = as[p].of /\ (v.of # "none" => o.of = v.of)
<1>1. CASE as[p] = Nowhere
  <2>1. v = NoRoom /\ NoRoom.of = "none" /\ Nowhere.of = "none"
    BY <1>1 DEF NoRoom, Nowhere
  <2>2. Saved(rs, v, o) = rs
    BY <2>1 DEF Saved
  <2>3. NoRoom \in [of : RoomIDs \cup {"none"}, count : 0..MaxEntities]
    BY DEF NoRoom, ResidentConstants
  <2> QED
    BY <1>1, <2>1, <2>2, <2>3
<1>2. CASE as[p] # Nowhere
  <2>1. as[p].of \in RoomIDs /\ v = BoundTo(rs, as[p].of) /\ o.of = as[p].of
    BY <1>2 DEF Kept, Stands
  <2>2. v.of = as[p].of /\ v.count = rs[as[p].of].count
    BY <2>1 DEF BoundTo
  <2>3. rs \in [RoomIDs -> RoomRecords] /\ rs[as[p].of].count \in 0..MaxEntities
    BY <2>1 DEF Kept, RoomRecords
  <2>4. v \in [of : RoomIDs \cup {"none"}, count : 0..MaxEntities]
    BY <2>1, <2>3 DEF BoundTo
  <2>5. \A r \in RoomIDs : Saved(rs, v, o)[r].cells = rs[r].cells /\ Saved(rs, v, o)[r].count = rs[r].count
    <3>1. v.of # "none" => o.of = v.of
      BY <2>1, <2>2
    <3>2. \A r \in RoomIDs : /\ Saved(rs, v, o)[r].cells = rs[r].cells
                           /\ Saved(rs, v, o)[r].count = IF r = v.of THEN v.count ELSE rs[r].count
      BY <2>3, <2>4, <3>1, SavedRooms, SMTT(30)
    <3> QED
      BY <2>2, <3>2
  <2>6. Fits(Saved(rs, v, o))
    BY <2>5 DEF Fits
  <2> QED
    BY <2>1, <2>2, <2>4, <2>6
<1> QED
  BY <1>1, <1>2

LEMMA SavedKept ==
  ASSUME ResidentConstants, RoomsKept
  PROVE  /\ Kept(Saved(rooms, view, observer), actors, carried) /\ Fits(Saved(rooms, view, observer))
         /\ \A r \in RoomIDs : /\ Saved(rooms, view, observer)[r].cells = rooms[r].cells
                              /\ Saved(rooms, view, observer)[r].ready = rooms[r].ready
                              /\ Saved(rooms, view, observer)[r].count =
                                   IF r = view.of THEN view.count ELSE rooms[r].count
<1>1. /\ rooms \in [RoomIDs -> RoomRecords] /\ view \in [of : RoomIDs \cup {"none"}, count : 0..MaxEntities]
      /\ (view.of # "none" => observer.of = view.of) /\ Kept(rooms, actors, carried)
      /\ Fits(Saved(rooms, view, observer))
  BY DEF RoomsKept, Kept
<1> QED
  BY <1>1, SavedRooms, SameCellsKept

\* What a player has is on its body while it has one; the copy it keeps counts for nothing.
LEMMA CopyKeeps ==
  ASSUME ResidentConstants, RoomsKept, NEW rs, Kept(rs, actors, carried)
  PROVE  /\ Character(chosen) \in SUBSET Things
         /\ Kept(rs, actors, [carried EXCEPT ![chosen] = Character(chosen)])
         /\ actors[chosen] = Nowhere => [carried EXCEPT ![chosen] = Character(chosen)] = carried
<1>1. chosen \in Visitors /\ carried \in [Visitors -> SUBSET Things] /\ Kept(rooms, actors, carried)
  BY DEF RoomsKept, Kept
<1>2. Character(chosen) \in SUBSET Things
  <2>1. CASE actors[chosen] = Nowhere
    BY <1>1, <2>1 DEF Character
  <2>2. CASE actors[chosen] # Nowhere
    <3>1. actors[chosen].of \in RoomIDs /\ actors[chosen].cell \in Cells /\ rooms \in [RoomIDs -> RoomRecords]
      BY <1>1, <2>2 DEF Kept, Stands
    <3>2. Body(chosen) \in CellRecords
      BY <3>1 DEF Body, RoomRecords
    <3>3. Character(chosen) = Body(chosen).holds
      BY <2>2 DEF Character
    <3> QED
      BY <3>2, <3>3 DEF CellRecords
  <2> QED
    BY <2>1, <2>2
<1>3. PICK ct : ct = [carried EXCEPT ![chosen] = Character(chosen)]
  OBVIOUS
<1>4. ct \in [Visitors -> SUBSET Things]
  BY <1>1, <1>2, <1>3
<1>5. \A q \in Visitors : actors[q] = Nowhere => ct[q] = carried[q]
  BY <1>1, <1>3 DEF Character
<1>6. ASSUME NEW s \in Spots PROVE Bag(rs, actors, ct, s) = Bag(rs, actors, carried, s)
  <2>1. CASE s[1] \in RoomIDs
    BY <2>1 DEF Bag
  <2>2. CASE s[1] \notin RoomIDs
    <3>1. s[2] \in Visitors
      BY <2>2 DEF Spots
    <3> QED
      BY <1>5, <2>2, <3>1 DEF Bag
  <2> QED
    BY <2>1, <2>2
<1>7. Hidden(rs, actors, ct) /\ Apart(rs, actors, ct)
  BY <1>6 DEF Kept, Hidden, Apart
<1>8. Kept(rs, actors, ct)
  BY <1>4, <1>7 DEF Kept
<1>9. actors[chosen] = Nowhere => ct = carried
  BY <1>1, <1>3 DEF Character
<1> QED
  BY <1>2, <1>3, <1>8, <1>9

LEMMA SelectStep ==
  ASSUME ResidentConstants, RoomsKept, NEW p \in Visitors, Select(p)
  PROVE  RoomsKept'
<1>1. /\ chosen' = p /\ rooms' = Saved(rooms, view, observer) /\ actors' = actors
      /\ carried' = [carried EXCEPT ![chosen] = Character(chosen)]
  BY DEF Select
<1>2. Kept(rooms', actors', carried') /\ Fits(rooms')
  BY <1>1, SavedKept, CopyKeeps
<1>3. IF actors'[chosen'] = Nowhere THEN view' = NoRoom
      ELSE view' = BoundTo(rooms', actors'[chosen'].of) /\ observer'.of = actors'[chosen'].of
  BY <1>1 DEF Select, BindFor
<1> QED
  BY <1>1, <1>2, <1>3, Binding DEF RoomsKept

LEMMA VisitStep ==
  ASSUME ResidentConstants, RoomsKept, NEW r \in RoomIDs, Visit(r)
  PROVE  RoomsKept'
<1>1. /\ chosen' = chosen /\ rooms' = Saved(rooms, view, observer) /\ actors' = actors
      /\ carried' = carried /\ chosen \in Visitors
  BY DEF Visit, RoomsKept
<1>2. Kept(rooms', actors', carried') /\ Fits(rooms')
  BY <1>1, SavedKept
<1>3. IF actors'[chosen'] = Nowhere THEN view' = NoRoom
      ELSE view' = BoundTo(rooms', actors'[chosen'].of) /\ observer'.of = actors'[chosen'].of
  BY <1>1 DEF Visit, BindFor
<1> QED
  BY <1>1, <1>2, <1>3, Binding DEF RoomsKept

PutIn(rs, r, c, e) == [rs EXCEPT ![r].cells[c] = e]

LEMMA PutCell ==
  ASSUME NEW rs \in [RoomIDs -> RoomRecords], NEW r \in RoomIDs, NEW c \in Cells, NEW e \in CellRecords,
         NEW rt, rt = PutIn(rs, r, c, e)
  PROVE  /\ rt \in [RoomIDs -> RoomRecords] /\ rt[r].cells[c] = e
         /\ \A q \in RoomIDs : rt[q].ready = rs[q].ready /\ rt[q].count = rs[q].count
         /\ \A q \in RoomIDs, d \in Cells : q # r \/ d # c => rt[q].cells[d] = rs[q].cells[d]
<1>1. PICK old : old = rs[r]
  OBVIOUS
<1>2. old \in RoomRecords
  BY <1>1
<1>3. PICK cells : cells = [old.cells EXCEPT ![c] = e]
  OBVIOUS
<1>4. /\ cells \in [Cells -> CellRecords] /\ cells[c] = e
      /\ \A d \in Cells : d # c => cells[d] = old.cells[d]
  BY <1>2, <1>3 DEF RoomRecords
<1>5. PICK chamber : chamber = [old EXCEPT !.cells = cells]
  OBVIOUS
<1>6. chamber \in RoomRecords /\ chamber.cells = cells /\ chamber.ready = old.ready /\ chamber.count = old.count
  BY <1>2, <1>4, <1>5 DEF RoomRecords
<1>7. rt = [rs EXCEPT ![r] = chamber]
  BY <1>1, <1>3, <1>5 DEF PutIn
<1>8. rt \in [RoomIDs -> RoomRecords] /\ rt[r] = chamber /\ \A q \in RoomIDs : q # r => rt[q] = rs[q]
  BY <1>6, <1>7, Zenon
<1> QED
  BY <1>1, <1>4, <1>6, <1>8

\* A player who goes out of a room, and what was in front stays in front.
LEMMA LeftRoom ==
  ASSUME ResidentConstants, NEW rs, NEW as, NEW cs, Kept(rs, as, cs), Fits(rs),
         NEW p \in Visitors, as[p] # Nowhere, NEW rt,
         rt = PutIn(rs, as[p].of, as[p].cell, Empty)
  PROVE  /\ Kept(rt, [as EXCEPT ![p] = Nowhere],
                  [cs EXCEPT ![p] = rs[as[p].of].cells[as[p].cell].holds])
         /\ Fits(rt)
         /\ \A q \in RoomIDs : /\ rt[q].ready = rs[q].ready /\ rt[q].count = rs[q].count
                              /\ q # as[p].of => \A d \in Cells : rt[q].cells[d] = rs[q].cells[d]
<1>1. as[p].of \in RoomIDs /\ as[p].cell \in Cells /\ rs \in [RoomIDs -> RoomRecords]
  BY DEF Kept, Stands
<1>2. Empty \in CellRecords /\ ~Empty.active
  BY DEF Empty, CellRecords, Things
<1>3. /\ rt \in [RoomIDs -> RoomRecords] /\ rt[as[p].of].cells[as[p].cell] = Empty
      /\ \A q \in RoomIDs : rt[q].ready = rs[q].ready /\ rt[q].count = rs[q].count
      /\ \A q \in RoomIDs, d \in Cells :
            q # as[p].of \/ d # as[p].cell => rt[q].cells[d] = rs[q].cells[d]
  <2>1. PICK r, c : r = as[p].of /\ c = as[p].cell
    OBVIOUS
  <2>2. rt = PutIn(rs, r, c, Empty) /\ r \in RoomIDs /\ c \in Cells
    BY <1>1, <2>1
  <2>3. /\ rt \in [RoomIDs -> RoomRecords] /\ rt[r].cells[c] = Empty
        /\ \A q \in RoomIDs : rt[q].ready = rs[q].ready /\ rt[q].count = rs[q].count
        /\ \A q \in RoomIDs, d \in Cells : q # r \/ d # c => rt[q].cells[d] = rs[q].cells[d]
    BY <1>1, <1>2, <2>2, PutCell
  <2> QED
    BY <2>1, <2>3
<1>4. Kept(rt, [as EXCEPT ![p] = Nowhere], [cs EXCEPT ![p] = rs[as[p].of].cells[as[p].cell].holds])
  <2>1. OnlyCell(rs, rt, as[p].of, as[p].cell, Empty)
    BY <1>3 DEF OnlyCell
  <2> QED
    BY <1>3, <2>1, LeavingKeeps
<1>5. ASSUME NEW q \in RoomIDs, NEW d \in Cells, rt[q].cells[d].active PROVE d <= rt[q].count
  <2>1. q # as[p].of \/ d # as[p].cell
    <3> SUFFICES ASSUME q = as[p].of, d = as[p].cell PROVE FALSE
      OBVIOUS
    <3>1. rt[q].cells[d] = Empty
      BY <1>3
    <3> QED
      BY <1>2, <1>5, <3>1
  <2>2. rt[q].cells[d] = rs[q].cells[d] /\ rt[q].count = rs[q].count
    BY <1>3, <2>1
  <2> QED
    BY <1>5, <2>2 DEF Fits
<1> QED
  BY <1>3, <1>4, <1>5 DEF Fits

LEMMA LeaveRoomStep ==
  ASSUME ResidentConstants, RoomsKept, LeaveRoom
  PROVE  RoomsKept'
<1>1. PICK rs : rs = Saved(rooms, view, observer)
  OBVIOUS
<1>2. /\ Kept(rs, actors, carried) /\ Fits(rs) /\ \A r \in RoomIDs : rs[r].cells = rooms[r].cells
  BY <1>1, SavedKept
<1>3. /\ actors[chosen] # Nowhere /\ chosen \in Visitors /\ chosen' = chosen
      /\ rooms' = PutIn(rs, actors[chosen].of, actors[chosen].cell, Empty)
      /\ actors' = [actors EXCEPT ![chosen] = Nowhere] /\ view' = NoRoom
      /\ carried' = [carried EXCEPT ![chosen] = Character(chosen)]
  BY <1>1 DEF LeaveRoom, RoomsKept, PutIn
<1>4. Character(chosen) = rs[actors[chosen].of].cells[actors[chosen].cell].holds
  <2>1. actors[chosen].of \in RoomIDs
    BY <1>2, <1>3 DEF Kept, Stands
  <2> QED
    BY <1>2, <1>3, <2>1 DEF Character, Body
<1>5. Kept(rooms', actors', carried') /\ Fits(rooms')
  <2>1. carried' = [carried EXCEPT ![chosen] = rs[actors[chosen].of].cells[actors[chosen].cell].holds]
    BY <1>3, <1>4
  <2>2. PICK p, rt : p = chosen /\ rt = rooms'
    BY Zenon
  <2>3. /\ Kept(rt, [actors EXCEPT ![p] = Nowhere],
                 [carried EXCEPT ![p] = rs[actors[p].of].cells[actors[p].cell].holds])
        /\ Fits(rt)
    BY <1>2, <1>3, <2>2, LeftRoom
  <2> QED
    BY <1>3, <2>1, <2>2, <2>3
<1>6. actors'[chosen'] = Nowhere
  BY <1>2, <1>3 DEF Kept, Actors
<1>7. IF actors'[chosen'] = Nowhere THEN view' = NoRoom
      ELSE view' = BoundTo(rooms', actors'[chosen'].of) /\ observer'.of = actors'[chosen'].of
  BY <1>3, <1>6
<1>8. chosen' \in Visitors
  BY <1>3
<1> QED
  BY <1>5, <1>7, <1>8, Binding DEF RoomsKept

LEMMA ResetStep ==
  ASSUME ResidentConstants, RoomsKept, ResetWorld
  PROVE  RoomsKept'
<1>1. /\ \A p \in Visitors : actors[p] = Nowhere
      /\ rooms' = [r \in RoomIDs |-> [cells |-> [c \in Cells |-> Empty], count |-> 0, ready |-> FALSE]]
      /\ view' = NoRoom /\ carried' = [p \in Visitors |-> Character(p) \ {"hide"}]
      /\ chosen' = chosen /\ actors' = actors /\ chosen \in Visitors
  BY DEF ResetWorld, RoomsKept
<1>2. Empty \in CellRecords /\ ~Empty.active /\ Empty.holds = {} /\ Empty.owner = "none"
  BY DEF Empty, CellRecords, Things
<1>3. rooms' \in [RoomIDs -> RoomRecords]
  <2>1. [cells |-> [c \in Cells |-> Empty], count |-> 0, ready |-> FALSE] \in RoomRecords
    BY <1>2 DEF RoomRecords, ResidentConstants
  <2> QED
    BY <1>1, <2>1
<1>4. \A r \in RoomIDs, c \in Cells : rooms'[r].cells[c] = Empty /\ ~rooms'[r].ready
  BY <1>1
<1>5. carried' \in [Visitors -> SUBSET Things]
  BY <1>1 DEF RoomsKept, Kept, Character
<1>6. Stands(rooms', actors')
  BY <1>1 DEF Stands
<1>7. Owned(rooms', actors')
  BY <1>2, <1>4 DEF Owned
<1>8. ASSUME NEW s \in Spots
      PROVE  Bag(rooms', actors', carried', s) \subseteq Bag(rooms, actors, carried, s) \ {"hide"}
  <2>1. CASE s \in RoomIDs \X Cells
    <3>1. PICK q \in RoomIDs, d \in Cells : s = <<q, d>>
      BY <2>1, CellSpots
    <3>2. Bag(rooms', actors', carried', s) = {}
      BY <1>2, <1>4, <3>1 DEF Bag
    <3> QED
      BY <3>2
  <2>2. CASE s \in {"none"} \X Visitors
    <3>1. s[1] \notin RoomIDs /\ s[2] \in Visitors
      BY <2>2 DEF ResidentConstants
    <3>2. carried'[s[2]] = carried[s[2]] \ {"hide"}
      BY <1>1, <3>1 DEF Character
    <3> QED
      BY <1>1, <3>1, <3>2 DEF Bag
  <2> QED
    BY <2>1, <2>2 DEF Spots
<1>9. Hidden(rooms', actors', carried')
  BY <1>8 DEF Hidden
<1>10. Apart(rooms', actors', carried')
  <2>1. Apart(rooms, actors, carried)
    BY DEF RoomsKept, Kept
  <2> QED
    BY <1>8, <2>1 DEF Apart
<1>11. Kept(rooms', actors', carried') /\ Fits(rooms')
  <2>1. actors' \in Actors
    BY <1>1 DEF RoomsKept, Kept
  <2>2. Fits(rooms')
    BY <1>2, <1>4 DEF Fits
  <2> QED
    BY <1>3, <1>5, <1>6, <1>7, <1>9, <1>10, <2>1, <2>2 DEF Kept
<1>12. IF actors'[chosen'] = Nowhere THEN view' = NoRoom
       ELSE view' = BoundTo(rooms', actors'[chosen'].of) /\ observer'.of = actors'[chosen'].of
  BY <1>1
<1>13. chosen' \in Visitors
  BY <1>1
<1> QED
  BY <1>11, <1>12, <1>13, Binding DEF RoomsKept

Lengthened(rs, r, c) == [rs EXCEPT ![r].count = IF c > @ THEN c ELSE @]

\* A player comes into the first free slot of a room.
LEMMA EnteredRoom ==
  ASSUME ResidentConstants, NEW rs, NEW as, NEW cs, Kept(rs, as, cs), Fits(rs),
         NEW p \in Visitors, as[p] = Nowhere, NEW r \in RoomIDs, rs[r].ready,
         NEW c \in Cells, ~rs[r].cells[c].active, NEW mid, mid = PutIn(rs, r, c, Stander(p, cs[p])),
         NEW rt, rt = Lengthened(mid, r, c)
  PROVE  Kept(rt, [as EXCEPT ![p] = [of |-> r, cell |-> c]], cs) /\ Fits(rt)
<1>1. rs \in [RoomIDs -> RoomRecords] /\ cs[p] \in SUBSET Things
  BY DEF Kept
<1>2. PICK e : e = Stander(p, cs[p])
  OBVIOUS
<1>3. e \in CellRecords
  BY <1>1, <1>2 DEF Stander, CellRecords
<1>4. /\ mid \in [RoomIDs -> RoomRecords] /\ mid[r].cells[c] = e
      /\ \A q \in RoomIDs : mid[q].ready = rs[q].ready /\ mid[q].count = rs[q].count
      /\ \A q \in RoomIDs, d \in Cells : q # r \/ d # c => mid[q].cells[d] = rs[q].cells[d]
  BY <1>1, <1>2, <1>3, PutCell
<1>5. PICK old : old = mid[r]
  OBVIOUS
<1>6. PICK n : n = IF c > old.count THEN c ELSE old.count
  OBVIOUS
<1>7. old \in RoomRecords /\ n \in 0..MaxEntities /\ c <= n /\ old.count <= n
  BY <1>4, <1>5, <1>6 DEF RoomRecords, Cells, ResidentConstants
<1>8. PICK chamber : chamber = [old EXCEPT !.count = n]
  OBVIOUS
<1>9. chamber \in RoomRecords /\ chamber.cells = old.cells /\ chamber.ready = old.ready /\ chamber.count = n
  BY <1>7, <1>8 DEF RoomRecords
<1>10. rt = [mid EXCEPT ![r] = chamber]
  BY <1>5, <1>6, <1>8 DEF Lengthened
<1>11. rt \in [RoomIDs -> RoomRecords] /\ rt[r] = chamber /\ \A q \in RoomIDs : q # r => rt[q] = mid[q]
  BY <1>4, <1>9, <1>10
<1>12. /\ \A q \in RoomIDs : rt[q].ready = rs[q].ready
       /\ rt[r].cells[c] = Stander(p, cs[p])
       /\ \A q \in RoomIDs, d \in Cells : q # r \/ d # c => rt[q].cells[d] = rs[q].cells[d]
  BY <1>2, <1>4, <1>5, <1>9, <1>11
<1>13. Kept(rt, [as EXCEPT ![p] = [of |-> r, cell |-> c]], cs)
  <2>1. OnlyCell(rs, rt, r, c, Stander(p, cs[p]))
    BY <1>12 DEF OnlyCell
  <2> QED
    BY <1>11, <2>1, EnteringKeeps
<1>14. ASSUME NEW q \in RoomIDs, NEW d \in Cells, rt[q].cells[d].active PROVE d <= rt[q].count
  <2>1. CASE q = r /\ d = c
    BY <1>7, <1>9, <1>11, <2>1
  <2>2. CASE q = r /\ d # c
    <3>1. d <= rs[r].count
      BY <1>12, <1>14, <2>2 DEF Fits
    <3>2. rs[r].count <= n /\ rt[q].count = n /\ n \in Nat /\ rs[r].count \in Nat /\ d \in Nat
      BY <1>1, <1>4, <1>5, <1>7, <1>9, <1>11, <2>2 DEF RoomRecords, Cells, ResidentConstants
    <3> QED
      BY <3>1, <3>2
  <2>3. CASE q # r
    <3>1. rs[q].cells[d].active /\ rt[q].count = rs[q].count
      BY <1>4, <1>11, <1>12, <1>14, <2>3
    <3> QED
      BY <3>1 DEF Fits
  <2> QED
    BY <2>1, <2>2, <2>3
<1> QED
  BY <1>13, <1>14 DEF Fits

LEMMA TravelStep ==
  ASSUME ResidentConstants, RoomsKept, NEW r \in RoomIDs, NEW standing \in BOOLEAN, Travel(r, standing)
  PROVE  RoomsKept'
<1>1. PICK ready : ready = Prepared(Saved(rooms, view, observer), r)
  OBVIOUS
<1>2. PICK cell : cell = CellFor(ready[r])
  OBVIOUS
<1>3. PICK before : before = actors[chosen]
  OBVIOUS
<1>4. PICK gone : gone = IF before = Nowhere THEN ready ELSE PutIn(ready, before.of, before.cell, Empty)
  BY Zenon
<1>5. /\ IF before = Nowhere THEN r = Entrance ELSE r # before.of
      /\ IF standing /\ cell <= MaxEntities
         THEN /\ rooms' = [gone EXCEPT ![r].cells[cell] = Stander(chosen, Character(chosen)),
                                       ![r].count = IF cell > @ THEN cell ELSE @]
              /\ actors' = [actors EXCEPT ![chosen] = [of |-> r, cell |-> cell]]
              /\ view' = BoundTo(rooms', r) /\ observer' = [by |-> chosen, of |-> r]
              /\ carried' = [carried EXCEPT ![chosen] = Character(chosen)]
         ELSE rooms' = ready /\ BindFor(rooms', actors, chosen) /\ UNCHANGED <<actors, carried>>
      /\ chosen' = chosen
  BY <1>1, <1>2, <1>3, <1>4 DEF Travel, PutIn
<1>6. chosen \in Visitors /\ chosen' \in Visitors
  BY <1>5 DEF RoomsKept
<1>7. /\ Kept(ready, actors, carried) /\ Fits(ready) /\ ready[r].ready
      /\ \A q \in RoomIDs : rooms[q].ready => ready[q].cells = rooms[q].cells
  BY <1>1, SavedKept, PreparedRooms
<1>8. CASE ~(standing /\ cell <= MaxEntities)
  <2>1. /\ rooms' = ready /\ actors' = actors /\ carried' = carried
        /\ BindFor(rooms', actors, chosen)
    BY <1>5, <1>8
  <2>2. IF actors'[chosen'] = Nowhere THEN view' = NoRoom
        ELSE view' = BoundTo(rooms', actors'[chosen'].of) /\ observer'.of = actors'[chosen'].of
    BY <1>5, <2>1 DEF BindFor
  <2>3. Kept(rooms', actors', carried') /\ Fits(rooms')
    BY <1>7, <2>1
  <2> QED
    BY <1>6, <2>2, <2>3, Binding DEF RoomsKept
<1>9. CASE standing /\ cell <= MaxEntities
  <2>1. cell \in Cells /\ ~ready[r].cells[cell].active
    <3>1. ready[r] \in RoomRecords /\ \A c \in Cells : ready[r].cells[c].active => c <= ready[r].count
      BY <1>7 DEF Kept, Fits
    <3> QED
      BY <1>2, <1>9, <3>1, FreeCell
  <2>2. PICK p : p = chosen
    OBVIOUS
  <2>3. PICK bag : bag = Character(chosen)
    OBVIOUS
  <2>4. PICK as : as = [actors EXCEPT ![p] = Nowhere]
    OBVIOUS
  <2>5. PICK cs : cs = [carried EXCEPT ![p] = bag]
    OBVIOUS
  <2>6. p \in Visitors /\ actors \in Actors /\ carried \in [Visitors -> SUBSET Things]
    BY <1>6, <2>2 DEF RoomsKept, Kept
  <2>7. as[p] = Nowhere /\ cs[p] = bag
    BY <2>4, <2>5, <2>6 DEF Actors
  <2>8. /\ Kept(gone, as, cs) /\ Fits(gone) /\ gone[r].ready /\ ~gone[r].cells[cell].active
    <3>1. CASE before = Nowhere
      <4>1. gone = ready
        BY <1>4, <3>1
      <4>2. as = actors
        BY <1>3, <2>2, <2>4, <2>6, <3>1 DEF Actors
      <4>3. cs = carried
        BY <1>3, <2>2, <2>3, <2>5, <2>6, <3>1 DEF Character
      <4> QED
        BY <1>7, <2>1, <4>1, <4>2, <4>3
    <3>2. CASE before # Nowhere
      <4>1. PICK q, c : q = before.of /\ c = before.cell
        OBVIOUS
      <4>2. q \in RoomIDs /\ c \in Cells /\ rooms[q].ready /\ q # r
        BY <1>3, <1>5, <1>6, <3>2, <4>1 DEF RoomsKept, Kept, Stands
      <4>3. bag = ready[q].cells[c].holds
        BY <1>3, <1>7, <2>2, <2>3, <3>2, <4>1, <4>2 DEF Character, Body
      <4>4. gone = PutIn(ready, actors[p].of, actors[p].cell, Empty) /\ actors[p] # Nowhere
        BY <1>3, <1>4, <2>2, <3>2
      <4>7. q = actors[p].of /\ c = actors[p].cell
        BY <1>3, <2>2, <4>1
      <4>5. /\ Kept(gone, [actors EXCEPT ![p] = Nowhere],
                    [carried EXCEPT ![p] = ready[actors[p].of].cells[actors[p].cell].holds])
            /\ Fits(gone)
        BY <1>7, <2>6, <4>4, LeftRoom
      <4>8. gone[r].ready = ready[r].ready /\ gone[r].cells[cell] = ready[r].cells[cell]
        <5>1. Empty \in CellRecords /\ ready \in [RoomIDs -> RoomRecords]
          BY <1>7 DEF Empty, CellRecords, Things, Kept
        <5>2. gone = PutIn(ready, q, c, Empty)
          BY <1>4, <3>2, <4>1
        <5> QED
          BY <2>1, <4>2, <5>1, <5>2, PutCell
      <4>6. as = [actors EXCEPT ![p] = Nowhere]
            /\ cs = [carried EXCEPT ![p] = ready[actors[p].of].cells[actors[p].cell].holds]
        BY <2>4, <2>5, <4>3, <4>7
      <4> QED
        BY <1>7, <2>1, <4>2, <4>5, <4>6, <4>7, <4>8
    <3> QED
      BY <3>1, <3>2
  <2>9. PICK mid : mid = PutIn(gone, r, cell, Stander(p, cs[p]))
    OBVIOUS
  <2>10. PICK rt : rt = Lengthened(mid, r, cell)
    OBVIOUS
  <2>11. rooms' = rt
    BY <1>5, <1>9, <2>2, <2>3, <2>7, <2>9, <2>10 DEF PutIn, Lengthened
  <2>12. Kept(rt, [as EXCEPT ![p] = [of |-> r, cell |-> cell]], cs) /\ Fits(rt)
    BY <2>1, <2>6, <2>7, <2>8, <2>9, <2>10, EnteredRoom
  <2>13. actors' = [as EXCEPT ![p] = [of |-> r, cell |-> cell]] /\ carried' = cs
    BY <1>5, <1>9, <2>2, <2>3, <2>4, <2>5, <2>6 DEF Actors
  <2>14. actors'[chosen'] = [of |-> r, cell |-> cell]
    BY <1>5, <2>2, <2>4, <2>6, <2>13 DEF Actors
  <2>15. actors'[chosen'].of = r /\ actors'[chosen'] # Nowhere
    BY <2>14 DEF Nowhere, ResidentConstants
  <2>16. view' = BoundTo(rooms', r) /\ observer'.of = r
    BY <1>5, <1>9
  <2>17. IF actors'[chosen'] = Nowhere THEN view' = NoRoom
         ELSE view' = BoundTo(rooms', actors'[chosen'].of) /\ observer'.of = actors'[chosen'].of
    BY <2>15, <2>16
  <2>18. Kept(rooms', actors', carried') /\ Fits(rooms')
    BY <2>11, <2>12, <2>13
  <2> QED
    BY <1>6, <2>17, <2>18, Binding DEF RoomsKept
<1> QED
  BY <1>8, <1>9

\* Two slots of a room are changed, of which one is a body.
LEMMA TwoCells ==
  ASSUME NEW rs \in [RoomIDs -> RoomRecords], NEW r \in RoomIDs,
         NEW c \in Cells, NEW b \in Cells, c # b, NEW e \in CellRecords, NEW body \in CellRecords,
         NEW rt, rt = PutIn(PutIn(rs, r, c, e), r, b, body)
  PROVE  /\ rt \in [RoomIDs -> RoomRecords] /\ rt[r].cells[c] = e /\ rt[r].cells[b] = body
         /\ \A q \in RoomIDs : rt[q].ready = rs[q].ready /\ rt[q].count = rs[q].count
         /\ \A q \in RoomIDs, d \in Cells :
              q # r \/ (d # c /\ d # b) => rt[q].cells[d] = rs[q].cells[d]
<1>1. PICK mid : mid = PutIn(rs, r, c, e)
  OBVIOUS
<1>2. /\ mid \in [RoomIDs -> RoomRecords] /\ mid[r].cells[c] = e
      /\ \A q \in RoomIDs : mid[q].ready = rs[q].ready /\ mid[q].count = rs[q].count
      /\ \A q \in RoomIDs, d \in Cells : q # r \/ d # c => mid[q].cells[d] = rs[q].cells[d]
  BY <1>1, PutCell
<1>3. rt = PutIn(mid, r, b, body)
  BY <1>1
<1>4. /\ rt \in [RoomIDs -> RoomRecords] /\ rt[r].cells[b] = body
      /\ \A q \in RoomIDs : rt[q].ready = mid[q].ready /\ rt[q].count = mid[q].count
      /\ \A q \in RoomIDs, d \in Cells : q # r \/ d # b => rt[q].cells[d] = mid[q].cells[d]
  BY <1>2, <1>3, PutCell
<1> QED
  BY <1>2, <1>4

\* Something is put into a slot, and the body holds h instead of what it held.
Handed(rs, r, c, e, b, h) == PutIn(PutIn(rs, r, c, e), r, b, [rs[r].cells[b] EXCEPT !.holds = h])

TakenIn(rs, r, c, e, b, M) == [rs EXCEPT ![r].cells[c] = e, ![r].cells[b].holds = @ \cup M]
HandedOut(rs, r, c, e, b, M) == [rs EXCEPT ![r].cells[c] = e, ![r].cells[b].holds = @ \ M]

\* Whose view it is, and the body that has it.
LEMMA Viewer ==
  ASSUME ResidentConstants, RoomsKept, view.of # "none"
  PROVE  /\ chosen \in Visitors /\ actors[chosen] # Nowhere /\ actors[chosen].of = view.of
         /\ view.of \in RoomIDs /\ actors[chosen].cell \in Cells
         /\ rooms \in [RoomIDs -> RoomRecords] /\ rooms[view.of].ready
         /\ rooms[view.of].cells[actors[chosen].cell] \in CellRecords
         /\ rooms[view.of].cells[actors[chosen].cell].active
         /\ rooms[view.of].cells[actors[chosen].cell].owner = chosen
         /\ rooms[view.of].cells[actors[chosen].cell].kind = "player"
<1>1. chosen \in Visitors /\ actors[chosen].of = view.of /\ actors[chosen] # Nowhere
  BY DEF RoomsKept, Nowhere
<1>2. /\ actors[chosen].of \in RoomIDs /\ actors[chosen].cell \in Cells /\ rooms[actors[chosen].of].ready
      /\ rooms[actors[chosen].of].cells[actors[chosen].cell].active
      /\ rooms[actors[chosen].of].cells[actors[chosen].cell].owner = chosen
      /\ rooms[actors[chosen].of].cells[actors[chosen].cell].kind = "player"
  BY <1>1 DEF RoomsKept, Kept, Stands
<1>3. rooms \in [RoomIDs -> RoomRecords]
  BY DEF RoomsKept, Kept
<1>4. rooms[view.of].cells[actors[chosen].cell] \in CellRecords
  BY <1>1, <1>2, <1>3 DEF RoomRecords
<1> QED
  BY <1>1, <1>2, <1>3, <1>4

\* Where the view grows with what is put into it, nothing goes out of sight.
LEMMA ViewGrows ==
  ASSUME ResidentConstants, RoomsKept, view.of # "none", Kept(rooms', actors', carried'),
         view' \in [of : RoomIDs \cup {"none"}, count : 0..MaxEntities],
         view'.of = view.of, view'.count >= view.count, UNCHANGED <<observer, chosen, actors>>,
         \A q \in RoomIDs : rooms'[q].count = rooms[q].count,
         \A q \in RoomIDs, d \in Cells :
            rooms'[q].cells[d].active => \/ rooms[q].cells[d].active
                                         \/ q = view.of /\ d <= view'.count
  PROVE  RoomsKept'
<1>1. observer'.of = view'.of /\ view.of \in RoomIDs /\ view.count \in Nat /\ view'.count \in Nat
  BY DEF RoomsKept, ResidentConstants
<1>2. PICK rt, v, o : rt = rooms' /\ v = view' /\ o = observer'
  OBVIOUS
<1>3. rt \in [RoomIDs -> RoomRecords]
  BY <1>2 DEF Kept
<1>4. /\ Saved(rt, v, o) \in [RoomIDs -> RoomRecords]
      /\ \A r \in RoomIDs : /\ Saved(rt, v, o)[r].cells = rt[r].cells
                           /\ Saved(rt, v, o)[r].count = IF r = v.of THEN v.count ELSE rt[r].count
  BY <1>1, <1>2, <1>3, SavedRooms
<1>5. ASSUME NEW q \in RoomIDs, NEW d \in Cells, rt[q].cells[d].active
      PROVE  d <= IF q = v.of THEN v.count ELSE rt[q].count
  <2>1. CASE rooms[q].cells[d].active
    <3>1. d <= IF q = view.of THEN view.count ELSE rooms[q].count
      BY <2>1, SavedKept DEF Fits
    <3>2. d \in Nat
      BY DEF Cells
    <3> QED
      BY <1>1, <1>2, <3>1, <3>2
  <2>2. CASE ~rooms[q].cells[d].active
    BY <1>2, <1>5, <2>2
  <2> QED
    BY <2>1, <2>2
<1>6. Fits(Saved(rt, v, o))
  BY <1>4, <1>5, Zenon DEF Fits
<1> QED
  BY <1>1, <1>2, <1>6 DEF RoomsKept

\* What lies in a slot goes to the player, who has slain or picked it up.
LEMMA TakingStep ==
  ASSUME ResidentConstants, RoomsKept, NEW c \in Cells, InView(c), Seen(c).active, Seen(c).kind # "player",
         NEW h, h = rooms[view.of].cells[actors[chosen].cell].holds \cup Seen(c).holds,
         rooms' = Handed(rooms, view.of, c, Empty, actors[chosen].cell, h),
         UNCHANGED <<view, observer, chosen, actors, carried>>
  PROVE  RoomsKept'
<1>1. PICK r, b, p : r = view.of /\ b = actors[chosen].cell /\ p = chosen
  BY Zenon
<1>2. /\ p \in Visitors /\ actors[p] # Nowhere /\ actors[p].of = r /\ actors[p].cell = b
      /\ r \in RoomIDs /\ b \in Cells /\ rooms \in [RoomIDs -> RoomRecords] /\ r # "none"
      /\ rooms[r].cells[b] \in CellRecords /\ rooms[r].cells[b].active
      /\ rooms[r].cells[b].owner = p /\ rooms[r].cells[b].kind = "player"
  BY <1>1, Viewer DEF InView
<1>3. PICK x, y : x = rooms[r].cells[c] /\ y = rooms[r].cells[b]
  BY Zenon
<1>4. x \in CellRecords /\ x.active /\ x.kind # "player" /\ Seen(c) = x /\ y \in CellRecords
  BY <1>1, <1>2, <1>3 DEF Seen, RoomRecords
<1>5. c # b
  BY <1>2, <1>3, <1>4
<1>6. x.owner = "none"
  <2> SUFFICES ASSUME x.owner # "none" PROVE FALSE
    BY Zenon
  <2>1. x.owner \in Visitors /\ actors[x.owner] = [of |-> r, cell |-> c]
    <3>1. Owned(rooms, actors)
      BY DEF RoomsKept, Kept
    <3>2. x.owner \in Visitors
      BY <1>4 DEF CellRecords
    <3> QED
      BY <1>2, <1>3, <3>1, <3>2 DEF Owned
  <2>2. PICK q : q = x.owner
    BY Zenon
  <2>3. actors[q].of = r /\ actors[q].cell = c /\ q \in Visitors
    BY <2>1, <2>2
  <2>4. actors[q] # Nowhere
    <3>1. Nowhere.of = "none"
      BY DEF Nowhere
    <3> QED
      BY <1>2, <2>3, <3>1, Zenon
  <2>5. rooms[r].cells[c].kind = "player"
    BY <2>3, <2>4 DEF RoomsKept, Kept, Stands
  <2> QED
    BY <1>3, <1>4, <2>5
<1>7. PICK body : body = [y EXCEPT !.holds = h]
  OBVIOUS
<1>8. /\ body \in CellRecords /\ body.active /\ body.owner = p /\ body.kind = "player"
      /\ body.holds = y.holds \cup x.holds
  <2>1. h = y.holds \cup x.holds
    BY <1>1, <1>3, <1>4
  <2> QED
    BY <1>2, <1>3, <1>4, <1>7, <2>1 DEF CellRecords
<1>9. PICK rt : rt = PutIn(PutIn(rooms, r, c, Empty), r, b, body)
  OBVIOUS
<1>10. Empty \in CellRecords /\ Empty.owner = "none" /\ ~Empty.active /\ Empty.holds = {}
  BY Zenon DEF Empty, CellRecords, Things
<1>11. rooms' = rt
  BY <1>1, <1>3, <1>7, <1>9 DEF Handed
<1>12. /\ rt \in [RoomIDs -> RoomRecords] /\ rt[r].cells[c] = Empty /\ rt[r].cells[b] = body
       /\ \A q \in RoomIDs : rt[q].ready = rooms[q].ready /\ rt[q].count = rooms[q].count
       /\ \A q \in RoomIDs, d \in Cells :
             q # r \/ (d # c /\ d # b) => rt[q].cells[d] = rooms[q].cells[d]
  <2>1. PICK e : e = Empty
    OBVIOUS
  <2>2. rt = PutIn(PutIn(rooms, r, c, e), r, b, body) /\ e \in CellRecords
    BY <1>9, <1>10, <2>1
  <2>3. r \in RoomIDs /\ b \in Cells /\ rooms \in [RoomIDs -> RoomRecords] /\ body \in CellRecords
    BY <1>2, <1>8
  <2>4. /\ rt \in [RoomIDs -> RoomRecords] /\ rt[r].cells[c] = e /\ rt[r].cells[b] = body
        /\ \A q \in RoomIDs : rt[q].ready = rooms[q].ready /\ rt[q].count = rooms[q].count
        /\ \A q \in RoomIDs, d \in Cells :
              q # r \/ (d # c /\ d # b) => rt[q].cells[d] = rooms[q].cells[d]
    BY <1>5, <2>2, <2>3, TwoCells
  <2> QED
    BY <2>1, <2>4
<1>13. Kept(rt, actors, carried)
  <2>1. Passes(x.holds, rooms[r].cells[c].holds, rooms[r].cells[b].holds, Empty.holds, body.holds)
    BY <1>3, <1>8, <1>10 DEF Passes
  <2>2. Kept(rooms, actors, carried) /\ r = actors[p].of /\ b = actors[p].cell
    BY <1>2 DEF RoomsKept
  <2>3. rooms[r].cells[c].owner = "none"
    BY <1>3, <1>6
  <2>4. OnlyTwo(rooms, rt, r, c, b, Empty, body)
    BY <1>12 DEF OnlyTwo
  <2> QED
    BY <1>2, <1>5, <1>8, <1>10, <1>12, <2>1, <2>2, <2>3, <2>4, HandingKeeps
<1>14. ASSUME NEW q \in RoomIDs, NEW d \in Cells, rooms'[q].cells[d].active
       PROVE  rooms[q].cells[d].active
  <2>1. CASE q = r /\ d = c
    BY <1>3, <1>4, <2>1
  <2>2. CASE q = r /\ d = b
    BY <1>2, <2>2, Zenon
  <2>3. CASE q # r \/ (d # c /\ d # b)
    <3>1. rt[q].cells[d] = rooms[q].cells[d]
      BY <1>12, <2>3, Zenon
    <3> QED
      BY <1>11, <1>14, <3>1
  <2> QED
    BY <2>1, <2>2, <2>3
<1>15. /\ view.of # "none" /\ view' \in [of : RoomIDs \cup {"none"}, count : 0..MaxEntities]
       /\ view'.of = view.of /\ view'.count >= view.count /\ Kept(rooms', actors', carried')
       /\ \A q \in RoomIDs : rooms'[q].count = rooms[q].count
  <2>1. view' = view /\ carried' = carried /\ actors' = actors /\ view.of # "none"
    BY <1>1, <1>2
  <2>2. view \in [of : RoomIDs \cup {"none"}, count : 0..MaxEntities]
    BY DEF RoomsKept
  <2>3. view.count \in Nat
    BY <2>2 DEF ResidentConstants
  <2>4. Kept(rooms', actors', carried')
    BY <1>11, <1>13, <2>1, Zenon
  <2>5. \A q \in RoomIDs : rooms'[q].count = rooms[q].count
    BY <1>11, <1>12
  <2>6. view' \in [of : RoomIDs \cup {"none"}, count : 0..MaxEntities]
    BY <2>1, <2>2
  <2>7. view'.of = view.of /\ view'.count = view.count
    BY <2>1
  <2>8. view'.count >= view.count
    <3>1. \A k \in Nat : k >= k
      OBVIOUS
    <3> QED
      BY <2>3, <2>7, <3>1, Zenon
  <2> QED
    BY <2>1, <2>4, <2>5, <2>6, <2>7, <2>8
<1> QED
  BY <1>14, <1>15, ViewGrows

LEMMA TakenStep ==
  ASSUME ResidentConstants, RoomsKept, NEW c \in Cells, Slain(c) \/ PickUpItem(c)
  PROVE  RoomsKept'
<1>1. PICK r, b : r = view.of /\ b = actors[chosen].cell
  BY Zenon
<1>2. /\ r \in RoomIDs /\ b \in Cells /\ rooms \in [RoomIDs -> RoomRecords] /\ actors[chosen].of = r
      /\ rooms[r].cells[b].kind = "player" /\ r # "none"
  BY <1>1, Viewer DEF Slain, PickUpItem, InView
<1>3. Seen(c).kind # "player" /\ Seen(c).active /\ Seen(c) = rooms[r].cells[c]
  BY <1>1 DEF Slain, PickUpItem, Seen
<1>4. c # b
  BY <1>2, <1>3
<1>5. PICK M : M = Seen(c).holds
  BY Zenon
<1>6. rooms' = TakenIn(rooms, r, c, Empty, b, M)
  BY <1>1, <1>2, <1>5 DEF Slain, PickUpItem, TakenIn
<1>7. PICK h : h = rooms[r].cells[b].holds \cup M
  OBVIOUS
<1>8. Empty \in CellRecords
  BY DEF Empty, CellRecords, Things
<1>9. rooms' = Handed(rooms, r, c, Empty, b, h)
  <2>1. PICK e : e = Empty
    OBVIOUS
  <2>2. r \in RoomIDs /\ b \in Cells /\ rooms \in [RoomIDs -> RoomRecords] /\ e \in CellRecords
    BY <1>2, <1>8, <2>1
  <2>3. PICK mid : mid = PutIn(rooms, r, c, e)
    OBVIOUS
  <2>4. mid[r].cells[b] = rooms[r].cells[b]
    BY <1>4, <2>2, <2>3, PutCell
  <2>5. TakenIn(rooms, r, c, e, b, M) = [mid EXCEPT ![r].cells[b].holds = mid[r].cells[b].holds \cup M]
    BY <1>4, <2>2, <2>3 DEF PutIn, TakenIn
  <2>6. TakenIn(rooms, r, c, e, b, M) = [mid EXCEPT ![r].cells[b].holds = h]
    BY <1>7, <2>4, <2>5
  <2>7. [mid EXCEPT ![r].cells[b].holds = h] = PutIn(mid, r, b, [mid[r].cells[b] EXCEPT !.holds = h])
    BY DEF PutIn
  <2>8. TakenIn(rooms, r, c, e, b, M) = Handed(rooms, r, c, e, b, h)
    BY <2>3, <2>4, <2>6, <2>7 DEF Handed
  <2> QED
    BY <1>6, <2>1, <2>8
<1>10. /\ rooms' = Handed(rooms, view.of, c, Empty, actors[chosen].cell, h)
       /\ h = rooms[view.of].cells[actors[chosen].cell].holds \cup Seen(c).holds
  BY <1>1, <1>5, <1>7, <1>9, Zenon
<1>11. InView(c) /\ UNCHANGED <<view, observer, chosen, actors, carried>>
  BY DEF Slain, PickUpItem
<1> QED
  BY <1>3, <1>10, <1>11, TakingStep

LEMMA DropStep ==
  ASSUME ResidentConstants, RoomsKept, NEW x \in Things, DropItem(x)
  PROVE  RoomsKept'
<1>1. PICK r, b, p : r = view.of /\ b = actors[chosen].cell /\ p = chosen
  OBVIOUS
<1>2. PICK here : here = [rooms[r] EXCEPT !.count = view.count]
  OBVIOUS
<1>3. PICK c : c = CellFor(here)
  OBVIOUS
<1>4. /\ actors[chosen] # Nowhere /\ x \in Body(chosen).holds /\ c <= MaxEntities
      /\ rooms' = [rooms EXCEPT ![r].cells[c] = Dropped(x), ![r].cells[b].holds = @ \ {x}]
      /\ view' = [view EXCEPT !.count = IF c > @ THEN c ELSE @]
      /\ UNCHANGED <<observer, chosen, actors, carried>>
  BY <1>1, <1>2, <1>3 DEF DropItem
<1>5. view.of # "none" /\ view \in [of : RoomIDs \cup {"none"}, count : 0..MaxEntities]
  <2>1. view.of = actors[chosen].of /\ actors[chosen].of \in RoomIDs
    BY <1>4 DEF RoomsKept, Kept, Stands
  <2> QED
    BY <2>1 DEF RoomsKept, ResidentConstants
<1>6. /\ p \in Visitors /\ actors[p] # Nowhere /\ actors[p].of = r /\ actors[p].cell = b
      /\ r \in RoomIDs /\ b \in Cells /\ rooms \in [RoomIDs -> RoomRecords] /\ r # "none"
      /\ rooms[r].cells[b] \in CellRecords /\ rooms[r].cells[b].active
      /\ rooms[r].cells[b].owner = p /\ rooms[r].cells[b].kind = "player"
  BY <1>1, <1>5, Viewer
<1>7. PICK y : y = rooms[r].cells[b]
  BY Zenon
<1>8. x \in y.holds /\ y \in CellRecords
  BY <1>1, <1>4, <1>6, <1>7 DEF Body
<1>9. here \in RoomRecords /\ here.cells = rooms[r].cells /\ here.count = view.count
  <2>1. rooms[r] \in RoomRecords /\ view.count \in 0..MaxEntities
    BY <1>5, <1>6
  <2> QED
    BY <1>2, <2>1 DEF RoomRecords
<1>10. c \in Cells /\ ~rooms[r].cells[c].active
  <2>1. ASSUME NEW d \in Cells, here.cells[d].active PROVE d <= here.count
    <3>1. Saved(rooms, view, observer)[r].cells[d].active
      BY <1>6, <1>9, <2>1, SavedKept
    <3>2. Saved(rooms, view, observer)[r].count = view.count
      BY <1>1, <1>6, SavedKept
    <3> QED
      BY <1>6, <1>9, <3>1, <3>2, SavedKept DEF Fits
  <2> QED
    BY <1>3, <1>4, <1>9, <2>1, FreeCell
<1>11. rooms[r].cells[c] = Empty /\ Empty.owner = "none" /\ Empty.holds = {}
  BY <1>6, <1>10 DEF RoomsKept, Kept, Owned, Empty
<1>12. c # b
  BY <1>6, <1>10
<1>13. PICK e : e = Dropped(x)
  OBVIOUS
<1>14. e \in CellRecords /\ e.owner = "none" /\ e.active /\ e.holds = {x}
  BY <1>13 DEF Dropped, Empty, CellRecords, Things
<1>15. PICK body : body = [y EXCEPT !.holds = y.holds \ {x}]
  OBVIOUS
<1>16. /\ body \in CellRecords /\ body.active /\ body.owner = p /\ body.kind = "player"
       /\ body.holds = y.holds \ {x}
  BY <1>6, <1>7, <1>8, <1>15 DEF CellRecords
<1>17. PICK rt : rt = PutIn(PutIn(rooms, r, c, e), r, b, body)
  OBVIOUS
<1>18. rooms' = rt
  <2>1. rooms' = HandedOut(rooms, r, c, e, b, {x})
    BY <1>4, <1>13 DEF HandedOut
  <2>2. rooms' = Handed(rooms, r, c, e, b, rooms[r].cells[b].holds \ {x})
    <3>1. PICK M : M = {x}
      OBVIOUS
    <3>2. r \in RoomIDs /\ b \in Cells /\ rooms \in [RoomIDs -> RoomRecords] /\ e \in CellRecords
      BY <1>6, <1>14
    <3>9. PICK h : h = rooms[r].cells[b].holds \ M
      OBVIOUS
    <3>3. PICK mid : mid = PutIn(rooms, r, c, e)
      OBVIOUS
    <3>4. mid[r].cells[b] = rooms[r].cells[b]
      BY <1>10, <1>12, <3>2, <3>3, PutCell
    <3>5. HandedOut(rooms, r, c, e, b, M) = [mid EXCEPT ![r].cells[b].holds = mid[r].cells[b].holds \ M]
      BY <1>10, <1>12, <3>2, <3>3 DEF PutIn, HandedOut
    <3>6. HandedOut(rooms, r, c, e, b, M) = [mid EXCEPT ![r].cells[b].holds = h]
      BY <3>9, <3>4, <3>5
    <3>7. [mid EXCEPT ![r].cells[b].holds = h] = PutIn(mid, r, b, [mid[r].cells[b] EXCEPT !.holds = h])
      BY DEF PutIn
    <3>8. HandedOut(rooms, r, c, e, b, M) = Handed(rooms, r, c, e, b, h)
      BY <3>3, <3>4, <3>6, <3>7 DEF Handed
    <3> QED
      BY <2>1, <3>1, <3>8, <3>9
  <2> QED
    BY <1>7, <1>15, <1>17, <2>2 DEF Handed
<1>19. /\ rt \in [RoomIDs -> RoomRecords] /\ rt[r].cells[c] = e /\ rt[r].cells[b] = body
       /\ \A q \in RoomIDs : rt[q].ready = rooms[q].ready /\ rt[q].count = rooms[q].count
       /\ \A q \in RoomIDs, d \in Cells :
             q # r \/ (d # c /\ d # b) => rt[q].cells[d] = rooms[q].cells[d]
  <2>1. r \in RoomIDs /\ b \in Cells /\ rooms \in [RoomIDs -> RoomRecords] /\ body \in CellRecords
        /\ e \in CellRecords
    BY <1>6, <1>14, <1>16
  <2> QED
    BY <1>10, <1>12, <1>17, <2>1, TwoCells, SMTT(30)
<1>20. Kept(rt, actors, carried)
  <2>a. PICK M : M = {x}
    OBVIOUS
  <2>1. Passes(M, rooms[r].cells[b].holds, rooms[r].cells[c].holds, body.holds, e.holds)
    BY <1>7, <1>8, <1>14, <1>16, <2>a DEF Passes
  <2>2. Kept(rooms, actors, carried) /\ r = actors[p].of /\ b = actors[p].cell
    BY <1>6 DEF RoomsKept
  <2>3. rooms[r].cells[c].owner = "none" /\ (~e.active => e = Empty)
    BY <1>11, <1>14
  <2>4. OnlyTwo(rooms, rt, r, c, b, e, body) /\ rt \in [RoomIDs -> RoomRecords]
    BY <1>19 DEF OnlyTwo
  <2>5. /\ p \in Visitors /\ actors[p] # Nowhere /\ c \in Cells /\ c # b /\ e \in CellRecords
        /\ e.owner = "none" /\ body \in CellRecords /\ body.active /\ body.owner = p
        /\ body.kind = "player"
    BY <1>6, <1>10, <1>12, <1>14, <1>16
  <2> QED
    BY <2>1, <2>2, <2>3, <2>4, <2>5, HandingKeeps, SMTT(30)
<1>21. PICK n : n = IF c > view.count THEN c ELSE view.count
  OBVIOUS
<1>22. n \in 0..MaxEntities /\ c <= n /\ view.count <= n /\ view' = [view EXCEPT !.count = n]
  <2>1. view.count \in 0..MaxEntities /\ MaxEntities \in Nat /\ c \in 1..MaxEntities
    BY <1>5, <1>10 DEF ResidentConstants, Cells
  <2>2. n \in 0..MaxEntities /\ c <= n /\ view.count <= n
    BY <1>21, <2>1
  <2>3. view' = [view EXCEPT !.count = n]
    BY <1>4, <1>21
  <2> QED
    BY <2>2, <2>3
<1>23. /\ view' \in [of : RoomIDs \cup {"none"}, count : 0..MaxEntities]
       /\ view'.of = view.of /\ view'.count = n
  BY <1>5, <1>22
<1>24. ASSUME NEW q \in RoomIDs, NEW d \in Cells, rooms'[q].cells[d].active
       PROVE  \/ rooms[q].cells[d].active
              \/ q = view.of /\ d <= view'.count
  <2>1. CASE q = r /\ d = c
    BY <1>1, <1>22, <1>23, <2>1
  <2>2. CASE q = r /\ d = b
    BY <1>6, <2>2
  <2>3. CASE q # r \/ (d # c /\ d # b)
    <3>1. rt[q].cells[d] = rooms[q].cells[d]
      BY <1>19, <2>3
    <3> QED
      BY <1>18, <1>24, <3>1
  <2> QED
    BY <2>1, <2>2, <2>3
<1>25. view'.count >= view.count /\ UNCHANGED <<observer, chosen, actors>>
  <2>1. view.count \in Nat /\ n \in Nat
    BY <1>5, <1>22 DEF ResidentConstants
  <2> QED
    BY <1>4, <1>22, <1>23, <2>1
<1>26. Kept(rooms', actors', carried') /\ \A q \in RoomIDs : rooms'[q].count = rooms[q].count
  BY <1>4, <1>18, <1>19, <1>20
<1> QED
  BY <1>5, <1>23, <1>24, <1>25, <1>26, ViewGrows

LEMMA ResidentBegins ==
  ASSUME ResidentConstants, ResidentInit
  PROVE  RoomsKept
<1>1. /\ rooms = [r \in RoomIDs |-> [cells |-> [c \in Cells |-> Empty], count |-> 0, ready |-> FALSE]]
      /\ view = NoRoom /\ actors = [p \in Visitors |-> Nowhere] /\ carried = [p \in Visitors |-> {p}]
      /\ chosen \in Visitors
  BY DEF ResidentInit
<1>2. Empty \in CellRecords /\ ~Empty.active /\ Empty.holds = {} /\ Empty.owner = "none"
  BY DEF Empty, CellRecords, Things
<1>3. rooms \in [RoomIDs -> RoomRecords]
  <2>1. [cells |-> [c \in Cells |-> Empty], count |-> 0, ready |-> FALSE] \in RoomRecords
    BY <1>2 DEF RoomRecords, ResidentConstants
  <2> QED
    BY <1>1, <2>1
<1>4. \A r \in RoomIDs, c \in Cells : rooms[r].cells[c] = Empty /\ ~rooms[r].ready
  BY <1>1
<1>5. actors \in Actors /\ \A p \in Visitors : actors[p] = Nowhere
  BY <1>1 DEF Actors, Nowhere, ResidentConstants
<1>6. carried \in [Visitors -> SUBSET Things]
  BY <1>1 DEF Things
<1>7. Stands(rooms, actors) /\ Owned(rooms, actors) /\ Fits(rooms)
  BY <1>2, <1>4, <1>5 DEF Stands, Owned, Fits
<1>8. ASSUME NEW s \in Spots
      PROVE  Bag(rooms, actors, carried, s) = IF s[1] \in RoomIDs THEN {} ELSE {s[2]}
  <2>1. CASE s \in RoomIDs \X Cells
    <3>1. PICK q \in RoomIDs, d \in Cells : s = <<q, d>>
      BY <2>1, CellSpots
    <3> QED
      BY <1>2, <1>4, <3>1 DEF Bag
  <2>2. CASE s \in {"none"} \X Visitors
    <3>1. s[1] \notin RoomIDs /\ s[2] \in Visitors
      BY <2>2 DEF ResidentConstants
    <3> QED
      BY <1>1, <1>5, <3>1 DEF Bag
  <2> QED
    BY <2>1, <2>2 DEF Spots
<1>9. ASSUME NEW s \in Spots, s[1] \notin RoomIDs PROVE s[2] \in Visitors /\ s = <<"none", s[2]>>
  BY <1>9 DEF Spots
<1>10. Hidden(rooms, actors, carried)
  BY <1>8, <1>9 DEF Hidden, ResidentConstants
<1>11. Apart(rooms, actors, carried)
  <2>1. ASSUME NEW x \in Things, NEW s \in Spots, NEW t \in Spots,
               x \in Bag(rooms, actors, carried, s), x \in Bag(rooms, actors, carried, t)
        PROVE  s = t
    <3>1. s[1] \notin RoomIDs /\ s[2] = x
      BY <1>8, <2>1
    <3>2. t[1] \notin RoomIDs /\ t[2] = x
      BY <1>8, <2>1
    <3> QED
      BY <1>9, <3>1, <3>2
  <2> QED
    BY <2>1 DEF Apart
<1>12. Kept(rooms, actors, carried)
  BY <1>3, <1>5, <1>6, <1>7, <1>10, <1>11 DEF Kept
<1>13. IF actors[chosen] = Nowhere THEN view = NoRoom
       ELSE view = BoundTo(rooms, actors[chosen].of) /\ observer.of = actors[chosen].of
  BY <1>1, <1>5
<1>14. chosen \in Visitors /\ Fits(rooms)
  BY <1>1, <1>7
<1> QED
  BY <1>12, <1>13, <1>14, Binding DEF RoomsKept

LEMMA ResidentStep ==
  ASSUME ResidentConstants, RoomsKept, [ResidentNext]_residentVars
  PROVE  RoomsKept'
<1>1. CASE ResidentNext
  BY <1>1, SelectStep, VisitStep, TravelStep, LeaveRoomStep, ResetStep, TakenStep, DropStep, Zenon
     DEF ResidentNext, Things
<1>2. CASE UNCHANGED residentVars
  <2>1. /\ rooms' = rooms /\ view' = view /\ observer' = observer /\ chosen' = chosen
        /\ actors' = actors /\ carried' = carried
    BY <1>2 DEF residentVars
  <2>2. Kept(rooms', actors', carried') /\ Fits(Saved(rooms', view', observer'))
    BY <2>1, Zenon DEF RoomsKept
  <2> QED
    BY <2>1, <2>2, Zenon DEF RoomsKept
<1> QED
  BY <1>1, <1>2

\* A set of which no two elements differ has one at most.
LEMMA AtMostOne ==
  ASSUME NEW S, \A s, t \in S : s = t
  PROVE  Cardinality(S) \in {0, 1} /\ (Cardinality(S) = 1 => S # {})
<1>1. CASE S = {}
  BY <1>1, FS_EmptySet
<1>2. CASE S # {}
  <2>1. PICK s \in S : S = {s}
    BY <1>2
  <2> QED
    BY <2>1, FS_Singleton
<1> QED
  BY <1>1, <1>2

LEMMA KeptIsShared ==
  ASSUME ResidentConstants, RoomsKept
  PROVE  RoomsShared
<1>1. \A r \in RoomIDs : Used(r) \subseteq 1..LengthOf(r)
  <2>1. ASSUME NEW r \in RoomIDs, NEW c \in Used(r) PROVE c \in 1..LengthOf(r)
    <3>1. c \in Cells /\ rooms[r].cells[c].active
      BY <2>1 DEF Used
    <3>2. PICK rs : rs = Saved(rooms, view, observer)
      OBVIOUS
    <3>3. rs \in [RoomIDs -> RoomRecords] /\ c <= rs[r].count
      BY <3>1, <3>2, SavedKept DEF Kept, Fits
    <3>4. rs[r].count \in Nat /\ c \in Nat /\ c >= 1
      BY <3>1, <3>3 DEF RoomRecords, Cells, ResidentConstants
    <3>5. LengthOf(r) = rs[r].count
      BY <3>2 DEF LengthOf
    <3> QED
      BY <3>3, <3>4, <3>5
  <2> QED
    BY <2>1
<1>2. view.of # "none" => Used(view.of) \subseteq 1..view.count
  <2>1. ASSUME view.of # "none" PROVE view.of \in RoomIDs /\ LengthOf(view.of) = view.count
    BY <2>1, Viewer, SavedKept DEF LengthOf
  <2> QED
    BY <1>1, <2>1
<1>3. ASSUME NEW p \in Visitors
      PROVE  {s \in RoomIDs \X Cells : s[2] \in Used(s[1]) /\ rooms[s[1]].cells[s[2]].owner = p}
               = IF actors[p] = Nowhere THEN {} ELSE {<<actors[p].of, actors[p].cell>>}
  <2>1. ASSUME NEW q \in RoomIDs, NEW d \in Cells, rooms[q].cells[d].owner = p
        PROVE  actors[p] # Nowhere /\ actors[p].of = q /\ actors[p].cell = d
    <3>1. actors[p] = [of |-> q, cell |-> d]
      BY <2>1 DEF RoomsKept, Kept, Owned, ResidentConstants
    <3>2. actors[p].of = q /\ actors[p].cell = d
      BY <3>1
    <3> QED
      BY <3>2 DEF Nowhere, ResidentConstants
  <2>2. ASSUME actors[p] # Nowhere
        PROVE  /\ actors[p].of \in RoomIDs /\ actors[p].cell \in Used(actors[p].of) /\ actors[p].cell \in Cells
               /\ rooms[actors[p].of].cells[actors[p].cell].owner = p
    BY <2>2 DEF RoomsKept, Kept, Stands, Used
  <2> DEFINE own == {s \in RoomIDs \X Cells : s[2] \in Used(s[1]) /\ rooms[s[1]].cells[s[2]].owner = p}
  <2>3. ASSUME NEW s \in own
        PROVE  actors[p] # Nowhere /\ s = <<actors[p].of, actors[p].cell>>
    <3>1. PICK q \in RoomIDs, d \in Cells : s = <<q, d>>
      BY CellSpots
    <3>2. rooms[q].cells[d].owner = p
      BY <3>1
    <3> QED
      BY <2>1, <3>1, <3>2
  <2>4. CASE actors[p] = Nowhere
    <3>1. own = {}
      BY <2>3, <2>4
    <3> QED
      BY <2>4, <3>1
  <2>5. CASE actors[p] # Nowhere
    <3>1. <<actors[p].of, actors[p].cell>> \in own
      BY <2>2, <2>5
    <3>2. own = {<<actors[p].of, actors[p].cell>>}
      BY <2>3, <3>1
    <3> QED
      BY <2>5, <3>2
  <2> QED
    BY <2>4, <2>5
<1>4. ASSUME NEW x \in Visitors \cup {"hide"}
      PROVE  Cardinality({s \in RoomIDs \X Cells : s[2] \in Used(s[1]) /\ x \in rooms[s[1]].cells[s[2]].holds})
               + Cardinality({p \in Visitors : actors[p] = Nowhere /\ x \in carried[p]}) <= 1
  <2> DEFINE there == {s \in RoomIDs \X Cells : s[2] \in Used(s[1]) /\ x \in rooms[s[1]].cells[s[2]].holds}
             here == {p \in Visitors : actors[p] = Nowhere /\ x \in carried[p]}
  <2>1. Apart(rooms, actors, carried) /\ x \in Things
    BY DEF RoomsKept, Kept, Things
  <2>2. ASSUME NEW s \in there PROVE s \in Spots /\ x \in Bag(rooms, actors, carried, s) /\ s[1] \in RoomIDs
    <3>1. PICK q \in RoomIDs, d \in Cells : s = <<q, d>>
      BY CellSpots
    <3>2. x \in rooms[q].cells[d].holds
      BY <3>1
    <3> QED
      BY <3>1, <3>2 DEF Spots, Bag
  <2>3. ASSUME NEW p \in here
        PROVE  <<"none", p>> \in Spots /\ x \in Bag(rooms, actors, carried, <<"none", p>>)
    BY DEF Spots, Bag, ResidentConstants
  <2>4. \A s, t \in there : s = t
    BY <2>1, <2>2 DEF Apart
  <2>5. \A p, q \in here : p = q
    <3>1. ASSUME NEW p \in here, NEW q \in here PROVE p = q
      <4>1. <<"none", p>> = <<"none", q>>
        BY <2>1, <2>3 DEF Apart
      <4> QED
        BY <4>1
    <3> QED
      BY <3>1
  <2>6. there = {} \/ here = {}
    <3> SUFFICES ASSUME NEW s \in there, NEW p \in here PROVE FALSE
      OBVIOUS
    <3>1. s = <<"none", p>>
      BY <2>1, <2>2, <2>3 DEF Apart
    <3> QED
      BY <2>2, <3>1 DEF ResidentConstants
  <2>7. Cardinality(there) \in {0, 1} /\ (Cardinality(there) = 1 => there # {})
    BY <2>4, AtMostOne
  <2>8. Cardinality(here) \in {0, 1} /\ (Cardinality(here) = 1 => here # {})
    BY <2>5, AtMostOne
  <2> HIDE DEF there, here
  <2>9. Cardinality(there) + Cardinality(here) <= 1
    BY <2>6, <2>7, <2>8
  <2> QED
    BY <2>9 DEF there, here
<1>5. view.of # "none" => actors[chosen].of = view.of
  BY DEF RoomsKept
<1> QED
  BY <1>1, <1>2, <1>3, <1>4, <1>5 DEF RoomsShared

\* Whatever controller was selected last, every room is whole for the next one,
\* each player stands in one slot and nothing is in two places, for any number of
\* rooms, players and slots (selectController, travelNativeRoom, spawnEntity).
THEOREM RoomsAreShared == ResidentSpec => []RoomsShared
<1>1. ResidentInit => RoomsKept
  BY ResidentAssumption, ResidentBegins
<1>2. RoomsKept /\ [ResidentNext]_residentVars => RoomsKept'
  BY ResidentAssumption, ResidentStep
<1>3. RoomsKept => RoomsShared
  BY ResidentAssumption, KeptIsShared
<1> QED
  BY <1>1, <1>2, <1>3, PTL DEF ResidentSpec

-----------------------------------------------------------------------------
(* The history *)

HistoryInv ==
  /\ TypeOK
  /\ RetainsNewest
  /\ NoSilentLoss
  /\ eventCount < Capacity => eventStart = 0
  /\ cursor <= Newest

\* An index of at most twice the capacity wraps at most once.
LEMMA WrapOnce ==
  ASSUME NEW i \in Nat, i < Capacity + Capacity
  PROVE  Wrap(i) = IF i < Capacity THEN i ELSE i - Capacity
  BY CapacityAssumption, SMT DEF Wrap

LEMMA WrapSum ==
  ASSUME NEW a \in 0..(Capacity - 1), NEW b \in 0..(Capacity - 1)
  PROVE  Wrap(a + b) = IF a + b < Capacity THEN a + b ELSE a + b - Capacity
<1>0. Capacity \in Nat /\ a \in Nat /\ b \in Nat /\ a < Capacity /\ b < Capacity
  BY CapacityAssumption
<1>1. a + b \in Nat /\ a + b < Capacity + Capacity
  BY <1>0
<1> QED
  BY <1>0, <1>1 DEF Wrap

\* The oldest retained event is the one eventCount before the next.
LEMMA OldestSequence ==
  ASSUME TypeOK, RetainsNewest, eventCount > 0
  PROVE  Oldest = nextSequence - eventCount
<1>1. 0 \in 0..(eventCount - 1)
  BY CapacityAssumption DEF TypeOK
<1>2. Wrap(eventStart + 0) = eventStart
  BY WrapOnce, CapacityAssumption DEF TypeOK
<1>3. Retained(0) = events[eventStart]
  BY <1>2 DEF Retained
<1>4. Retained(0) = nextSequence - eventCount + 0
  BY <1>1 DEF RetainsNewest
<1> QED
  BY <1>3, <1>4, CapacityAssumption, MaxSequenceAssumption DEF Oldest, TypeOK

LEMMA HistoryStarts == Init => HistoryInv
  BY CapacityAssumption, MaxSequenceAssumption
  DEF Init, HistoryInv, TypeOK, RetainsNewest, NoSilentLoss, Newest

\* An event keeps the ring's types and writes the cell after the newest event.
LEMMA HistoryEmitKeeps ==
  ASSUME HistoryInv, Emit
  PROVE  HistoryInv'
<1> USE CapacityAssumption, MaxSequenceAssumption
<1>1. eventStart + eventCount \in Nat /\ eventStart + eventCount < Capacity + Capacity
  BY DEF HistoryInv, TypeOK
<1>2. WriteIndex \in 0..(Capacity - 1)
  BY <1>1, WrapOnce DEF WriteIndex, HistoryInv, TypeOK
<1>3. nextSequence' = nextSequence + 1 /\ nextSequence' \in 1..MaxSequence
  BY DEF Emit, CanEmit, HistoryInv, TypeOK
<1>4. CASE eventCount < Capacity
  <2>1. eventStart = 0 /\ eventStart' = 0 /\ eventCount' = eventCount + 1
    BY <1>4 DEF HistoryInv, Emit, TypeOK
  <2>2. WriteIndex = eventCount
    BY <1>1, <1>4, <2>1, WrapOnce DEF WriteIndex, HistoryInv, TypeOK
  <2>3. TypeOK'
    BY <1>2, <1>3, <1>4, <2>1 DEF HistoryInv, TypeOK, Emit
  <2>4. ASSUME NEW i \in 0..(eventCount' - 1)
        PROVE  Retained(i)' = nextSequence' - eventCount' + i
    <3>1. Wrap(eventStart' + i) = i /\ i \in 0..(Capacity - 1)
      BY <1>4, <2>1, WrapOnce DEF HistoryInv, TypeOK
    <3>2. Retained(i)' = events'[i]
      BY <3>1 DEF Retained
    <3>3. Newest = eventCount
      BY <1>4 DEF HistoryInv, RetainsNewest, Newest, TypeOK
    <3>4. CASE i = eventCount
      BY <2>1, <2>2, <3>1, <3>2, <3>3, <3>4, <1>3 DEF Emit, HistoryInv, TypeOK, Newest
    <3>5. CASE i < eventCount
      <4>1. events'[i] = events[i]
        BY <2>2, <3>1, <3>5 DEF Emit, HistoryInv, TypeOK
      <4>2. Retained(i) = events[i]
        BY <2>1, <3>1 DEF Retained
      <4>3. Retained(i) = nextSequence - eventCount + i
        BY <3>5 DEF HistoryInv, RetainsNewest, TypeOK
      <4>4. nextSequence - eventCount + i = nextSequence' - eventCount' + i
        BY <2>1, <3>1, <1>3 DEF HistoryInv, TypeOK
      <4> QED
        BY <4>1, <4>2, <4>3, <4>4, <3>2
    <3> QED
      BY <2>1, <3>4, <3>5 DEF HistoryInv, TypeOK
  <2>5. RetainsNewest'
    BY <1>3, <1>4, <2>1, <2>4 DEF RetainsNewest, Newest, HistoryInv, TypeOK
  <2>6. NoSilentLoss' /\ (cursor <= Newest)'
    BY <1>3 DEF Emit, HistoryInv, NoSilentLoss, Newest, TypeOK
  <2> QED
    BY <2>1, <2>3, <2>5, <2>6 DEF HistoryInv
<1>5. CASE eventCount = Capacity
  <2>1. eventStart' = Wrap(eventStart + 1) /\ eventCount' = eventCount
    BY <1>5 DEF HistoryInv, Emit, TypeOK
  <2>2. WriteIndex = eventStart
    BY <1>1, <1>5, WrapOnce DEF WriteIndex, HistoryInv, TypeOK
  <2>3. eventStart' = IF eventStart + 1 < Capacity THEN eventStart + 1 ELSE 0
    BY <2>1, WrapOnce DEF HistoryInv, TypeOK
  <2>4. TypeOK'
    BY <1>2, <1>3, <2>1, <2>3 DEF HistoryInv, TypeOK, Emit
  <2>5. ASSUME NEW i \in 0..(eventCount' - 1)
        PROVE  Retained(i)' = nextSequence' - eventCount' + i
    <3>1. i \in 0..(Capacity - 1)
      BY <1>5, <2>1
    <3>2. eventStart' \in 0..(Capacity - 1)
      BY <2>4 DEF TypeOK
    <3>3. Wrap(eventStart' + i) = IF eventStart' + i < Capacity
                                    THEN eventStart' + i ELSE eventStart' + i - Capacity
      BY <3>1, <3>2, WrapSum
    <3>4. Retained(i)' = events'[Wrap(eventStart' + i)]
      BY DEF Retained
    <3>5. CASE i = Capacity - 1
      <4>1. Wrap(eventStart' + i) = eventStart
        BY <2>3, <3>3, <3>5 DEF HistoryInv, TypeOK
      <4>2. events'[eventStart] = nextSequence
        BY <2>2 DEF Emit, HistoryInv, TypeOK
      <4> QED
        BY <4>1, <4>2, <3>4, <3>5, <1>3, <1>5, <2>1 DEF HistoryInv, TypeOK
    <3>6. CASE i < Capacity - 1
      <4>1. i + 1 \in 0..(eventCount - 1)
        BY <1>5, <3>1, <3>6
      <4>2. Wrap(eventStart + (i + 1)) = IF eventStart + (i + 1) < Capacity
                      THEN eventStart + (i + 1) ELSE eventStart + (i + 1) - Capacity
        BY <4>1, <1>5, WrapOnce DEF HistoryInv, TypeOK
      <4>3. Wrap(eventStart' + i) = Wrap(eventStart + (i + 1))
        <5>1. CASE eventStart + 1 < Capacity
          BY <5>1, <2>3, <3>1, <3>3, <4>2 DEF HistoryInv, TypeOK
        <5>2. CASE eventStart + 1 = Capacity
          BY <5>2, <2>3, <3>1, <3>3, <3>6, <4>2 DEF HistoryInv, TypeOK
        <5> QED
          BY <5>1, <5>2 DEF HistoryInv, TypeOK
      <4>4. Wrap(eventStart + (i + 1)) # eventStart
            /\ Wrap(eventStart + (i + 1)) \in 0..(Capacity - 1)
        BY <4>2, <3>1, <3>6 DEF HistoryInv, TypeOK
      <4>5. Retained(i)' = Retained(i + 1)
        BY <4>3, <4>4, <3>4, <2>2 DEF Emit, HistoryInv, TypeOK, Retained
      <4>6. Retained(i + 1) = nextSequence - eventCount + (i + 1)
        BY <4>1 DEF HistoryInv, RetainsNewest
      <4> QED
        BY <4>5, <4>6, <3>1, <1>3, <2>1 DEF HistoryInv, TypeOK
    <3> QED
      BY <3>1, <3>5, <3>6
  <2>6. RetainsNewest'
    BY <1>3, <1>5, <2>1, <2>5 DEF RetainsNewest, Newest, HistoryInv, TypeOK
  <2>7. NoSilentLoss' /\ (cursor <= Newest)'
    BY <1>3 DEF Emit, HistoryInv, NoSilentLoss, Newest, TypeOK
  <2> QED
    BY <1>5, <2>1, <2>4, <2>6, <2>7 DEF HistoryInv
<1> QED
  BY <1>4, <1>5 DEF HistoryInv, TypeOK

\* A poll hands over or declares lost every event since the cursor.
LEMMA HistoryPollKeeps ==
  ASSUME HistoryInv, Poll
  PROVE  HistoryInv'
<1> USE CapacityAssumption, MaxSequenceAssumption
<1>1. UNCHANGED ring
  BY DEF Poll
<1>2. RetainsNewest' /\ Newest' = Newest /\ (eventCount < Capacity => eventStart = 0)'
  BY <1>1 DEF ring, RetainsNewest, Retained, Newest, HistoryInv
<1>3. cursor' = nextSequence - 1 /\ cursor' \in 0..MaxSequence
  BY DEF Poll, Newest, HistoryInv, TypeOK
<1>4. EventsAfter(cursor) =
        {e \in (nextSequence - eventCount)..(nextSequence - 1) : e > cursor}
  <2>1. \A i \in 0..(eventCount - 1) : Retained(i) = nextSequence - eventCount + i
    BY DEF HistoryInv, RetainsNewest
  <2>2. {Retained(i) : i \in 0..(eventCount - 1)} =
          (nextSequence - eventCount)..(nextSequence - 1)
    <3>1. ASSUME NEW e \in (nextSequence - eventCount)..(nextSequence - 1)
          PROVE  \E i \in 0..(eventCount - 1) : Retained(i) = e
      <4> DEFINE j == e - (nextSequence - eventCount)
      <4>1. j \in 0..(eventCount - 1) /\ nextSequence - eventCount + j = e
        BY DEF HistoryInv, TypeOK
      <4>2. Retained(j) = e
        BY <4>1, <2>1
      <4> HIDE DEF j
      <4> QED
        BY <4>1, <4>2
    <3>2. ASSUME NEW i \in 0..(eventCount - 1)
          PROVE  Retained(i) \in (nextSequence - eventCount)..(nextSequence - 1)
      BY <2>1 DEF HistoryInv, TypeOK
    <3> QED
      BY <3>1, <3>2
  <2> QED
    BY <2>2 DEF EventsAfter
<1>5. \A e \in Int :
        (e \in 1..(Oldest - 1) /\ Gap(cursor) /\ e > cursor)
          <=> (eventCount > 0 /\ e > cursor /\ e < nextSequence - eventCount)
  <2>1. CASE eventCount > 0
    <3>1. Oldest = nextSequence - eventCount
      BY <2>1, OldestSequence DEF HistoryInv
    <3> QED
      BY <3>1, <2>1 DEF Gap, HistoryInv, TypeOK
  <2>2. CASE eventCount = 0
    BY <2>2 DEF Gap
  <2> QED
    BY <2>1, <2>2 DEF HistoryInv, TypeOK
<1>6. eventCount = 0 => nextSequence = 1 /\ cursor = 0
  BY DEF HistoryInv, RetainsNewest, Newest, TypeOK
<1>7. 1 <= nextSequence - eventCount
  BY DEF HistoryInv, RetainsNewest, Newest, TypeOK
<1>8. \A e \in Int : e \in seen' <=>
         (e \in seen \/ (e > cursor /\ e >= nextSequence - eventCount /\ e < nextSequence))
  BY <1>4 DEF Poll, HistoryInv, TypeOK
<1>9. \A e \in Int : e \in missed' <=>
         (e \in missed \/ (eventCount > 0 /\ e > cursor /\ e < nextSequence - eventCount))
  BY <1>5 DEF Poll
<1>10. seen' \subseteq 1..MaxSequence /\ missed' \subseteq 1..MaxSequence
  <2>1. EventsAfter(cursor) \subseteq 1..MaxSequence
    BY <1>4, <1>7 DEF HistoryInv, TypeOK
  <2>2. {e \in 1..(Oldest - 1) : Gap(cursor) /\ e > cursor} \subseteq 1..MaxSequence
    BY <1>5 DEF HistoryInv, TypeOK
  <2> QED
    BY <2>1, <2>2 DEF Poll, HistoryInv, TypeOK
<1>11. TypeOK'
  BY <1>1, <1>3, <1>10 DEF ring, HistoryInv, TypeOK
<1>12. NoSilentLoss'
  <2>1. \A e \in Int : e \in seen' \cup missed' <=> e \in 1..cursor'
    BY <1>3, <1>6, <1>7, <1>8, <1>9 DEF HistoryInv, NoSilentLoss, TypeOK, Newest
  <2>2. \A e \in Int : ~(e \in seen' /\ e \in missed')
    BY <1>8, <1>9 DEF HistoryInv, NoSilentLoss, TypeOK
  <2>3. seen' \cup missed' \subseteq Int /\ 1..cursor' \subseteq Int
    BY <1>10, <1>3
  <2>4. seen' \cup missed' = 1..cursor'
    BY <2>1, <2>3
  <2>5. seen' \cap missed' = {}
    BY <2>2, <2>3
  <2> QED
    BY <2>4, <2>5 DEF NoSilentLoss
<1> QED
  BY <1>1, <1>2, <1>3, <1>11, <1>12 DEF HistoryInv, ring, Newest, TypeOK

LEMMA HistoryNextKeeps == HistoryInv /\ [Next]_vars => HistoryInv'
<1> SUFFICES ASSUME HistoryInv, [Next]_vars PROVE HistoryInv'
  OBVIOUS
<1>1. CASE Emit
  BY <1>1, HistoryEmitKeeps
<1>2. CASE Poll
  BY <1>2, HistoryPollKeeps
<1>3. CASE UNCHANGED vars
  BY <1>3 DEF vars, HistoryInv, TypeOK, RetainsNewest, NoSilentLoss, Retained, Newest, Wrap
<1> QED
  BY <1>1, <1>2, <1>3 DEF Next

THEOREM HistoryInvariance == Spec => []HistoryInv
  BY HistoryStarts, HistoryNextKeeps, PTL DEF Spec

\* Every variable keeps its type; in particular no sequence number passes the
\* largest one (emit behind canEmit).
THEOREM TypeCorrect == Spec => []TypeOK
  BY HistoryInvariance, PTL DEF HistoryInv

\* The ring always holds exactly the newest events, in order (emit).
THEOREM RingRetainsNewest == Spec => []RetainsNewest
  BY HistoryInvariance, PTL DEF HistoryInv

\* eventsSince never loses an event silently and never both hands it over and
\* declares it lost.
THEOREM PollerAccountsForEveryEvent == Spec => []NoSilentLoss
  BY HistoryInvariance, PTL DEF HistoryInv

\* The two classes' gap tests are the same test on every valid cursor.
THEOREM GapTestsAreTheSame == Spec => []GapTestsAgree
<1>1. HistoryInv => GapTestsAgree
  BY OldestSequence, CapacityAssumption, MaxSequenceAssumption
  DEF HistoryInv, GapTestsAgree, Gap, SessionGap, TypeOK, Newest
<1> QED
  BY <1>1, HistoryInvariance, PTL

-----------------------------------------------------------------------------
(* The book of trade offers *)

\* What a slot of the book may hold; an answer is accepted for any inventory.
OfferRecord ==
  [id : 0..MaxOfferID, status : Answers \cup {"PENDING", "EMPTY"},
   sender : Traders, recipient : Traders, lines : Lines \cup {<<>>}]

BookType ==
  /\ offers \in [OfferSlots -> OfferRecord]
  /\ nextID \in 1..(MaxOfferID + 1)

\* Ids are drawn in order, and a slot has one exactly when it has been used.
IdsBelow ==
  \A k \in OfferSlots : /\ offers[k].id < nextID
                        /\ offers[k].id = 0 <=> offers[k].status = "EMPTY"

BookInv == BookType /\ IdsBelow /\ OneOfferEach /\ IdsNameOneOffer

-----------------------------------------------------------------------------

\* A scan of the slots from 0 finds one whenever there is one.
LEMMA FirstSlot ==
  ASSUME NEW S, S \subseteq Nat, S # {}
  PROVE  Min(S) \in S
<1>1. PICK m \in S : \A q \in S : ~(<<q, m>> \in OpToRel(<, Nat))
  BY WFMin, NatLessThanWellFounded
<1>2. ASSUME NEW q \in S PROVE m =< q
  <2>1. m \in Nat /\ q \in Nat /\ ~(q < m)
    BY <1>1 DEF OpToRel
  <2> QED
    BY <2>1
<1> QED
  BY <1>2 DEF Min

LEMMA SlotsAreNumbers == OfferSlots \subseteq Nat /\ 0 \in Traders
  BY TradePlayersAssumption DEF OfferSlots, Traders

LEMMA NoOfferType == NoOffer \in OfferRecord
  BY SlotsAreNumbers, MaxOfferIDAssumption DEF NoOffer, OfferRecord

LEMMA BookStarts == TradeInit => BookInv
<1> SUFFICES ASSUME TradeInit PROVE BookInv
  OBVIOUS
<1>1. offers = [k \in OfferSlots |-> NoOffer] /\ nextID = 1
  BY DEF TradeInit
<1>2. \A k \in OfferSlots : offers[k].id = 0 /\ offers[k].status = "EMPTY"
  BY <1>1 DEF NoOffer
<1>3. BookType
  BY <1>1, NoOfferType, MaxOfferIDAssumption DEF BookType
<1>4. OneOfferEach /\ IdsNameOneOffer
  BY <1>2 DEF OneOfferEach, IdsNameOneOffer, Pending
<1> QED
  BY <1>1, <1>2, <1>3, <1>4 DEF BookInv, IdsBelow

\* Answering pending offers, any number of them, keeps the book in order.
LEMMA AnsweringKeeps ==
  ASSUME BookInv, nextID' = nextID,
         offers' \in [OfferSlots -> OfferRecord],
         \A k \in OfferSlots :
           \/ offers'[k] = offers[k]
           \/ /\ offers[k].status = "PENDING"
              /\ offers'[k].status \in Answers
              /\ offers'[k].id = offers[k].id
  PROVE  BookInv'
<1> USE DEF BookInv
<1>1. \A k \in OfferSlots : offers'[k].id = offers[k].id
  OBVIOUS
<1>2. \A k \in OfferSlots : offers'[k].status = "PENDING" => offers'[k] = offers[k]
  BY DEF Answers
<1>3. \A k \in OfferSlots : offers'[k].status = "EMPTY" <=> offers[k].status = "EMPTY"
  BY DEF Answers
<1>4. BookType' /\ IdsBelow'
  BY <1>1, <1>3 DEF BookType, IdsBelow
<1>5. OneOfferEach'
  BY <1>2 DEF OneOfferEach, Pending
<1>6. IdsNameOneOffer'
  BY <1>1 DEF IdsNameOneOffer
<1> QED
  BY <1>4, <1>5, <1>6

LEMMA AnswerKeeps ==
  ASSUME BookInv, NEW k \in Pending, NEW a \in Answers, Answer(k, a), nextID' = nextID
  PROVE  BookInv'
<1>1. k \in OfferSlots /\ offers[k] \in OfferRecord /\ offers[k].status = "PENDING"
  BY DEF Pending, BookInv, BookType
<1>2. [offers[k] EXCEPT !.status = a] \in OfferRecord
  BY <1>1 DEF OfferRecord
<1>3. offers' = [offers EXCEPT ![k] = [offers[k] EXCEPT !.status = a]]
  BY DEF Answer
<1>4. offers' \in [OfferSlots -> OfferRecord]
  BY <1>1, <1>2, <1>3 DEF BookInv, BookType
<1>5. offers'[k].status = a /\ offers'[k].id = offers[k].id
  BY <1>1, <1>3 DEF BookInv, BookType, OfferRecord
<1>6. \A j \in OfferSlots \ {k} : offers'[j] = offers[j]
  BY <1>3 DEF BookInv, BookType
<1> QED
  BY <1>1, <1>4, <1>5, <1>6, AnsweringKeeps

\* The slot propose writes to holds no pending offer.
LEMMA ProposedSlot ==
  ASSUME BookInv, NEW p \in Traders, NEW q \in Traders, NEW l \in Lines, Propose(p, q, l)
  PROVE  LET k == Min(OfferSlots \ Pending)
             o == [id |-> nextID, status |-> "PENDING", sender |-> p,
                   recipient |-> q, lines |-> l]
         IN  /\ k \in OfferSlots \ Pending
             /\ o \in OfferRecord
             /\ offers' = [offers EXCEPT ![k] = o]
             /\ nextID' = nextID + 1
<1>1. OfferSlots \ Pending # {} /\ nextID <= MaxOfferID
  BY DEF Propose
<1>2. Min(OfferSlots \ Pending) \in OfferSlots \ Pending
  BY <1>1, FirstSlot, SlotsAreNumbers
<1>3. nextID \in 0..MaxOfferID
  BY <1>1, MaxOfferIDAssumption DEF BookInv, BookType
<1> QED
  BY <1>2, <1>3 DEF Propose, NextID, OfferRecord

LEMMA ProposeKeeps ==
  ASSUME BookInv, NEW p \in Traders, NEW q \in Traders, NEW l \in Lines, Propose(p, q, l)
  PROVE  BookInv'
<1> DEFINE k == Min(OfferSlots \ Pending)
           o == [id |-> nextID, status |-> "PENDING", sender |-> p,
                 recipient |-> q, lines |-> l]
<1>1. /\ k \in OfferSlots \ Pending
      /\ o \in OfferRecord
      /\ offers' = [offers EXCEPT ![k] = o]
      /\ nextID' = nextID + 1
  BY ProposedSlot
<1>2. ~Busy(p) /\ ~Busy(q) /\ nextID <= MaxOfferID
  BY DEF Propose
<1>3. o.id = nextID /\ o.status = "PENDING" /\ o.sender = p /\ o.recipient = q
  OBVIOUS
<1> HIDE DEF k, o
<1>4. offers'[k] = o /\ \A j \in OfferSlots \ {k} : offers'[j] = offers[j]
  BY <1>1 DEF BookInv, BookType
<1>5. BookType'
  BY <1>1, <1>2, MaxOfferIDAssumption DEF BookInv, BookType
<1>6. IdsBelow'
  <2>1. nextID \in Nat \ {0} /\ \A j \in OfferSlots : offers[j].id \in Nat
    BY DEF BookInv, BookType, OfferRecord
  <2> QED
    BY <1>1, <1>3, <1>4, <2>1 DEF BookInv, IdsBelow
<1>7. IdsNameOneOffer'
  <2>1. \A j \in OfferSlots : offers[j].id # nextID
    BY DEF BookInv, IdsBelow, BookType, OfferRecord
  <2> QED
    BY <1>1, <1>3, <1>4, <2>1 DEF BookInv, IdsNameOneOffer
<1>8. OneOfferEach'
  <2>1. \A j \in Pending : {offers[j].sender, offers[j].recipient} \cap {p, q} = {}
    BY <1>2 DEF Busy, Binds
  <2>2. Pending' \subseteq Pending \cup {k}
    BY <1>4 DEF Pending
  <2>3. \A j \in Pending : j \in OfferSlots \ {k}
    BY <1>1 DEF Pending
  <2> QED
    BY <1>3, <1>4, <2>1, <2>2, <2>3 DEF BookInv, OneOfferEach
<1> QED
  BY <1>5, <1>6, <1>7, <1>8 DEF BookInv

LEMMA AcceptKeeps ==
  ASSUME BookInv, NEW id \in Held, NEW p \in Traders, Accept(id, p)
  PROVE  /\ BookInv'
         /\ \E k \in Pending, a \in Answers : Answer(k, a) /\ nextID' = nextID
<1> DEFINE k == SlotOf(id)
           S == {j \in OfferSlots : offers[j].id = id}
<1>1. k \in S
  <2>1. S \subseteq Nat /\ S # {}
    BY SlotsAreNumbers DEF Held
  <2> QED
    BY <2>1, FirstSlot DEF SlotOf
<1>2. k \in Pending
  BY <1>1 DEF Accept, Pending
<1>3. nextID' = nextID /\ \E a \in Answers : Answer(k, a)
  BY DEF Accept, Answers
<1> HIDE DEF k
<1> QED
  BY <1>2, <1>3, AnswerKeeps

LEMMA DeclineKeeps ==
  ASSUME BookInv, NEW id, NEW p, Decline(id, p) \/ Cancel(id)
  PROVE  /\ BookInv'
         /\ \E k \in Pending, a \in Answers : Answer(k, a) /\ nextID' = nextID
<1> DEFINE k == Min(PendingUnder(id))
<1>1. k \in Pending
  <2>1. PendingUnder(id) \subseteq Nat /\ PendingUnder(id) # {}
    BY SlotsAreNumbers DEF PendingUnder, Pending, Decline, Cancel
  <2>2. k \in PendingUnder(id)
    BY <2>1, FirstSlot
  <2> QED
    BY <2>2 DEF PendingUnder
<1>2. nextID' = nextID /\ \E a \in Answers : Answer(k, a)
  BY DEF Decline, Cancel, Answers
<1> HIDE DEF k
<1> QED
  BY <1>1, <1>2, AnswerKeeps

LEMMA CancelForPlayerKeeps ==
  ASSUME BookInv, NEW p \in Traders, CancelForPlayer(p)
  PROVE  BookInv'
<1>1. \A k \in OfferSlots : offers[k] \in OfferRecord
  BY DEF BookInv, BookType
<1>2. \A k \in OfferSlots : [offers[k] EXCEPT !.status = "CANCELLED"] \in OfferRecord
  BY <1>1 DEF OfferRecord, Answers
<1>3. offers' \in [OfferSlots -> OfferRecord]
  BY <1>1, <1>2 DEF CancelForPlayer
<1>4. \A k \in OfferSlots :
        \/ offers'[k] = offers[k]
        \/ /\ offers[k].status = "PENDING"
           /\ offers'[k].status \in Answers
           /\ offers'[k].id = offers[k].id
  BY <1>1 DEF CancelForPlayer, Pending, Answers, OfferRecord
<1>5. nextID' = nextID
  BY DEF CancelForPlayer
<1> QED
  BY <1>3, <1>4, <1>5, AnsweringKeeps

\* Steps that leave the book alone: what players find, use and lose.
LEMMA BookUntouched ==
  ASSUME BookInv, UNCHANGED <<offers, nextID>>
  PROVE  BookInv'
  BY DEF BookInv, BookType, IdsBelow, OneOfferEach, IdsNameOneOffer, Pending

LEMMA BookNextKeeps == BookInv /\ [TradeNext]_tradeVars => BookInv'
<1> SUFFICES ASSUME BookInv, [TradeNext]_tradeVars PROVE BookInv'
  OBVIOUS
<1>1. ASSUME NEW p \in Traders, NEW q \in Traders, NEW l \in Lines, Propose(p, q, l)
      PROVE  BookInv'
  BY <1>1, ProposeKeeps
<1>2. ASSUME NEW id \in Held, NEW p \in Traders, Accept(id, p) PROVE BookInv'
  BY <1>2, AcceptKeeps
<1>3. ASSUME NEW id \in Held, NEW p \in Traders, Decline(id, p) PROVE BookInv'
  BY <1>3, DeclineKeeps
<1>4. ASSUME NEW id \in Held, Cancel(id) PROVE BookInv'
  BY <1>4, DeclineKeeps
<1>5. ASSUME NEW p \in Traders, CancelForPlayer(p) PROVE BookInv'
  BY <1>5, CancelForPlayerKeeps
<1>6. ASSUME NEW p \in Adventurers, NEW i \in Items, Gain(p, i) \/ Lose(p, i) PROVE BookInv'
  BY <1>6, BookUntouched DEF Gain, Lose
<1>7. ASSUME UNCHANGED tradeVars PROVE BookInv'
  BY <1>7, BookUntouched DEF tradeVars
<1> QED
  BY <1>1, <1>2, <1>3, <1>4, <1>5, <1>6, <1>7 DEF TradeNext

-----------------------------------------------------------------------------
(* Theorems *)

\* The inductive invariant of the book holds in every reachable state.
THEOREM BookInvariance == TradeSpec => []BookInv
  BY BookStarts, BookNextKeeps, PTL DEF TradeSpec

\* No player is ever bound by two pending offers (propose, pendingFor).
THEOREM NobodyPromisesTwice == TradeSpec => []OneOfferEach
<1>1. BookInv => OneOfferEach
  BY DEF BookInv
<1> QED
  BY <1>1, BookInvariance, PTL

\* Within the life of the id counter an id is in the book at most once, so the
\* first slot accept finds is the only one.
THEOREM IdsAreUnique == TradeSpec => []IdsNameOneOffer
<1>1. BookInv => IdsNameOneOffer
  BY DEF BookInv
<1> QED
  BY <1>1, BookInvariance, PTL

\* No two offers can be taken for one another, for any number of players and
\* slots (propose, accept).
THEOREM OffersStayApart == TradeSpec => []OffersApart
<1>1. OneOfferEach /\ IdsNameOneOffer => OffersApart
  BY DEF OffersApart
<1> QED
  BY <1>1, NobodyPromisesTwice, IdsAreUnique, PTL

FinalStep ==
  \A k \in OfferSlots :
    offers[k].status \in Answers =>
      \/ offers'[k] = offers[k]
      \/ offers'[k].status = "PENDING" /\ offers'[k].id \notin Held

\* One answer leaves every answered offer as it is.
LEMMA AnswerIsFinal ==
  ASSUME BookInv, NEW k \in Pending, NEW a \in Answers, Answer(k, a)
  PROVE  FinalStep
  BY DEF BookInv, BookType, Answer, FinalStep, Pending, Answers

\* An answered offer never changes; its slot is only taken over by a new offer
\* under an id the book does not hold (accept, decline, cancel, propose).
THEOREM AnswersStayFinal == TradeSpec => AnswersAreFinal
<1>1. BookInv /\ [TradeNext]_tradeVars => [FinalStep]_tradeVars
  <2> SUFFICES ASSUME BookInv, TradeNext PROVE FinalStep
    OBVIOUS
  <2>1. ASSUME NEW p \in Traders, NEW q \in Traders, NEW l \in Lines, Propose(p, q, l)
        PROVE  FinalStep
    <3> DEFINE k == Min(OfferSlots \ Pending)
               o == [id |-> nextID, status |-> "PENDING", sender |-> p,
                     recipient |-> q, lines |-> l]
    <3>1. k \in OfferSlots /\ offers' = [offers EXCEPT ![k] = o]
      BY <2>1, ProposedSlot
    <3>2. o.status = "PENDING" /\ o.id = nextID
      OBVIOUS
    <3>3. nextID \notin Held
      BY DEF BookInv, IdsBelow, BookType, OfferRecord, Held
    <3> HIDE DEF k, o
    <3> QED
      BY <3>1, <3>2, <3>3 DEF FinalStep, BookInv, BookType
  <2>2. ASSUME NEW id \in Held, NEW p \in Traders,
               Accept(id, p) \/ Decline(id, p) \/ Cancel(id)
        PROVE  FinalStep
    BY <2>2, AcceptKeeps, DeclineKeeps, AnswerIsFinal
  <2>3. ASSUME NEW p \in Traders, CancelForPlayer(p) PROVE FinalStep
    BY <2>3 DEF CancelForPlayer, FinalStep, Pending, Answers
  <2>4. ASSUME NEW p \in Adventurers, NEW i \in Items, Gain(p, i) \/ Lose(p, i)
        PROVE  FinalStep
    BY <2>4 DEF Gain, Lose, FinalStep
  <2> QED
    BY <2>1, <2>2, <2>3, <2>4, AdventurersAssumption, SlotsAreNumbers DEF TradeNext
<1> QED
  BY <1>1, BookInvariance, PTL DEF TradeSpec, AnswersAreFinal, FinalStep


-----------------------------------------------------------------------------
(* Which fields a packet has *)

LEMMA SameOrder == \A t : Writes(t) = Reads(t)
  BY DEF Writes, Reads, PartyWritten, TravelWritten, ActivityWritten, TransferWritten,
         CombatWritten, EventWritten, MovementWritten, PartyRead, TravelRead, ActivityRead,
         TransferRead, CombatRead, EventRead, MovementRead, WrittenProfile, ReadProfile,
         WrittenState, ReadState

ProfileFields == {"deviceID", "level", "characterClass", "displayName"}
StateFields ==
    {"playerID", "displayName", "characterClass", "level", "currentHP", "maxHP",
     "abilityScores", "speed", "characterState", "currentMP", "maxMP", "initiative",
     "trainedWeaponGroup", "channelEnergyCurrent", "channelEnergyMax", "equipment",
     "knownAbilityCount", "knownAbilities", "conditionCount", "conditions"}
EventFields ==
    {"activityID", "combatID", "eventSequence", "eventType", "currentTurnIndex", "round",
     "movementRemaining", "actionFlags", "actor", "target", "actorX", "actorY", "targetX",
     "targetY", "actorHP", "targetHP", "actorState", "targetState", "roomRevision",
     "textLength", "text"}

\* The groups of packets do not overlap.
LEMMA Groups ==
  /\ DOMAIN PartyWritten = {"DISCOVERY_BEACON", "JOIN_REQUEST", "JOIN_ACCEPT", "JOIN_REJECT",
        "PLAYER_JOINED", "PLAYER_LEFT"}
  /\ DOMAIN TravelWritten = {"TRAVEL_INVITE", "ACTIVITY_PREPARE"}
  /\ DOMAIN TransferWritten = {"SNAPSHOT_CHUNK", "ACK", "ROOM_TRANSITION",
        "PLAYER_ROOM_TRANSITION_REQUEST", "SHARED_GAMEPLAY_MESSAGE"}
  /\ DOMAIN CombatWritten = {"COMBAT_BEGIN", "COMBAT_ACTION_REQUEST", "COMBAT_ACK"}
  /\ DOMAIN MovementWritten = {"DUNGEON_BEGIN", "PLAYER_MOVE_REQUEST", "PLAYER_POSITION",
        "PLAYER_ROOM_CHANGE", "EXPLORATION_ABILITY_COMMAND", "EXPLORATION_ABILITY_RESULT"}
  BY DEF PartyWritten, TravelWritten, TransferWritten, CombatWritten, MovementWritten

LEMMA ListOf ==
  /\ \A t \in DOMAIN PartyWritten : Writes(t) = PartyWritten[t]
  /\ \A t \in DOMAIN TravelWritten : Writes(t) = TravelWritten[t]
  /\ \A t \in CharacterPackets : Writes(t) = <<"activityID">> \o WrittenState
  /\ \A t \in Started \cup Members \cup {"PLAYER_SPAWN"} : Writes(t) = ActivityWritten(t)
  /\ \A t \in DOMAIN TransferWritten : Writes(t) = TransferWritten[t]
  /\ \A t \in DOMAIN CombatWritten : Writes(t) = CombatWritten[t]
  /\ \A t \in Events : Writes(t) = EventWritten
  /\ \A t \in DOMAIN MovementWritten : Writes(t) = MovementWritten[t]
  /\ \A t \in Signals : Writes(t) = <<>>
<1>1. \A t \in DOMAIN PartyWritten : Writes(t) = PartyWritten[t]
  BY Groups, SMTT(30) DEF Writes, CharacterPackets, Started, Members, Events, Signals
<1>2. \A t \in DOMAIN TravelWritten : Writes(t) = TravelWritten[t]
  BY Groups, SMTT(30) DEF Writes, CharacterPackets, Started, Members, Events, Signals
<1>3. \A t \in CharacterPackets : Writes(t) = <<"activityID">> \o WrittenState
  BY Groups, SMTT(30) DEF Writes, CharacterPackets, Started, Members, Events, Signals
<1>4. \A t \in Started \cup Members \cup {"PLAYER_SPAWN"} : Writes(t) = ActivityWritten(t)
  BY Groups, SMTT(30) DEF Writes, CharacterPackets, Started, Members, Events, Signals
<1>5. \A t \in DOMAIN TransferWritten : Writes(t) = TransferWritten[t]
  BY Groups, SMTT(30) DEF Writes, CharacterPackets, Started, Members, Events, Signals
<1>6. \A t \in DOMAIN CombatWritten : Writes(t) = CombatWritten[t]
  BY Groups, SMTT(30) DEF Writes, CharacterPackets, Started, Members, Events, Signals
<1>7. \A t \in Events : Writes(t) = EventWritten
  BY Groups, SMTT(30) DEF Writes, CharacterPackets, Started, Members, Events, Signals
<1>8. \A t \in DOMAIN MovementWritten : Writes(t) = MovementWritten[t]
  BY Groups, SMTT(30) DEF Writes, CharacterPackets, Started, Members, Events, Signals
<1>9. \A t \in Signals : Writes(t) = <<>>
  BY Groups, SMTT(30) DEF Writes, CharacterPackets, Started, Members, Events, Signals
<1> QED
  BY <1>1, <1>2, <1>3, <1>4, <1>5, <1>6, <1>7, <1>8, <1>9

LEMMA PartyFields ==
  /\ Fields("DISCOVERY_BEACON") = ProfileFields \cup {"availability", "acceptingPlayers"}
  /\ Fields("JOIN_REQUEST") = ProfileFields
  /\ Fields("JOIN_ACCEPT") = {"assignedPlayerID", "playerCapacity"}
  /\ Fields("JOIN_REJECT") = {"rejection"}
  /\ Fields("PLAYER_JOINED") = {"playerID"} \cup ProfileFields
  /\ Fields("PLAYER_LEFT") = {"playerID", "departure"}
<1>1. Writes("DISCOVERY_BEACON") = PartyWritten["DISCOVERY_BEACON"]
  BY ListOf, Groups
<1>2. Fields("DISCOVERY_BEACON") = ProfileFields \cup {"availability", "acceptingPlayers"}
  BY <1>1 DEF Fields, ToSet, PartyWritten, WrittenProfile, ProfileFields
<1>3. Writes("JOIN_REQUEST") = PartyWritten["JOIN_REQUEST"]
  BY ListOf, Groups
<1>4. Fields("JOIN_REQUEST") = ProfileFields
  BY <1>3 DEF Fields, ToSet, PartyWritten, WrittenProfile, ProfileFields
<1>5. Writes("JOIN_ACCEPT") = PartyWritten["JOIN_ACCEPT"]
  BY ListOf, Groups
<1>6. Fields("JOIN_ACCEPT") = {"assignedPlayerID", "playerCapacity"}
  BY <1>5 DEF Fields, ToSet, PartyWritten
<1>7. Writes("JOIN_REJECT") = PartyWritten["JOIN_REJECT"]
  BY ListOf, Groups
<1>8. Fields("JOIN_REJECT") = {"rejection"}
  BY <1>7 DEF Fields, ToSet, PartyWritten
<1>9. Writes("PLAYER_JOINED") = PartyWritten["PLAYER_JOINED"]
  BY ListOf, Groups
<1>10. Fields("PLAYER_JOINED") = {"playerID"} \cup ProfileFields
  BY <1>9 DEF Fields, ToSet, PartyWritten, WrittenProfile, ProfileFields
<1>11. Writes("PLAYER_LEFT") = PartyWritten["PLAYER_LEFT"]
  BY ListOf, Groups
<1>12. Fields("PLAYER_LEFT") = {"playerID", "departure"}
  BY <1>11 DEF Fields, ToSet, PartyWritten
<1> QED
  BY <1>2, <1>4, <1>6, <1>8, <1>10, <1>12

LEMMA TravelFields ==
  /\ Fields("TRAVEL_INVITE") = {"activityID", "activityType", "hostPlayerID"}
  /\ Fields("ACTIVITY_PREPARE") = {"activityID", "activityType", "roomID", "snapshotEpoch",
        "participantMask", "roomPlayerMask", "graphChunkCount", "detailChunkCount",
        "worldChunkCount"}
<1>1. Writes("TRAVEL_INVITE") = TravelWritten["TRAVEL_INVITE"]
  BY ListOf, Groups
<1>2. Fields("TRAVEL_INVITE") = {"activityID", "activityType", "hostPlayerID"}
  BY <1>1 DEF Fields, ToSet, TravelWritten
<1>3. Writes("ACTIVITY_PREPARE") = TravelWritten["ACTIVITY_PREPARE"]
  BY ListOf, Groups
<1>4. Fields("ACTIVITY_PREPARE") = {"activityID", "activityType", "roomID", "snapshotEpoch",
        "participantMask", "roomPlayerMask", "graphChunkCount", "detailChunkCount",
        "worldChunkCount"}
  BY <1>3 DEF Fields, ToSet, TravelWritten
<1> QED
  BY <1>2, <1>4

LEMMA TransferFields ==
  /\ Fields("SNAPSHOT_CHUNK") = {"activityID", "snapshotType", "roomID", "snapshotEpoch",
        "chunkIndex", "totalChunks", "payloadLength", "data"}
  /\ Fields("ACK") = {"activityID", "snapshotEpoch", "packetType", "snapshotType", "roomID",
        "itemIndex", "chunkIndex"}
  /\ Fields("ROOM_TRANSITION") = {"activityID", "roomID", "entryDirection", "snapshotEpoch"}
  /\ Fields("PLAYER_ROOM_TRANSITION_REQUEST") = {"activityID", "sourceRoomID", "direction",
        "transitionSequence"}
  /\ Fields("SHARED_GAMEPLAY_MESSAGE") = {"activityID", "messageSequence", "category",
        "textLength", "text"}
<1>1. Writes("SNAPSHOT_CHUNK") = TransferWritten["SNAPSHOT_CHUNK"]
  BY ListOf, Groups
<1>2. Fields("SNAPSHOT_CHUNK") = {"activityID", "snapshotType", "roomID", "snapshotEpoch",
        "chunkIndex", "totalChunks", "payloadLength", "data"}
  BY <1>1 DEF Fields, ToSet, TransferWritten
<1>3. Writes("ACK") = TransferWritten["ACK"]
  BY ListOf, Groups
<1>4. Fields("ACK") = {"activityID", "snapshotEpoch", "packetType", "snapshotType", "roomID",
        "itemIndex", "chunkIndex"}
  BY <1>3 DEF Fields, ToSet, TransferWritten
<1>5. Writes("ROOM_TRANSITION") = TransferWritten["ROOM_TRANSITION"]
  BY ListOf, Groups
<1>6. Fields("ROOM_TRANSITION") = {"activityID", "roomID", "entryDirection", "snapshotEpoch"}
  BY <1>5 DEF Fields, ToSet, TransferWritten
<1>7. Writes("PLAYER_ROOM_TRANSITION_REQUEST") = TransferWritten["PLAYER_ROOM_TRANSITION_REQUEST"]
  BY ListOf, Groups
<1>8. Fields("PLAYER_ROOM_TRANSITION_REQUEST") = {"activityID", "sourceRoomID", "direction",
        "transitionSequence"}
  BY <1>7 DEF Fields, ToSet, TransferWritten
<1>9. Writes("SHARED_GAMEPLAY_MESSAGE") = TransferWritten["SHARED_GAMEPLAY_MESSAGE"]
  BY ListOf, Groups
<1>10. Fields("SHARED_GAMEPLAY_MESSAGE") = {"activityID", "messageSequence", "category",
        "textLength", "text"}
  BY <1>9 DEF Fields, ToSet, TransferWritten
<1> QED
  BY <1>2, <1>4, <1>6, <1>8, <1>10

LEMMA CombatFields ==
  /\ Fields("COMBAT_BEGIN") = {"activityID", "combatID", "eventSequence", "combatantCount",
        "currentTurnIndex", "round", "combatants"}
  /\ Fields("COMBAT_ACTION_REQUEST") = {"activityID", "combatID", "actionSequence", "action",
        "actor", "target", "abilityID", "aimX", "aimY", "direction", "damageType", "flags"}
  /\ Fields("COMBAT_ACK") = {"activityID", "combatID", "eventSequence", "packetType",
        "reserved"}
<1>1. Writes("COMBAT_BEGIN") = CombatWritten["COMBAT_BEGIN"]
  BY ListOf, Groups
<1>2. Fields("COMBAT_BEGIN") = {"activityID", "combatID", "eventSequence", "combatantCount",
        "currentTurnIndex", "round", "combatants"}
  BY <1>1 DEF Fields, ToSet, CombatWritten
<1>3. Writes("COMBAT_ACTION_REQUEST") = CombatWritten["COMBAT_ACTION_REQUEST"]
  BY ListOf, Groups
<1>4. Fields("COMBAT_ACTION_REQUEST") = {"activityID", "combatID", "actionSequence", "action",
        "actor", "target", "abilityID", "aimX", "aimY", "direction", "damageType", "flags"}
  BY <1>3 DEF Fields, ToSet, CombatWritten
<1>5. Writes("COMBAT_ACK") = CombatWritten["COMBAT_ACK"]
  BY ListOf, Groups
<1>6. Fields("COMBAT_ACK") = {"activityID", "combatID", "eventSequence", "packetType",
        "reserved"}
  BY <1>5 DEF Fields, ToSet, CombatWritten
<1> QED
  BY <1>2, <1>4, <1>6

LEMMA MovementFields ==
  /\ Fields("DUNGEON_BEGIN") = {"activityID", "syncMode", "generationVersion", "generationSeed",
        "roomCount", "entranceRoom", "snapshotEpoch"}
  /\ Fields("PLAYER_MOVE_REQUEST") = {"activityID", "direction", "clientMovementSequence"}
  /\ Fields("PLAYER_POSITION") = {"activityID", "playerID", "roomID", "x", "y", "facing",
        "movementSequence"}
  /\ Fields("PLAYER_ROOM_CHANGE") = {"activityID", "playerID", "roomID", "entryDirection", "x",
        "y", "movementSequence"}
  /\ Fields("EXPLORATION_ABILITY_COMMAND") = {"activityID", "actionSequence", "target",
        "abilityID", "aimX", "aimY", "direction", "damageType"}
  /\ Fields("EXPLORATION_ABILITY_RESULT") = {"activityID", "actionSequence", "result"}
<1>1. Writes("DUNGEON_BEGIN") = MovementWritten["DUNGEON_BEGIN"]
  BY ListOf, Groups
<1>2. Fields("DUNGEON_BEGIN") = {"activityID", "syncMode", "generationVersion",
        "generationSeed", "roomCount", "entranceRoom", "snapshotEpoch"}
  BY <1>1 DEF Fields, ToSet, MovementWritten
<1>3. Writes("PLAYER_MOVE_REQUEST") = MovementWritten["PLAYER_MOVE_REQUEST"]
  BY ListOf, Groups
<1>4. Fields("PLAYER_MOVE_REQUEST") = {"activityID", "direction", "clientMovementSequence"}
  BY <1>3 DEF Fields, ToSet, MovementWritten
<1>5. Writes("PLAYER_POSITION") = MovementWritten["PLAYER_POSITION"]
  BY ListOf, Groups
<1>6. Fields("PLAYER_POSITION") = {"activityID", "playerID", "roomID", "x", "y", "facing",
        "movementSequence"}
  BY <1>5 DEF Fields, ToSet, MovementWritten
<1>7. Writes("PLAYER_ROOM_CHANGE") = MovementWritten["PLAYER_ROOM_CHANGE"]
  BY ListOf, Groups
<1>8. Fields("PLAYER_ROOM_CHANGE") = {"activityID", "playerID", "roomID", "entryDirection", "x",
        "y", "movementSequence"}
  BY <1>7 DEF Fields, ToSet, MovementWritten
<1>9. Writes("EXPLORATION_ABILITY_COMMAND") = MovementWritten["EXPLORATION_ABILITY_COMMAND"]
  BY ListOf, Groups
<1>10. Fields("EXPLORATION_ABILITY_COMMAND") = {"activityID", "actionSequence", "target",
        "abilityID", "aimX", "aimY", "direction", "damageType"}
  BY <1>9 DEF Fields, ToSet, MovementWritten
<1>11. Writes("EXPLORATION_ABILITY_RESULT") = MovementWritten["EXPLORATION_ABILITY_RESULT"]
  BY ListOf, Groups
<1>12. Fields("EXPLORATION_ABILITY_RESULT") = {"activityID", "actionSequence", "result"}
  BY <1>11 DEF Fields, ToSet, MovementWritten
<1> QED
  BY <1>2, <1>4, <1>6, <1>8, <1>10, <1>12

LEMMA OtherFields ==
  /\ \A t \in CharacterPackets : Fields(t) = {"activityID"} \cup StateFields
  /\ \A t \in Started : Fields(t) = {"activityID", "snapshotEpoch"}
  /\ \A t \in Members : Fields(t) = {"activityID", "playerID"}
  /\ Fields("PLAYER_SPAWN") = {"activityID", "playerID", "roomID", "x", "y"}
  /\ \A t \in Events : Fields(t) = EventFields
  /\ \A t \in Signals : Fields(t) = {}
<1>1. \A t \in CharacterPackets : Fields(t) = {"activityID"} \cup StateFields
  <2>1. ToSet(<<"activityID">> \o WrittenState) = {"activityID"} \cup StateFields
    BY SMTT(30) DEF ToSet, WrittenState, StateFields
  <2> QED
    BY <2>1, ListOf DEF Fields
<1>2. \A t \in Started : Fields(t) = {"activityID", "snapshotEpoch"}
  <2>1. \A t \in Started : Writes(t) = <<"activityID", "snapshotEpoch">>
    BY ListOf DEF ActivityWritten, Started, Members
  <2>2. ToSet(<<"activityID", "snapshotEpoch">>) = {"activityID", "snapshotEpoch"}
    BY DEF ToSet
  <2> QED
    BY <2>1, <2>2 DEF Fields
<1>3. \A t \in Members : Fields(t) = {"activityID", "playerID"}
  <2>1. \A t \in Members : Writes(t) = <<"activityID", "playerID">>
    BY ListOf DEF ActivityWritten, Started, Members
  <2>2. ToSet(<<"activityID", "playerID">>) = {"activityID", "playerID"}
    BY DEF ToSet
  <2> QED
    BY <2>1, <2>2 DEF Fields
<1>4. Fields("PLAYER_SPAWN") = {"activityID", "playerID", "roomID", "x", "y"}
  <2>1. Writes("PLAYER_SPAWN") = <<"activityID", "playerID", "roomID", "x", "y">>
    BY ListOf DEF ActivityWritten, Started, Members
  <2> QED
    BY <2>1 DEF Fields, ToSet
<1>5. \A t \in Events : Fields(t) = EventFields
  <2>1. ToSet(EventWritten) = EventFields
    BY SMTT(30) DEF ToSet, EventWritten, EventFields
  <2> QED
    BY <2>1, ListOf DEF Fields
<1>6. \A t \in Signals : Fields(t) = {}
  BY ListOf DEF Fields, ToSet
<1> QED
  BY <1>1, <1>2, <1>3, <1>4, <1>5, <1>6

-----------------------------------------------------------------------------
(* What a field of a packet may be *)

LEMMA IntsAreInt == \A n \in Ints : n \in Int
  BY DEF Ints

LEMMA RangeOf ==
  ASSUME NEW f, NEW v, InRange(f, v)
  PROVE  /\ f \in {"activityID", "deviceID"} => v # 0
         /\ f = "combatID" => v # 0
         /\ f = "maxHP" => v \in Int /\ v > 0
         /\ f \in SignedWords => v \in Ints
         /\ f \in SignedBytes => v \in SmallInts
         /\ f \in {"playerID", "assignedPlayerID", "itemIndex"} => v \in PlayerIDs
         /\ f = "characterClass" => v \in 0..3
         /\ f = "knownAbilityCount" => v \in 0..32
         /\ f = "conditionCount" => v \in 0..12
         /\ f \in {"direction", "facing"} => v \in 0..7
         /\ f = "entryDirection" => v \in 0..4
         /\ f = "roomID" => v \in RoomNumbers \cup {NoRoomID}
         /\ f = "sourceRoomID" => v \in RoomNumbers
         /\ f = "acceptingPlayers" => v \in BOOLEAN
         /\ f = "equipment" =>
              v \in [itemID : Bytes, enhancementBonus : SmallInts, weaponProperties : Bytes]
         /\ f = "conditions" => v \in [type : Bytes, value : Ints, roundsRemaining : Ints]
         /\ f \in References => v \in CombatantRefs
         /\ f = "combatants" => v \in Seq([combatant : CombatantRefs, initiative : SmallInts])
<1> USE DEF InRange, SignedWords, Words, SignedBytes, References
<1>1. f \in {"activityID", "deviceID"} => v # 0
  BY SMTT(30)
<1>2. f = "combatID" => v # 0
  BY SMTT(30)
<1>3. f = "maxHP" => v \in Int /\ v > 0
  <2>1. f = "maxHP" => v \in Ints /\ v > 0
    BY SMTT(30)
  <2> QED
    BY <2>1, IntsAreInt, SMT
<1>4. f \in SignedWords => v \in Ints
  BY SMTT(30)
<1>5. f \in SignedBytes => v \in SmallInts
  BY SMTT(30)
<1>6. f \in {"playerID", "assignedPlayerID", "itemIndex"} => v \in PlayerIDs
  BY SMTT(30)
<1>7. f = "characterClass" => v \in 0..3
  BY SMTT(30)
<1>8. f = "knownAbilityCount" => v \in 0..32
  BY SMTT(30)
<1>9. f = "conditionCount" => v \in 0..12
  BY SMTT(30)
<1>10. f \in {"direction", "facing"} => v \in 0..7
  BY SMTT(30)
<1>11. f = "entryDirection" => v \in 0..4
  BY SMTT(30)
<1>12. f = "roomID" => v \in RoomNumbers \cup {NoRoomID}
  BY SMTT(30)
<1>13. f = "sourceRoomID" => v \in RoomNumbers
  BY SMTT(30)
<1>14. f = "acceptingPlayers" => v \in BOOLEAN
  BY SMTT(30)
<1>15. f = "equipment" =>
         v \in [itemID : Bytes, enhancementBonus : SmallInts, weaponProperties : Bytes]
  BY SMTT(30)
<1>16. f = "conditions" => v \in [type : Bytes, value : Ints, roundsRemaining : Ints]
  BY SMTT(30)
<1>17. f \in References => v \in CombatantRefs
  BY SMTT(30)
<1>18. f = "combatants" => v \in Seq([combatant : CombatantRefs, initiative : SmallInts])
  BY SMTT(30)
<1> HIDE DEF InRange, SignedWords, Words, SignedBytes, References
<1> QED
  BY <1>1, <1>2, <1>3, <1>4, <1>5, <1>6, <1>7, <1>8, <1>9, <1>10, <1>11, <1>12, <1>13, <1>14,
     <1>15, <1>16, <1>17, <1>18

\* A negative number is read back as it was.
LEMMA SignKept ==
  /\ \A n \in Ints : Signed(Unsigned(n, Word), Word) = n
  /\ \A n \in SmallInts : Signed(Unsigned(n, Byte), Byte) = n
<1>1. ASSUME NEW half \in Nat, NEW range \in Nat, half + half = range, range \div 2 = half,
             NEW n \in Int, -half <= n, n < half
      PROVE  Signed(Unsigned(n, range), range) = n
  BY <1>1 DEF Signed, Unsigned
<1>2. \A n \in Ints : Signed(Unsigned(n, Word), Word) = n
  <2>1. Word \in Nat /\ 32768 \in Nat
    BY DEF Word
  <2>2. 32768 + 32768 = Word
    BY SMTT(60) DEF Word
  <2>3. Word \div 2 = 32768
    BY SMTT(60) DEF Word
  <2>4. \A n \in Ints : n \in Int
    BY IntsAreInt
  <2>5. \A n \in Ints : -32768 <= n
    BY SMTT(60) DEF Ints
  <2>6. \A n \in Ints : n < 32768
    BY SMTT(60) DEF Ints
  <2> HIDE DEF Word, Ints
  <2> QED
    BY <1>1, <2>1, <2>2, <2>3, <2>4, <2>5, <2>6, SMTT(60)
<1>3. \A n \in SmallInts : Signed(Unsigned(n, Byte), Byte) = n
  BY DEF Signed, Unsigned, SmallInts, Byte
<1> QED
  BY <1>2, <1>3

LEMMA TwoFields ==
  ASSUME NEW a, NEW b, NEW c, NEW x, NEW y, NEW w,
         w = [type |-> a, value |-> b, roundsRemaining |-> c]
  PROVE  [w EXCEPT !.value = x, !.roundsRemaining = y]
           = [type |-> w.type, value |-> x, roundsRemaining |-> y]
<1> DEFINE r == [[type |-> a, value |-> b, roundsRemaining |-> c]
                     EXCEPT !.value = x, !.roundsRemaining = y]
<1>1. r \in [type : {a}, value : {b, x}, roundsRemaining : {c, y}]
  OBVIOUS
<1>2. r.type = a
  OBVIOUS
<1>3. r.value = x
  OBVIOUS
<1>4. r.roundsRemaining = y
  OBVIOUS
<1>5. w.type = a
  OBVIOUS
<1>6. r = [w EXCEPT !.value = x, !.roundsRemaining = y]
  BY Zenon
<1> HIDE DEF r
<1>7. r = [type |-> r.type, value |-> r.value, roundsRemaining |-> r.roundsRemaining]
  BY <1>1
<1>8. r = [type |-> w.type, value |-> x, roundsRemaining |-> y]
  BY <1>2, <1>3, <1>4, <1>5, <1>7, Zenon
<1> QED
  BY <1>6, <1>8

\* What the reader of a field makes of what the writer put there.
Sent(f, v) == IF f \in References /\ v.kind = "NONE" THEN NoCombatant ELSE v

LEMMA RoundTrip ==
  ASSUME NEW f, NEW v, InRange(f, v)
  PROVE  Taken(f, Put(f, v)) = Sent(f, v)
<1> DEFINE Special == SignedWords \cup SignedBytes \cup References \cup
               {"acceptingPlayers", "equipment", "conditions", "combatants"}
<1>1. CASE f \in SignedWords
  <2>1. Put(f, v) = Unsigned(v, Word)
    BY <1>1, SMTT(30) DEF Put, SignedWords, SignedBytes, References
  <2>3. \A w : Taken(f, w) = Signed(w, Word)
    BY <1>1, SMTT(30) DEF Taken, SignedWords, SignedBytes, References
  <2>2. f \notin References
    BY <1>1 DEF SignedWords, References
  <2> QED
    BY <1>1, <2>1, <2>2, <2>3, RangeOf, SignKept DEF Sent
<1>2. CASE f \in SignedBytes
  <2>1. Put(f, v) = Unsigned(v, Byte)
    BY <1>2, SMTT(30) DEF Put, SignedWords, SignedBytes, References
  <2>3. \A w : Taken(f, w) = Signed(w, Byte)
    BY <1>2, SMTT(30) DEF Taken, SignedWords, SignedBytes, References
  <2>2. f \notin References
    BY <1>2 DEF SignedBytes, References
  <2> QED
    BY <1>2, <2>1, <2>2, <2>3, RangeOf, SignKept DEF Sent
<1>3. CASE f \in References
  <2>1. Put(f, v) = Sent(f, v)
    BY <1>3, SMTT(30) DEF Put, Sent, SignedWords, SignedBytes, References
  <2>2. \A w : Taken(f, w) = w
    BY <1>3, SMTT(30) DEF Taken, SignedWords, SignedBytes, References
  <2> QED
    BY <2>1, <2>2
<1>4. CASE f = "acceptingPlayers"
  <2>1. Put(f, v) = (IF v THEN 1 ELSE 0) /\ \A w : Taken(f, w) = (w # 0)
    BY <1>4, SMTT(30) DEF Put, Taken, SignedWords, SignedBytes, References
  <2>2. f \notin References /\ v \in BOOLEAN
    BY <1>4, RangeOf DEF References
  <2> QED
    BY <2>1, <2>2 DEF Sent
<1>5. CASE f = "equipment"
  <2>1. Put(f, v) = [v EXCEPT !.enhancementBonus = Unsigned(v.enhancementBonus, Byte)]
    BY <1>5, SMTT(30) DEF Put, SignedWords, SignedBytes, References
  <2>2. \A w : Taken(f, w) = [w EXCEPT !.enhancementBonus = Signed(w.enhancementBonus, Byte)]
    BY <1>5, SMTT(30) DEF Taken, SignedWords, SignedBytes, References
  <2>3. f \notin References
        /\ v \in [itemID : Bytes, enhancementBonus : SmallInts, weaponProperties : Bytes]
    BY <1>5, RangeOf DEF References
  <2>4. Signed(Unsigned(v.enhancementBonus, Byte), Byte) = v.enhancementBonus
    BY <2>3, SignKept
  <2>5. Taken(f, Put(f, v)) = v
    BY <2>1, <2>2, <2>3, <2>4
  <2> QED
    BY <2>3, <2>5 DEF Sent
<1>6. CASE f = "conditions"
  <2>1. Put(f, v) = [v EXCEPT !.value = Unsigned(v.value, Word),
                              !.roundsRemaining = Unsigned(v.roundsRemaining, Word)]
    BY <1>6, SMTT(30) DEF Put, SignedWords, SignedBytes, References
  <2>2. \A w : Taken(f, w) = [w EXCEPT !.value = Signed(w.value, Word),
                                       !.roundsRemaining = Signed(w.roundsRemaining, Word)]
    BY <1>6, SMTT(30) DEF Taken, SignedWords, SignedBytes, References
  <2>3. f \notin References /\ v \in [type : Bytes, value : Ints, roundsRemaining : Ints]
    BY <1>6, RangeOf DEF References
  <2>4. /\ Signed(Unsigned(v.value, Word), Word) = v.value
        /\ Signed(Unsigned(v.roundsRemaining, Word), Word) = v.roundsRemaining
    BY <2>3, SignKept
  <2>5. Put(f, v) = [type |-> v.type, value |-> Unsigned(v.value, Word),
                     roundsRemaining |-> Unsigned(v.roundsRemaining, Word)]
    <3> HIDE DEF Put
    <3> QED
      BY <2>1, <2>3
  <2>6. Taken(f, Put(f, v)) = [type |-> v.type, value |-> v.value,
                               roundsRemaining |-> v.roundsRemaining]
    <3> DEFINE w == [type |-> v.type, value |-> Unsigned(v.value, Word),
                     roundsRemaining |-> Unsigned(v.roundsRemaining, Word)]
    <3>2. Taken(f, w) = [type |-> w.type, value |-> Signed(w.value, Word),
                         roundsRemaining |-> Signed(w.roundsRemaining, Word)]
      <4> DEFINE a == v.type
                 b == Unsigned(v.value, Word)
                 c == Unsigned(v.roundsRemaining, Word)
                 x == Signed(w.value, Word)
                 y == Signed(w.roundsRemaining, Word)
      <4>1. w = [type |-> a, value |-> b, roundsRemaining |-> c]
        OBVIOUS
      <4>2. Taken(f, w) = [w EXCEPT !.value = x, !.roundsRemaining = y]
        BY <2>2, Zenon
      <4> HIDE DEF w, a, b, c, x, y
      <4>3. Taken(f, w) = [type |-> w.type, value |-> x, roundsRemaining |-> y]
        BY <4>1, <4>2, TwoFields, Zenon
      <4> QED
        BY <4>3 DEF x, y
    <3>3. /\ w.type = v.type /\ w.value = Unsigned(v.value, Word)
          /\ w.roundsRemaining = Unsigned(v.roundsRemaining, Word)
      OBVIOUS
    <3> HIDE DEF w
    <3>4. Taken(f, w) = [type |-> v.type, value |-> v.value, roundsRemaining |-> v.roundsRemaining]
      BY <2>4, <3>2, <3>3
    <3> QED
      BY <2>5, <3>4 DEF w
  <2>7. Taken(f, Put(f, v)) = v
    BY <2>3, <2>6
  <2> QED
    BY <2>3, <2>7 DEF Sent
<1>7. CASE f = "combatants"
  <2> DEFINE Down(c) == [c EXCEPT !.initiative = Unsigned(c.initiative, Byte)]
             Up(c) == [c EXCEPT !.initiative = Signed(c.initiative, Byte)]
             Row == [combatant : CombatantRefs, initiative : SmallInts]
  <2>1. Put(f, v) = [i \in DOMAIN v |-> Down(v[i])]
    BY <1>7, SMTT(30) DEF Put, SignedWords, SignedBytes, References
  <2>2. \A w : Taken(f, w) = [i \in DOMAIN w |-> Up(w[i])]
    BY <1>7, SMTT(30) DEF Taken, SignedWords, SignedBytes, References
  <2>3. f \notin References /\ v \in Seq(Row)
    BY <1>7, RangeOf DEF References
  <2>4. \A c \in Row : Up(Down(c)) = c
    <3>1. SUFFICES ASSUME NEW c \in Row PROVE Up(Down(c)) = c
      OBVIOUS
    <3>2. Signed(Unsigned(c.initiative, Byte), Byte) = c.initiative
      BY SignKept
    <3> QED
      BY <3>2
  <2> HIDE DEF Down, Up, Row
  <2>5. Taken(f, Put(f, v)) = [i \in DOMAIN v |-> Up(Down(v[i]))]
    BY <2>1, <2>2
  <2>6. Taken(f, Put(f, v)) = v
    BY <2>3, <2>4, <2>5
  <2> QED
    BY <2>3, <2>6 DEF Sent
<1>8. CASE f \notin Special
  <2>1. Put(f, v) = v
    BY <1>8, SMTT(30) DEF Put, SignedWords, SignedBytes, References
  <2>2. \A w : Taken(f, w) = w
    BY <1>8, SMTT(30) DEF Taken, SignedWords, SignedBytes, References
  <2> QED
    BY <1>8, <2>1, <2>2 DEF Sent
<1> QED
  BY <1>1, <1>2, <1>3, <1>4, <1>5, <1>6, <1>7, <1>8

-----------------------------------------------------------------------------
(* What is told has the fields of its type, each in its range *)

LEMMA ToldFields ==
  ASSUME NEW t, NEW p, Tells(t, p)
  PROVE  /\ t \in Known /\ DOMAIN p = Fields(t)
         /\ \A f \in Fields(t) : InRange(f, p[f])
<1>1. p = [f \in Fields(t) |-> p[f]]
  BY Zenon DEF Tells
<1>2. DOMAIN [f \in Fields(t) |-> p[f]] = Fields(t)
  OBVIOUS
<1>3. DOMAIN p = Fields(t)
  BY <1>1, <1>2, Zenon
<1> QED
  BY <1>3, Zenon DEF Tells

LEMMA MeantFields ==
  ASSUME NEW t, NEW p, Tells(t, p)
  PROVE  /\ DOMAIN Meant(p) = Fields(t)
         /\ \A f \in Fields(t) : Meant(p)[f] = Sent(f, p[f])
         /\ \A f \in Fields(t) : f \notin References => Meant(p)[f] = p[f]
<1>1. DOMAIN p = Fields(t)
  BY ToldFields
<1>2. DOMAIN Meant(p) = DOMAIN p
  BY DEF Meant
<1>3. \A f \in DOMAIN p : Meant(p)[f] = Sent(f, p[f])
  BY DEF Meant, Sent
<1> QED
  BY <1>1, <1>2, <1>3 DEF Sent

\* A valid combatant is written as it is, and one of no kind as nobody.
LEMMA Combatants ==
  \A f, r : /\ ValidRef(r) => Sent(f, r) = r
            /\ f \in References /\ MayWrite(r) => MayRead(Sent(f, r))
  BY DEF ValidRef, MayWrite, MayRead, Sent

LEMMA ToldIdentified ==
  ASSUME NEW t, NEW p, Tells(t, p)
  PROVE  Identified(p) /\ Identified(Meant(p))
<1>1. /\ "activityID" \in DOMAIN p => p["activityID"] # 0
      /\ "combatID" \in DOMAIN p => p["combatID"] # 0
  BY ToldFields, RangeOf
<1>2. "activityID" \notin References /\ "combatID" \notin References
  BY DEF References
<1>3. DOMAIN Meant(p) = DOMAIN p
  BY ToldFields, MeantFields
<1>4. \A f \in DOMAIN p : f \notin References => Meant(p)[f] = p[f]
  BY ToldFields, MeantFields
<1> HIDE DEF Meant
<1> QED
  BY <1>1, <1>2, <1>3, <1>4 DEF Identified

LEMMA ToldTravel ==
  ASSUME NEW t, NEW p, Tells(t, p)
  PROVE  TravelWritable(t, p) /\ TravelReadable(t, Meant(p))
<1> DEFINE q == Meant(p)
<1>1. TransferTells(t, p)
  BY DEF Tells
<1>2. CASE t = "TRAVEL_INVITE"
  <2>1. Fields(t) = {"activityID", "activityType", "hostPlayerID"}
    BY <1>2, TravelFields
  <2>2. q.activityType = p.activityType /\ q.hostPlayerID = p.hostPlayerID
    BY <2>1, MeantFields DEF References
  <2> HIDE DEF q
  <2>3. p.activityType \in Activities /\ p.hostPlayerID = 0
    BY <1>1, <1>2 DEF TransferTells
  <2> QED
    BY <1>2, <2>2, <2>3 DEF TravelWritable, TravelReadable, CharacterPackets, q
<1>3. CASE t = "ACTIVITY_PREPARE"
  <2>1. Fields(t) = {"activityID", "activityType", "roomID", "snapshotEpoch", "participantMask",
          "roomPlayerMask", "graphChunkCount", "detailChunkCount", "worldChunkCount"}
    BY <1>3, TravelFields
  <2>2. /\ q.activityType = p.activityType /\ q.roomID = p.roomID
        /\ q.participantMask = p.participantMask /\ q.roomPlayerMask = p.roomPlayerMask
        /\ q.graphChunkCount = p.graphChunkCount /\ q.detailChunkCount = p.detailChunkCount
        /\ q.worldChunkCount = p.worldChunkCount
    BY <2>1, MeantFields DEF References
  <2> HIDE DEF q
  <2>3. /\ \/ /\ p.activityType = "FOREST" /\ p.roomID = NoRoomID
              /\ p.graphChunkCount = 0 /\ p.detailChunkCount = 0
           \/ /\ p.activityType = "DUNGEON" /\ p.roomID \in RoomNumbers
              /\ p.graphChunkCount \in 0..MaxChunks /\ p.detailChunkCount \in 1..MaxChunks
        /\ p.worldChunkCount \in 1..MaxChunks
        /\ p.participantMask \subseteq PlayerIDs
        /\ p.roomPlayerMask \subseteq p.participantMask /\ p.roomPlayerMask # {}
    BY <1>1, <1>3 DEF TransferTells
  <2>4. p.activityType \in Activities
    BY <2>3 DEF Activities
  <2>5. p.graphChunkCount <= MaxChunks /\ p.detailChunkCount <= MaxChunks
    BY <2>3 DEF MaxChunks
  <2>6. p.roomID \in IF p.activityType = "FOREST" THEN {NoRoomID} ELSE RoomNumbers
    BY <2>3
  <2>7. TravelWritable(t, p)
    BY <1>3, <2>3, <2>4, <2>5 DEF TravelWritable, CharacterPackets
  <2>8. TravelReadable(t, q)
    BY <1>3, <2>2, <2>3, <2>4, <2>5, <2>6 DEF TravelReadable, CharacterPackets
  <2> QED
    BY <2>7, <2>8 DEF q
<1>4. CASE t \in CharacterPackets
  <2>1. Fields(t) = {"activityID"} \cup StateFields
    BY <1>4, OtherFields
  <2>2. /\ q.playerID = p.playerID /\ q.characterClass = p.characterClass
        /\ q.knownAbilityCount = p.knownAbilityCount /\ q.conditionCount = p.conditionCount
        /\ q.maxHP = p.maxHP
    BY <2>1, MeantFields DEF References, StateFields
  <2>3. /\ InRange("playerID", p.playerID) /\ InRange("characterClass", p.characterClass)
        /\ InRange("knownAbilityCount", p.knownAbilityCount)
        /\ InRange("conditionCount", p.conditionCount) /\ InRange("maxHP", p.maxHP)
    BY <2>1, ToldFields DEF StateFields
  <2> HIDE DEF q
  <2>4. /\ p.playerID \in PlayerIDs /\ p.characterClass \in 0..3 /\ p.knownAbilityCount \in 0..32
        /\ p.conditionCount \in 0..12 /\ p.maxHP \in Int /\ p.maxHP > 0
    BY <2>3, RangeOf, Zenon
  <2>5. p.characterClass < 4 /\ p.knownAbilityCount <= 32 /\ p.conditionCount <= 12
    BY <2>4
  <2>6. t \notin {"TRAVEL_INVITE", "ACTIVITY_PREPARE"}
    BY <1>4 DEF CharacterPackets
  <2> QED
    BY <2>2, <2>4, <2>5, <2>6 DEF TravelWritable, TravelReadable, q
<1>5. CASE t \notin {"TRAVEL_INVITE", "ACTIVITY_PREPARE"} \cup CharacterPackets
  BY <1>5 DEF TravelWritable, TravelReadable
<1> QED
  BY <1>2, <1>3, <1>4, <1>5

LEMMA ToldActivity ==
  ASSUME NEW t, NEW p, Tells(t, p)
  PROVE  ActivityWritable(t, p) /\ ActivityReadable(t, Meant(p))
<1> DEFINE q == Meant(p)
<1>1. ASSUME t \in Members \cup {"PLAYER_SPAWN"}
      PROVE  p.playerID \in PlayerIDs /\ q.playerID = p.playerID
  <2>1. "playerID" \in Fields(t)
    BY <1>1, OtherFields
  <2> QED
    BY <2>1, ToldFields, MeantFields, RangeOf DEF References
<1>2. ASSUME t = "PLAYER_SPAWN"
      PROVE  q.roomID \in RoomNumbers \cup {NoRoomID}
  <2>1. "roomID" \in Fields(t)
    BY <1>2, OtherFields
  <2> QED
    BY <2>1, ToldFields, MeantFields, RangeOf DEF References
<1> HIDE DEF q
<1>3. ActivityWritable(t, p) /\ ActivityReadable(t, q)
  BY <1>1, <1>2 DEF ActivityWritable, ActivityReadable
<1> QED
  BY <1>3 DEF q

LEMMA ToldParty ==
  ASSUME NEW t, NEW p, Tells(t, p)
  PROVE  PartyReadable(t, Meant(p))
<1> DEFINE q == Meant(p)
<1>1. SessionTells(t, p)
  BY DEF Tells
<1>2. \A f \in Fields(t) : InRange(f, p[f]) /\ (f \notin References => q[f] = p[f])
  BY ToldFields, MeantFields
<1>3. ASSUME "deviceID" \in DOMAIN q
      PROVE  q.deviceID # 0 /\ q.characterClass < 4
  <2>1. t \in Known /\ "deviceID" \in Fields(t)
    BY <1>3, MeantFields, ToldFields
  <2>2. t \in {"DISCOVERY_BEACON", "JOIN_REQUEST", "PLAYER_JOINED"}
    <3>1. t \notin Started \cup Members \cup CharacterPackets \cup Events \cup Signals
      BY <2>1, OtherFields, SMTT(30) DEF StateFields, EventFields
    <3> QED
      BY <2>1, <3>1, PartyFields, TravelFields, TransferFields, CombatFields, MovementFields,
         OtherFields, SMTT(60) DEF Known
  <2>3. "characterClass" \in Fields(t)
    BY <2>2, PartyFields DEF ProfileFields
  <2>4. q.deviceID = p.deviceID /\ q.characterClass = p.characterClass
    BY <2>1, <2>3, <1>2 DEF References
  <2>5. p.deviceID # 0 /\ p.characterClass \in 0..3
    BY <2>1, <2>3, <1>2, RangeOf
  <2> HIDE DEF q
  <2> QED
    BY <2>4, <2>5
<1>4. ASSUME t = "DISCOVERY_BEACON"
      PROVE  q.availability \in Availabilities
  <2>1. "availability" \in Fields(t)
    BY <1>4, PartyFields
  <2>2. q.availability = p.availability
    BY <2>1, <1>2 DEF References
  <2> QED
    BY <1>1, <1>4, <2>2 DEF SessionTells
<1>5. ASSUME t = "JOIN_ACCEPT"
      PROVE  q.assignedPlayerID \in PlayerIDs /\ q.playerCapacity = 4
  <2>1. "assignedPlayerID" \in Fields(t) /\ "playerCapacity" \in Fields(t)
    BY <1>5, PartyFields
  <2>2. q.assignedPlayerID = p.assignedPlayerID /\ q.playerCapacity = p.playerCapacity
    BY <2>1, <1>2 DEF References
  <2>3. p.assignedPlayerID \in PlayerIDs
    BY <2>1, <1>2, RangeOf
  <2> QED
    BY <1>1, <1>5, <2>2, <2>3 DEF SessionTells
<1>6. ASSUME t = "JOIN_REJECT"
      PROVE  q.rejection \in Rejections
  <2>1. "rejection" \in Fields(t)
    BY <1>6, PartyFields
  <2>2. q.rejection = p.rejection
    BY <2>1, <1>2 DEF References
  <2> QED
    BY <1>1, <1>6, <2>2 DEF SessionTells, Rejections
<1>7. ASSUME t \in {"PLAYER_JOINED", "PLAYER_LEFT"}
      PROVE  q.playerID \in PlayerIDs
  <2>1. "playerID" \in Fields(t)
    BY <1>7, PartyFields
  <2> QED
    BY <2>1, <1>2, RangeOf DEF References
<1>8. ASSUME t = "PLAYER_LEFT"
      PROVE  q.departure \in Departures
  <2>1. "departure" \in Fields(t)
    BY <1>8, PartyFields
  <2>2. q.departure = p.departure
    BY <2>1, <1>2 DEF References
  <2> QED
    BY <1>1, <1>8, <2>2 DEF SessionTells
<1> HIDE DEF q
<1>9. PartyReadable(t, q)
  BY <1>3, <1>4, <1>5, <1>6, <1>7, <1>8 DEF PartyReadable
<1> QED
  BY <1>9 DEF q

LEMMA ToldTransfer ==
  ASSUME NEW t, NEW p, Tells(t, p)
  PROVE  TransferWritable(t, p) /\ TransferReadable(t, Meant(p))
<1> DEFINE q == Meant(p)
<1>1. TransferTells(t, p) /\ PlayTells(t, p)
  BY DEF Tells
<1>2. \A f \in Fields(t) : InRange(f, p[f]) /\ (f \notin References => q[f] = p[f])
  BY ToldFields, MeantFields
<1>3. CASE t = "SNAPSHOT_CHUNK"
  <2>1. Fields(t) = {"activityID", "snapshotType", "roomID", "snapshotEpoch", "chunkIndex",
          "totalChunks", "payloadLength", "data"}
    BY <1>3, TransferFields
  <2>2. /\ q.snapshotType = p.snapshotType /\ q.roomID = p.roomID
        /\ q.chunkIndex = p.chunkIndex /\ q.totalChunks = p.totalChunks
        /\ q.payloadLength = p.payloadLength
    BY <2>1, <1>2 DEF References
  <2> HIDE DEF q
  <2>3. /\ p.totalChunks \in 1..MaxChunks /\ p.chunkIndex \in 0..(p.totalChunks - 1)
        /\ p.payloadLength \in 1..ChunkData
        /\ \/ p.snapshotType \in {"DUNGEON_GRAPH", "FOREST_STATE"} /\ p.roomID = NoRoomID
           \/ p.snapshotType \in {"DUNGEON_ROOM", "DUNGEON_ROOM_DETAIL"} /\ p.roomID \in RoomNumbers
    BY <1>1, <1>3 DEF TransferTells
  <2>4. p.chunkIndex < p.totalChunks
    BY <2>3 DEF MaxChunks
  <2> QED
    BY <1>3, <2>2, <2>3, <2>4 DEF TransferWritable, TransferReadable, q
<1>4. CASE t = "ACK"
  <2>1. Fields(t) = {"activityID", "snapshotEpoch", "packetType", "snapshotType", "roomID",
          "itemIndex", "chunkIndex"}
    BY <1>4, TransferFields
  <2>2. /\ q.packetType = p.packetType /\ q.snapshotType = p.snapshotType
        /\ q.roomID = p.roomID /\ q.itemIndex = p.itemIndex /\ q.chunkIndex = p.chunkIndex
    BY <2>1, <1>2 DEF References
  <2>3. p.roomID \in RoomNumbers \cup {NoRoomID} /\ p.itemIndex \in PlayerIDs
    BY <2>1, <1>2, RangeOf
  <2> HIDE DEF q
  <2>4. /\ p.packetType \in Reliable /\ p.snapshotType \in Snapshots
        /\ p.chunkIndex \in 0..(MaxChunks - 1)
    BY <1>1, <1>4 DEF TransferTells
  <2>5. p.chunkIndex < MaxChunks
    BY <2>4 DEF MaxChunks
  <2> QED
    BY <1>4, <2>2, <2>3, <2>4, <2>5 DEF TransferWritable, TransferReadable, q
<1>5. CASE t = "ROOM_TRANSITION"
  <2>1. Fields(t) = {"activityID", "roomID", "entryDirection", "snapshotEpoch"}
    BY <1>5, TransferFields
  <2>2. q.roomID = p.roomID /\ q.entryDirection = p.entryDirection
    BY <2>1, <1>2 DEF References
  <2>3. p.entryDirection \in 0..4
    BY <2>1, <1>2, RangeOf
  <2> HIDE DEF q
  <2>4. p.roomID \in RoomNumbers /\ p.roomID # NoRoomID
    BY <1>1, <1>5 DEF TransferTells, RoomNumbers, MaxRooms, NoRoomID
  <2>5. p.entryDirection <= 4
    BY <2>3
  <2> QED
    BY <1>5, <2>2, <2>4, <2>5 DEF TransferWritable, TransferReadable, q
<1>6. CASE t = "PLAYER_ROOM_TRANSITION_REQUEST"
  <2>1. Fields(t) = {"activityID", "sourceRoomID", "direction", "transitionSequence"}
    BY <1>6, TransferFields
  <2>2. q.sourceRoomID = p.sourceRoomID /\ q.direction = p.direction
    BY <2>1, <1>2 DEF References
  <2>3. p.sourceRoomID \in RoomNumbers /\ p.direction \in 0..7
    BY <2>1, <1>2, RangeOf
  <2> HIDE DEF q
  <2>4. p.direction < 8
    BY <2>3
  <2> QED
    BY <1>6, <2>2, <2>3, <2>4 DEF TransferWritable, TransferReadable, q
<1>7. CASE t = "SHARED_GAMEPLAY_MESSAGE"
  <2>1. Fields(t) = {"activityID", "messageSequence", "category", "textLength", "text"}
    BY <1>7, TransferFields
  <2>2. q.category = p.category /\ q.textLength = p.textLength
    BY <2>1, <1>2 DEF References
  <2> HIDE DEF q
  <2>3. /\ p.category \in Categories
        /\ p.textLength \in 1..(TextSize - 1) /\ p.text.length = p.textLength
    BY <1>1, <1>7 DEF PlayTells
  <2>4. p.text.length <= p.textLength
    BY <2>3 DEF TextSize
  <2> QED
    BY <1>7, <2>2, <2>3, <2>4 DEF TransferWritable, TransferReadable, q
<1>8. CASE t \notin {"SNAPSHOT_CHUNK", "ACK", "ROOM_TRANSITION",
                     "PLAYER_ROOM_TRANSITION_REQUEST", "SHARED_GAMEPLAY_MESSAGE"}
  BY <1>8 DEF TransferWritable, TransferReadable
<1> QED
  BY <1>3, <1>4, <1>5, <1>6, <1>7, <1>8

LEMMA ToldCombat ==
  ASSUME NEW t, NEW p, Tells(t, p)
  PROVE  CombatWritable(t, p) /\ CombatReadable(t, Meant(p))
<1> DEFINE q == Meant(p)
<1>1. CombatTells(t, p)
  BY DEF Tells
<1>2. \A f \in Fields(t) : InRange(f, p[f]) /\ q[f] = Sent(f, p[f])
                            /\ (f \notin References => q[f] = p[f])
  BY ToldFields, MeantFields
<1>3. CASE t = "COMBAT_BEGIN"
  <2>1. Fields(t) = {"activityID", "combatID", "eventSequence", "combatantCount",
          "currentTurnIndex", "round", "combatants"}
    BY <1>3, CombatFields
  <2>2. /\ q.combatantCount = p.combatantCount /\ q.currentTurnIndex = p.currentTurnIndex
        /\ q.combatants = p.combatants
    BY <2>1, <1>2 DEF References
  <2> HIDE DEF q
  <2>3. /\ p.combatantCount \in 1..MaxCombatants
        /\ p.currentTurnIndex \in 0..(p.combatantCount - 1)
        /\ \A i \in 1..p.combatantCount : ValidRef(p.combatants[i].combatant)
    BY <1>1, <1>3 DEF CombatTells
  <2>4. p.currentTurnIndex < p.combatantCount
    BY <2>3 DEF MaxCombatants
  <2> QED
    BY <1>3, <2>2, <2>3, <2>4 DEF CombatWritable, CombatReadable, q
<1>4. CASE t = "COMBAT_ACTION_REQUEST"
  <2>1. Fields(t) = {"activityID", "combatID", "actionSequence", "action", "actor", "target",
          "abilityID", "aimX", "aimY", "direction", "damageType", "flags"}
    BY <1>4, CombatFields
  <2>2. /\ q.action = p.action /\ q.direction = p.direction
        /\ q.actor = Sent("actor", p.actor) /\ q.target = Sent("target", p.target)
    BY <2>1, <1>2 DEF References
  <2>3. p.direction \in 0..7
    BY <2>1, <1>2, RangeOf
  <2> HIDE DEF q
  <2>4. p.action \in ActionTypes /\ ValidRef(p.actor) /\ MayWrite(p.target)
    BY <1>1, <1>4 DEF CombatTells, Events
  <2>5. q.actor = p.actor /\ MayRead(q.target)
    BY <2>2, <2>4, Combatants DEF References
  <2>6. p.direction < 8
    BY <2>3
  <2> QED
    BY <1>4, <2>2, <2>4, <2>5, <2>6 DEF CombatWritable, CombatReadable, q
<1>5. CASE t = "COMBAT_ACK"
  <2>1. Fields(t) = {"activityID", "combatID", "eventSequence", "packetType", "reserved"}
    BY <1>5, CombatFields
  <2>2. q.packetType = p.packetType
    BY <2>1, <1>2 DEF References
  <2>3. p.packetType \in ReliableCombat
    BY <1>1, <1>5 DEF CombatTells
  <2> HIDE DEF q
  <2> QED
    BY <1>5, <2>2, <2>3 DEF CombatWritable, CombatReadable, q
<1>6. CASE t \notin {"COMBAT_BEGIN", "COMBAT_ACTION_REQUEST", "COMBAT_ACK"}
  BY <1>6 DEF CombatWritable, CombatReadable
<1> QED
  BY <1>3, <1>4, <1>5, <1>6

LEMMA ToldEvents ==
  ASSUME NEW t, NEW p, Tells(t, p), t \in Events
  PROVE  EventWritable(p) /\ EventReadable(Meant(p))
<1> DEFINE q == Meant(p)
<1>1. Fields(t) = EventFields
  BY OtherFields
<1>2. /\ q.eventType = p.eventType /\ q.textLength = p.textLength
      /\ q.actionFlags = p.actionFlags
      /\ q.actor = Sent("actor", p.actor) /\ q.target = Sent("target", p.target)
  BY <1>1, MeantFields DEF References, EventFields
<1> HIDE DEF q
<1>3. /\ p.eventType \in EventTypes /\ p.actionFlags \subseteq ActionFlags
      /\ p.textLength \in 0..(TextSize - 1) /\ p.text.length = p.textLength
      /\ MayWrite(p.actor) /\ MayWrite(p.target)
  BY DEF Tells, CombatTells
<1>4. p.textLength < TextSize /\ p.text.length <= p.textLength
  BY <1>3 DEF TextSize
<1>5. MayRead(q.actor) /\ MayRead(q.target)
  BY <1>2, <1>3, Combatants DEF References
<1> QED
  BY <1>2, <1>3, <1>4, <1>5 DEF EventWritable, EventReadable, q

LEMMA ToldMovement ==
  ASSUME NEW t, NEW p, Tells(t, p)
  PROVE  MovementWritable(t, p) /\ MovementReadable(t, Meant(p))
<1> DEFINE q == Meant(p)
<1>1. TransferTells(t, p) /\ PlayTells(t, p)
  BY DEF Tells
<1>2. \A f \in Fields(t) : InRange(f, p[f]) /\ q[f] = Sent(f, p[f])
                            /\ (f \notin References => q[f] = p[f])
  BY ToldFields, MeantFields
<1>3. CASE t = "DUNGEON_BEGIN"
  <2>1. /\ q.roomCount = p.roomCount /\ q.entranceRoom = p.entranceRoom
        /\ q.syncMode = p.syncMode
    BY <1>2, <1>3, MovementFields DEF References
  <2> HIDE DEF q
  <2>2. /\ p.syncMode = "AUTHORITATIVE_GRAPH_AND_ROOM_STATE"
        /\ p.roomCount \in 7..MaxRooms /\ p.entranceRoom \in 0..(p.roomCount - 1)
    BY <1>1, <1>3 DEF TransferTells
  <2>3. p.entranceRoom < p.roomCount
    BY <2>2 DEF MaxRooms
  <2> QED
    BY <1>3, <2>1, <2>2, <2>3 DEF MovementWritable, MovementReadable, q
<1>4. CASE t = "PLAYER_MOVE_REQUEST"
  <2>1. "direction" \in Fields(t)
    BY <1>4, MovementFields
  <2>2. q.direction = p.direction /\ p.direction \in 0..7
    BY <2>1, <1>2, RangeOf DEF References
  <2> HIDE DEF q
  <2>3. q.direction < 8
    BY <2>2
  <2> QED
    BY <1>4, <2>3 DEF MovementWritable, MovementReadable, q
<1>5. CASE t = "PLAYER_POSITION"
  <2>1. "playerID" \in Fields(t) /\ "roomID" \in Fields(t) /\ "facing" \in Fields(t)
    BY <1>5, MovementFields
  <2>2. q.playerID = p.playerID /\ q.roomID = p.roomID /\ q.facing = p.facing
    BY <2>1, <1>2 DEF References
  <2>3. p.playerID \in PlayerIDs /\ p.roomID \in RoomNumbers \cup {NoRoomID} /\ p.facing \in 0..7
    BY <2>1, <1>2, RangeOf
  <2> HIDE DEF q
  <2>4. p.facing < 8
    BY <2>3
  <2> QED
    BY <1>5, <2>2, <2>3, <2>4 DEF MovementWritable, MovementReadable, q
<1>6. CASE t = "PLAYER_ROOM_CHANGE"
  <2>1. "playerID" \in Fields(t) /\ "roomID" \in Fields(t) /\ "entryDirection" \in Fields(t)
    BY <1>6, MovementFields
  <2>2. q.playerID = p.playerID /\ q.roomID = p.roomID /\ q.entryDirection = p.entryDirection
    BY <2>1, <1>2 DEF References
  <2>3. p.playerID \in PlayerIDs /\ p.entryDirection \in 0..4
    BY <2>1, <1>2, RangeOf
  <2> HIDE DEF q
  <2>4. p.entryDirection < 8
    BY <2>3
  <2>5. p.roomID \in RoomNumbers
    BY <1>1, <1>6 DEF PlayTells
  <2> QED
    BY <1>6, <2>2, <2>3, <2>4, <2>5 DEF MovementWritable, MovementReadable, q
<1>7. CASE t = "EXPLORATION_ABILITY_COMMAND"
  <2>1. "abilityID" \in Fields(t) /\ "direction" \in Fields(t) /\ "target" \in Fields(t)
    BY <1>7, MovementFields
  <2>2. /\ q.abilityID = p.abilityID /\ q.direction = p.direction
        /\ q.target = Sent("target", p.target)
    BY <2>1, <1>2 DEF References
  <2>3. p.direction \in 0..7
    BY <2>1, <1>2, RangeOf
  <2> HIDE DEF q
  <2>4. p.direction < 8
    BY <2>3
  <2>5. p.abilityID # 0 /\ MayWrite(p.target)
    BY <1>1, <1>7 DEF PlayTells
  <2>6. MayRead(q.target)
    BY <2>2, <2>5, Combatants DEF References
  <2> QED
    BY <1>7, <2>2, <2>4, <2>5, <2>6 DEF MovementWritable, MovementReadable, q
<1>8. CASE t \notin {"DUNGEON_BEGIN", "PLAYER_MOVE_REQUEST", "PLAYER_POSITION",
                     "PLAYER_ROOM_CHANGE", "EXPLORATION_ABILITY_COMMAND"}
  BY <1>8 DEF MovementWritable, MovementReadable
<1> QED
  BY <1>3, <1>4, <1>5, <1>6, <1>7, <1>8

\* The sender has room for what it tells.
LEMMA ToldFits ==
  ASSUME NEW t, NEW p, Tells(t, p)
  PROVE  PayloadSize(t, p) <= BufferSize(t) /\ PayloadSize(t, p) <= MaxPayload
<1>1. TransferTells(t, p) /\ PlayTells(t, p) /\ CombatTells(t, p) /\ t \in Known
  BY DEF Tells
<1> DEFINE Counted == Events \cup {"SNAPSHOT_CHUNK", "SHARED_GAMEPLAY_MESSAGE", "COMBAT_BEGIN"}
<1>2. t \in Counted => BufferSize(t) = MaxPayload
  BY SMTT(30) DEF BufferSize, Events, Members
<1>3. CASE t \in Events
  <2>1. PayloadSize(t, p) = 35 + p.textLength
    BY <1>3, SMTT(30) DEF PayloadSize, Events, CharacterPackets, Started, Members
  <2>2. p.textLength \in 0..(TextSize - 1)
    BY <1>1, <1>3 DEF CombatTells
  <2>3. 35 + p.textLength <= MaxPayload
    BY <2>2 DEF TextSize, MaxPayload
  <2> QED
    BY <1>2, <1>3, <2>1, <2>3
<1>4. CASE t = "SNAPSHOT_CHUNK"
  <2>1. PayloadSize(t, p) = 11 + p.payloadLength
    BY <1>4, SMTT(30) DEF PayloadSize, Events, CharacterPackets, Started, Members
  <2>2. p.payloadLength \in 1..ChunkData
    BY <1>1, <1>4 DEF TransferTells
  <2>3. 11 + p.payloadLength <= MaxPayload
    BY <2>2 DEF ChunkData, MaxPayload
  <2> QED
    BY <1>2, <1>4, <2>1, <2>3
<1>5. CASE t = "SHARED_GAMEPLAY_MESSAGE"
  <2>1. PayloadSize(t, p) = 8 + p.textLength
    BY <1>5, SMTT(30) DEF PayloadSize, Events, CharacterPackets, Started, Members
  <2>2. p.textLength \in 1..(TextSize - 1)
    BY <1>1, <1>5 DEF PlayTells
  <2>3. 8 + p.textLength <= MaxPayload
    BY <2>2 DEF TextSize, MaxPayload
  <2> QED
    BY <1>2, <1>5, <2>1, <2>3
<1>6. CASE t = "COMBAT_BEGIN"
  <2>1. PayloadSize(t, p) = 12 + 5 * p.combatantCount
    BY <1>6, SMTT(30) DEF PayloadSize, Events, CharacterPackets, Started, Members
  <2>2. p.combatantCount \in 1..MaxCombatants
    BY <1>1, <1>6 DEF CombatTells
  <2>3. 12 + 5 * p.combatantCount <= MaxPayload
    BY <2>2 DEF MaxCombatants, MaxPayload
  <2> QED
    BY <1>2, <1>6, <2>1, <2>3
<1>7. CASE t \in CharacterPackets \cup Started
  <2>1. PayloadSize(t, p) \in {4 + 177, 6}
    BY <1>7, SMTT(30) DEF PayloadSize, Events, CharacterPackets, Started, Members
  <2>2. BufferSize(t) \in {16, MaxPayload}
    BY <1>7, SMTT(30) DEF BufferSize, CharacterPackets, Started, Members
  <2>3. t \in CharacterPackets => BufferSize(t) = MaxPayload
    BY SMTT(30) DEF BufferSize, CharacterPackets, Members
  <2>4. t \in Started => PayloadSize(t, p) = 6
    BY SMTT(30) DEF PayloadSize, Events, CharacterPackets, Started, Members
  <2> QED
    BY <1>7, <2>1, <2>2, <2>3, <2>4 DEF MaxPayload
<1>8. CASE t \notin Counted \cup CharacterPackets \cup Started
  <2>1. PayloadSize(t, p) <= BufferSize(t)
    BY <1>1, <1>8, SMTT(60) DEF PayloadSize, BufferSize, MaxPayload, Known, Events, CharacterPackets,
       Started, Members, Signals
  <2>2. PayloadSize(t, p) <= MaxPayload
    BY <1>1, <1>8, SMTT(60) DEF PayloadSize, MaxPayload, Known, Events, CharacterPackets,
       Started, Members, Signals
  <2> QED
    BY <2>1, <2>2
<1> QED
  BY <1>3, <1>4, <1>5, <1>6, <1>7, <1>8

LEMMA WritableIfTold ==
  ASSUME NEW t, NEW p, Tells(t, p)
  PROVE  Writable(t, p)
  BY ToldFields, ToldIdentified, ToldTravel, ToldActivity, ToldTransfer, ToldCombat, ToldEvents,
     ToldMovement, ToldFits, Zenon DEF Writable

LEMMA ReadableIfTold ==
  ASSUME NEW t, NEW p, Tells(t, p)
  PROVE  Readable(t, Meant(p))
  BY ToldIdentified, ToldParty, ToldTravel, ToldActivity, ToldTransfer, ToldCombat, ToldEvents,
     ToldMovement, Zenon DEF Readable

-----------------------------------------------------------------------------
(* What arrives is what was meant *)

\* A field of no fixed width comes with the field that counts it.
LEMMA Counts ==
  ASSUME NEW t \in Known
  PROVE  /\ "combatants" \in Fields(t) => "combatantCount" \in Fields(t)
         /\ "text" \in Fields(t) => "textLength" \in Fields(t)
         /\ "data" \in Fields(t) => "payloadLength" \in Fields(t)
<1>1. CASE t \in CharacterPackets
  BY <1>1, OtherFields DEF StateFields
<1>2. CASE t \in Events
  BY <1>2, OtherFields DEF EventFields
<1>3. CASE t \in Started \cup Members \cup Signals \cup {"PLAYER_SPAWN"}
  BY <1>3, OtherFields
<1>4. CASE t \in DOMAIN PartyWritten
  BY <1>4, Groups, PartyFields DEF ProfileFields
<1>5. CASE t \in DOMAIN TravelWritten
  BY <1>5, Groups, TravelFields
<1>6. CASE t \in DOMAIN TransferWritten
  BY <1>6, Groups, TransferFields
<1>7. CASE t \in DOMAIN CombatWritten
  BY <1>7, Groups, CombatFields
<1>8. CASE t \in DOMAIN MovementWritten
  BY <1>8, Groups, MovementFields
<1> QED
  BY <1>1, <1>2, <1>3, <1>4, <1>5, <1>6, <1>7, <1>8, Groups DEF Known

LEMMA SameWidth ==
  ASSUME NEW t, NEW p, Tells(t, p), NEW f \in Fields(t)
  PROVE  WidthOf(f, Meant(p)) = WidthOf(f, p)
<1> DEFINE q == Meant(p)
<1>1. t \in Known
  BY ToldFields
<1>2. \A g \in {"combatantCount", "textLength", "payloadLength"} \cap Fields(t) : q[g] = p[g]
  BY MeantFields DEF References
<1> HIDE DEF q
<1>3. CASE f = "combatants"
  <2>1. \A r : WidthOf(f, r) = 5 * r["combatantCount"]
    BY <1>3, SMTT(30) DEF WidthOf, Longs, Words, SignedWords, References
  <2>2. q["combatantCount"] = p["combatantCount"]
    BY <1>1, <1>2, <1>3, Counts
  <2> QED
    BY <2>1, <2>2 DEF q
<1>4. CASE f = "text"
  <2>1. \A r : WidthOf(f, r) = r["textLength"]
    BY <1>4, SMTT(30) DEF WidthOf, Longs, Words, SignedWords, References
  <2>2. q["textLength"] = p["textLength"]
    BY <1>1, <1>2, <1>4, Counts
  <2> QED
    BY <2>1, <2>2 DEF q
<1>5. CASE f = "data"
  <2>1. \A r : WidthOf(f, r) = r["payloadLength"]
    BY <1>5, SMTT(30) DEF WidthOf, Longs, Words, SignedWords, References
  <2>2. q["payloadLength"] = p["payloadLength"]
    BY <1>1, <1>2, <1>5, Counts
  <2> QED
    BY <2>1, <2>2 DEF q
<1>6. CASE f \notin {"combatants", "text", "data"}
  <2>1. \A r, s : WidthOf(f, r) = WidthOf(f, s)
    BY <1>6, SMTT(30) DEF WidthOf, Longs, Words, SignedWords, References
  <2> QED
    BY <2>1
<1> QED
  BY <1>3, <1>4, <1>5, <1>6

LEMMA DecodedAsMeant ==
  ASSUME NEW m, Tells(m.type, m.of)
  PROVE  Decoded(m.type, Frame(m).cells) = [packet |-> m.type, of |-> Meant(m.of)]
<1> DEFINE t == m.type
           p == m.of
           names == Reads(t)
           cells == [i \in DOMAIN Writes(t) |-> Cell(Writes(t)[i], p)]
           q == [f \in ToSet(names) |-> Field(names, cells, f)]
<1>1. Frame(m).cells = cells
  BY DEF Frame
<1>2. names = Writes(t) /\ ToSet(names) = Fields(t)
  BY SameOrder DEF Fields
<1>3. ASSUME NEW f \in Fields(t)
      PROVE  Field(names, cells, f) = Meant(p)[f]
  <2> DEFINE i == CHOOSE j \in DOMAIN names : names[j] = f
  <2>1. i \in DOMAIN names /\ names[i] = f
    BY <1>2, <1>3 DEF Fields, ToSet
  <2>2. cells[i].value = Put(f, p[f])
    BY <1>2, <2>1 DEF Cell
  <2>3. Field(names, cells, f) = Taken(f, cells[i].value)
    BY DEF Field
  <2>4. Taken(f, Put(f, p[f])) = Sent(f, p[f])
    BY ToldFields, RoundTrip
  <2> HIDE DEF i, cells, names
  <2> QED
    BY <2>2, <2>3, <2>4, MeantFields
<1>4. q = Meant(p)
  BY <1>2, <1>3, MeantFields DEF Meant
<1>5. DOMAIN cells = DOMAIN names
  BY <1>2
<1>6. \A i \in DOMAIN names : cells[i].width = WidthOf(names[i], q)
  <2> SUFFICES ASSUME NEW i \in DOMAIN names
               PROVE  cells[i].width = WidthOf(names[i], Meant(p))
    BY <1>4
  <2>1. cells[i].width = WidthOf(names[i], p)
    BY <1>2 DEF Cell
  <2>2. names[i] \in Fields(t)
    BY <1>2 DEF ToSet
  <2> HIDE DEF cells, names, p, t
  <2> QED
    BY <2>1, <2>2, SameWidth DEF p, t
<1>7. Readable(t, q)
  BY <1>4, ReadableIfTold
<1>8. Decoded(t, cells) = [packet |-> t, of |-> q]
  <2> HIDE DEF cells, q
  <2>1. Decoded(t, cells)
          = IF /\ DOMAIN cells = DOMAIN names
               /\ \A i \in DOMAIN names : cells[i].width = WidthOf(names[i], q)
               /\ Readable(t, q)
            THEN [packet |-> t, of |-> q] ELSE Refused
    BY Zenon DEF Decoded, q
  <2> QED
    BY <1>5, <1>6, <1>7, <2>1
<1> HIDE DEF cells, q
<1> QED
  BY <1>1, <1>4, <1>8

-----------------------------------------------------------------------------
(* From one handheld to another *)

\* What the receiver makes of the message of the sender.
Understood(m) ==
    IF m.version = ProtocolVersion THEN [packet |-> m.type, of |-> Meant(m.of)] ELSE Refused

\* On the air is the message of the sender, and what was taken of it is what was meant.
PacketInv ==
    /\ said \in Messages
    /\ air \in {Nothing, Frame(said)}
    /\ told \in {Nothing, Understood(said)}

LEMMA InitPackets == PacketInit => PacketInv
  BY DEF PacketInit, PacketInv

LEMMA Framed ==
  ASSUME NEW m \in Messages
  PROVE  /\ Tells(m.type, m.of) /\ Writable(m.type, m.of)
         /\ Frame(m).packet = m.type /\ Frame(m).version = m.version
         /\ Frame(m).size <= MaxPayload
         /\ Frame(m).packet \in Known
<1>1. Tells(m.type, m.of)
  BY MessagesAssumption
<1>2. Frame(m).size = PayloadSize(m.type, m.of) /\ Frame(m).packet = m.type
      /\ Frame(m).version = m.version
  BY DEF Frame
<1> QED
  BY <1>1, <1>2, WritableIfTold, ToldFits, ToldFields

LEMMA NotPackets == Nothing.packet \notin Known /\ Refused.packet \notin Known
  BY DEF Nothing, Refused, Known, Started, Members, CharacterPackets, Events, Signals

LEMMA NextPackets == PacketInv /\ [PacketNext]_packetVars => PacketInv'
<1> SUFFICES ASSUME PacketInv, [PacketNext]_packetVars
             PROVE  PacketInv'
  OBVIOUS
<1>1. said \in Messages
  BY DEF PacketInv
<1>2. CASE Transmit
  <2>1. Writable(said.type, said.of)
    BY <1>1, Framed
  <2>2. air' = Frame(said) /\ UNCHANGED <<said, told>>
    BY <1>2, <2>1 DEF Transmit
  <2> QED
    BY <2>2 DEF PacketInv
<1>3. CASE Receive
  <2>1. air = Frame(said)
    BY <1>3, NotPackets DEF Receive, PacketInv
  <2>2. air.size <= MaxPayload /\ air.version = said.version /\ air.packet = said.type
    BY <1>1, <2>1, Framed
  <2>3. Decoded(air.packet, air.cells) = [packet |-> said.type, of |-> Meant(said.of)]
    BY <1>1, <2>1, <2>2, Framed, DecodedAsMeant
  <2>4. told' = Understood(said) /\ UNCHANGED <<said, air>>
    BY <1>3, <2>2, <2>3 DEF Receive, Understood
  <2> QED
    BY <2>4 DEF PacketInv
<1>4. CASE UNCHANGED packetVars
  BY <1>4 DEF PacketInv, packetVars
<1> QED
  BY <1>2, <1>3, <1>4 DEF PacketNext

LEMMA PacketsInvariant == PacketSpec => []PacketInv
  BY InitPackets, NextPackets, PTL DEF PacketSpec

\* Whatever a handheld tells, a handheld of its version takes as it was meant: no field is
\* refused by the encoder or the decoder (encodePacket, decodePacket and the encoders and
\* decoders of the payloads), read at another width, or lost its sign.
THEOREM PeersUnderstandEachOther == PacketSpec => []PeersUnderstand
<1>1. PacketInv => PeersUnderstand
  <2> SUFFICES ASSUME PacketInv
               PROVE  PeersUnderstand
    OBVIOUS
  <2>1. Frame(said).packet \in Known
    BY Framed DEF PacketInv
  <2>2. air # Refused
    BY <2>1, NotPackets DEF PacketInv, Nothing, Refused
  <2> QED
    BY <2>2 DEF PacketInv, PeersUnderstand, Understood
<1> QED
  BY <1>1, PacketsInvariant, PTL

=============================================================================
