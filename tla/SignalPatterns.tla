--------------------------- MODULE SignalPatterns ---------------------------
(***************************************************************************)
(* The Roger and call signals of the Windows client: the user's own        *)
(* patterns, the pattern selected of each kind, the engine's copy of both, *)
(* the settings dialog that changes them, and the two files they live in.  *)
(*                                                                         *)
(* A handler of the frame changes memory at once and leaves in todo what   *)
(* it does next, in its order: open a file, which truncates it, write it,  *)
(* tell the engine.  The program may end between any two of these.         *)
(***************************************************************************)
EXTENDS Naturals, Sequences

CONSTANTS
    PatternId,  \* the ids NewCustomPatternId makes: a tick count since boot,
                \* so that an id may come again
    Name,       \* what a user calls a pattern
    MaxCustom   \* bound: how many patterns of each kind

Kind == {"roger", "call"}

ASSUME PatternsAssumption == MaxCustom \in [Kind -> Nat]

File    == {"patterns", "audio"}
Pattern == [id : PatternId, name : Name]

BuiltIn == [roger |-> <<"none", "variant_1">>, call |-> <<"call_variant_1">>]
Front   == [k \in Kind |-> BuiltIn[k][1]]
IsBuiltInPatternId(k, id) == \E i \in DOMAIN BuiltIn[k] : BuiltIn[k][i] = id

\* The selection of a client that never saved one.
Unset == [roger |-> "variant_1", call |-> "call_variant_1"]

VARIABLES
    custom,   \* customRogerPatterns_, customCallPatterns_
    selected, \* selectedRogerPatternId_, selectedCallPatternId_
    engine,   \* what AudioEngine was told of both
    dialog,   \* the settings dialog: "open" or "closed"
    choice,   \* its two choice controls
    file,     \* custom_signal_patterns.json and config.json
    todo,     \* what the running handler still has to do
    spoiled   \* history: patterns were read from a torn file, or a save failed

patternVars == <<custom, selected, engine, dialog, choice, file, todo, spoiled>>

NoPatterns == [k \in Kind |-> <<>>]

Ids(list) == {list[i].id : i \in DOMAIN list}

PatternsTypeOK ==
    /\ \A k \in Kind :
         /\ custom[k] \in Seq(Pattern) /\ Len(custom[k]) =< MaxCustom[k]
         /\ engine.custom[k] \in Seq(Pattern)
         /\ selected[k] \in PatternId \/ IsBuiltInPatternId(k, selected[k])
         /\ choice[k] \in PatternId \/ IsBuiltInPatternId(k, choice[k])
    /\ dialog \in {"open", "closed"}
    /\ \A f \in File : file[f].state \in {"absent", "torn", "whole"}
    /\ spoiled \in BOOLEAN

PatternsInit ==
    /\ custom = NoPatterns /\ selected = Unset
    /\ engine = [custom |-> NoPatterns, selected |-> Unset]
    /\ dialog = "closed" /\ choice = Unset
    /\ file = [patterns |-> [state |-> "absent", data |-> NoPatterns],
               audio    |-> [state |-> "absent", data |-> Unset]]
    /\ todo = <<>> /\ spoiled = FALSE

-----------------------------------------------------------------------------
(* What a handler does after it changed memory.                            *)

SaveAudioSettings            == <<"open audio", "write audio">>
SaveCustomSignalPatterns     == <<"open patterns", "write patterns">>
ApplyCustomPatternsToEngine  == <<"apply">>
SetPatternId == [roger |-> <<"set roger">>, call |-> <<"set call">>]

Opens(f)  == IF f = "audio" THEN "open audio" ELSE "open patterns"
Writes(f) == IF f = "audio" THEN "write audio" ELSE "write patterns"

Due(effect) == todo # <<>> /\ Head(todo) = effect /\ todo' = Tail(todo)

Applied ==
    /\ Due("apply")
    /\ engine' = [engine EXCEPT !.custom = custom]
    /\ UNCHANGED <<custom, selected, dialog, choice, file, spoiled>>

IdSet(k) ==
    /\ Due(SetPatternId[k][1])
    /\ engine' = [engine EXCEPT !.selected[k] = selected[k]]
    /\ UNCHANGED <<custom, selected, dialog, choice, file, spoiled>>

Truncated(f) ==
    /\ Due(Opens(f))
    /\ file' = [file EXCEPT ![f].state = "torn"]
    /\ UNCHANGED <<custom, selected, engine, dialog, choice, spoiled>>

\* The stream did not open: the save is left out, and nobody is told.
NotOpened(f) ==
    /\ todo # <<>> /\ Head(todo) = Opens(f)
    /\ todo' = Tail(Tail(todo))
    /\ spoiled' = TRUE
    /\ UNCHANGED <<custom, selected, engine, dialog, choice, file>>

Written(f) ==
    /\ Due(Writes(f))
    /\ file' = [file EXCEPT ![f] =
                    [state |-> "whole",
                     data  |-> IF f = "audio" THEN selected ELSE custom]]
    /\ UNCHANGED <<custom, selected, engine, dialog, choice, spoiled>>

-----------------------------------------------------------------------------
(* Reading.                                                                *)

\* A torn file does not parse, and both lists are cleared.
LoadedPatterns == IF file["patterns"].state = "whole"
                  THEN file["patterns"].data ELSE NoPatterns

LoadedAudio == IF file["audio"].state = "whole" THEN file["audio"].data ELSE Unset

\* The program ended, wherever it was, and is started again.
LoadAllSettings ==
    /\ custom' = LoadedPatterns
    /\ selected' = LoadedAudio
    /\ engine' = [custom |-> LoadedPatterns, selected |-> LoadedAudio]
    /\ spoiled' = (spoiled \/ file["patterns"].state = "torn")
    /\ dialog' = "closed" /\ choice' = Unset /\ todo' = <<>>
    /\ UNCHANGED file

-----------------------------------------------------------------------------
(* The settings dialog.                                                    *)

\* SelectByString: an id that is not in the list selects the first entry.
Shown(list, sel) ==
    [k \in Kind |-> IF IsBuiltInPatternId(k, sel[k]) \/ sel[k] \in Ids(list[k])
                    THEN sel[k] ELSE Front[k]]

\* The patterns are read from the file again before the dialog shows them.
OnSettingsClicked ==
    /\ todo = <<>> /\ dialog = "closed"
    /\ dialog' = "open"
    /\ custom' = LoadedPatterns
    /\ choice' = Shown(LoadedPatterns, selected)
    /\ todo' = ApplyCustomPatternsToEngine
    /\ UNCHANGED <<selected, engine, file, spoiled>>

Picked(k, id) ==
    /\ todo = <<>> /\ dialog = "open"
    /\ IsBuiltInPatternId(k, id) \/ id \in Ids(custom[k])
    /\ choice' = [choice EXCEPT ![k] = id]
    /\ UNCHANGED <<custom, selected, engine, dialog, file, todo, spoiled>>

\* Which pattern an upsert overwrites: the one with its id, else its name.
ById(list, p)   == {i \in DOMAIN list : list[i].id = p.id}
ByName(list, p) == {i \in DOMAIN list : list[i].name = p.name}
First(set)      == CHOOSE i \in set : \A j \in set : i =< j

\* The list after an upsert, and the id the pattern has in it.
Upserted(list, p, new) ==
    IF ~new /\ ById(list, p) # {}
    THEN [list |-> [list EXCEPT ![First(ById(list, p))] = p], id |-> p.id]
    ELSE IF ByName(list, p) # {}
    THEN [list |-> list, id |-> list[First(ByName(list, p))].id]
    ELSE [list |-> Append(list, p), id |-> p.id]

\* Save in the editor, opened on a new pattern or on the one picked.  The
\* pattern becomes the selected one, and both controls are filled anew.
UpsertCustomPattern(k, p, new) ==
    /\ todo = <<>> /\ dialog = "open"
    /\ ~new => p.id = choice[k] /\ p.id \in Ids(custom[k])
    /\ LET up == Upserted(custom[k], p, new) IN
         /\ Len(up.list) =< MaxCustom[k]
         /\ custom' = [custom EXCEPT ![k] = up.list]
         /\ selected' = [selected EXCEPT ![k] = up.id]
    /\ choice' = Shown(custom', selected')
    /\ todo' = SaveCustomSignalPatterns \o ApplyCustomPatternsToEngine
                 \o SetPatternId[k] \o SaveAudioSettings
    /\ UNCHANGED <<engine, dialog, file, spoiled>>

Fallback == [roger |-> "none", call |-> "call_variant_1"]

\* The list without the patterns of an id.
Without(list, id) ==
    LET kept[n \in 0..Len(list)] ==
          IF n = 0 THEN <<>>
          ELSE IF list[n].id = id THEN kept[n - 1]
          ELSE Append(kept[n - 1], list[n])
    IN  kept[Len(list)]

Removed(k) ==
    /\ todo = <<>> /\ dialog = "open"
    /\ choice[k] \in Ids(custom[k])
    /\ custom' = [custom EXCEPT ![k] = Without(@, choice[k])]
    /\ selected' = [selected EXCEPT ![k] = IF @ = choice[k] THEN Fallback[k] ELSE @]
    /\ choice' = Shown(custom', selected')

\* Mutant of DeleteCustomPattern: the patterns are saved first.
DeletePatternsFirst(k) ==
    /\ Removed(k)
    /\ todo' = SaveCustomSignalPatterns \o ApplyCustomPatternsToEngine
               \o (IF selected[k] = choice[k]
                   THEN SetPatternId[k] \o SaveAudioSettings ELSE <<>>)
    /\ UNCHANGED <<engine, dialog, file, spoiled>>

\* Delete in the editor: the selection goes back to a pattern that is always
\* there, and is saved, before the list is saved without the pattern.
DeleteCustomPattern(k) ==
    /\ Removed(k)
    /\ todo' = (IF selected[k] = choice[k]
                THEN SetPatternId[k] \o SaveAudioSettings ELSE <<>>)
               \o SaveCustomSignalPatterns \o ApplyCustomPatternsToEngine
    /\ UNCHANGED <<engine, dialog, file, spoiled>>

\* OK takes what the controls show; Cancel takes back nothing.
DialogAccepted ==
    /\ todo = <<>> /\ dialog = "open"
    /\ dialog' = "closed" /\ choice' = Unset
    /\ selected' = choice
    /\ todo' = SetPatternId["roger"] \o SetPatternId["call"] \o SaveAudioSettings
    /\ UNCHANGED <<custom, engine, file, spoiled>>

DialogCancelled ==
    /\ todo = <<>> /\ dialog = "open"
    /\ dialog' = "closed" /\ choice' = Unset
    /\ UNCHANGED <<custom, selected, engine, file, todo, spoiled>>

\* The volume slider, a connect or the protocol registration saves the same
\* settings, whatever they are.
OnRxVolumeSlider ==
    /\ todo = <<>> /\ dialog = "closed"
    /\ todo' = SaveAudioSettings
    /\ UNCHANGED <<custom, selected, engine, dialog, choice, file, spoiled>>

-----------------------------------------------------------------------------
(* What is heard.                                                          *)

\* FindRogerPatternLocked, FindCallPatternLocked: an id found nowhere plays
\* the first built-in pattern.
Played(k) ==
    IF \/ IsBuiltInPatternId(k, engine.selected[k])
       \/ engine.selected[k] \in Ids(engine.custom[k])
    THEN engine.selected[k] ELSE Front[k]

PatternsStep ==
    \/ Applied
    \/ \E k \in Kind : IdSet(k)
    \/ \E f \in File : Truncated(f) \/ NotOpened(f) \/ Written(f)
    \/ OnSettingsClicked \/ DialogAccepted \/ DialogCancelled
    \/ OnRxVolumeSlider
    \/ \E k \in Kind :
         \/ \E i \in DOMAIN BuiltIn[k] : Picked(k, BuiltIn[k][i])
         \/ \E id \in PatternId : Picked(k, id)
         \/ \E p \in Pattern, new \in BOOLEAN : UpsertCustomPattern(k, p, new)
         \/ DeleteCustomPattern(k)

\* Bound: nothing is claimed of a client whose patterns were lost, and it is
\* only followed to its next starts.
PatternsNext == LoadAllSettings \/ (~spoiled /\ PatternsStep)
=============================================================================
