-------------------------- MODULE MCClientSettings --------------------------
(***************************************************************************)
(* The settings of the Windows client: its signal patterns and its         *)
(* connection profiles.  The two share no state and no file, so a          *)
(* behaviour exercises one of them while the other rests: their sum is     *)
(* explored, not their product.                                            *)
(***************************************************************************)
EXTENDS SignalPatterns, ConnectionProfiles

CONSTANTS i1, i2, n1, n2, f0, f1

MCId    == {i1, i2}
MCName  == {n1, n2}
MCField == {f0, f1}

VARIABLE part  \* the half this behaviour is about

MCMaxCustom == [roger |-> 2, call |-> 1]

settingsVars == <<part, patternVars, profileVars>>

SettingsInit ==
    /\ part \in {"patterns", "profiles"}
    /\ PatternsInit
    /\ ProfilesInit

SettingsNext ==
    \/ part = "patterns" /\ PatternsNext /\ UNCHANGED <<part, profileVars>>
    \/ part = "profiles" /\ ProfilesNext /\ UNCHANGED <<part, patternVars>>

SettingsSpec == SettingsInit /\ [][SettingsNext]_settingsVars

-----------------------------------------------------------------------------
\* When no handler runs, the signal that is played is the one selected, as it
\* was last edited: after any sequence of edits, deletions, accepted and
\* cancelled dialogs, and after a restart wherever the program ended, between
\* the two files too; unless patterns were read from a torn file or a save
\* failed silently (MainFrame.cpp:2196-2312, AudioEngine.cpp:648-674).
ChosenSignalPlays ==
    (todo = <<>> /\ ~spoiled) =>
        /\ engine.custom = custom
        /\ \A k \in Kind : Played(k) = selected[k]

\* The fields on screen are those of the profile a save would overwrite, and
\* the choice control names it, after any switch, deletion, link or restart
\* (MainFrame.cpp:2521-2660).
ScreenShowsActiveProfile ==
    /\ ProfilesTypeOK
    /\ shows = active /\ picked = active
=============================================================================
